------------------------------- MODULE MCEngine -------------------------------
(***************************************************************************)
(* The parts of the Rust engine that share no state, side by side for TLC, *)
(* with the cache of bindings kept beside it and the loop that configures  *)
(* its pool: `part` says which one a behaviour is about, the others stay   *)
(* in their initial states.                                                *)
(***************************************************************************)
EXTENDS DurableTier, Certificates, Blocklists, SolverBindings, ModulesLoop, TLC

VARIABLE part

\* Two payloads that differ in length, for two writers.
SmallPayloads == {"one", "two"}
SmallBlocks   == ("one" :> 1) @@ ("two" :> 2)

\* A name and its parent; one lane ships either, the other the child, and the
\* user's own list blocks the parent.
ListedNames == {<<1>>, <<1, 2>>}
UserLists   == {{<<1>>}}
TwoLanes    == ("ads" :> {{<<1>>}, {<<1, 2>>}}) @@ ("phishing" :> {{<<1, 2>>}})

\* A post-quantum certificate and its classic successor; the windows overlap.
Schedule == <<[key |-> "k1", es_version |-> 3, ts_start |-> 1, ts_end |-> 3],
              [key |-> "k2", es_version |-> 2, ts_start |-> 2, ts_end |-> 4]>>

\* Everything an earlier process may have left.
AnyLeftovers == [wanted : BOOLEAN, enabled : BOOLEAN,
                 appState : {"UNDEFINED", "STOPPED", "RUNNING"}]

EngineInit ==
    /\ part \in {"tier", "lists", "certs", "bindings", "modules"}
    /\ Init /\ BlocklistInit /\ CertInit /\ SolverInit /\ ModulesInit
    /\ part = "bindings" \/ network = "home"
    /\ part = "modules" \/ (intents = <<>> /\ restored = FALSE /\ consent /\ wanted
                            /\ enabled /\ appState = "RUNNING")

EngineNext ==
    /\ UNCHANGED part
    /\ \/ /\ part = "tier" /\ Next
          /\ UNCHANGED <<listVars, certVars, bindingVars, modulesVars>>
       \/ /\ part = "lists" /\ BlocklistNext
          /\ UNCHANGED <<vars, certVars, bindingVars, modulesVars>>
       \/ /\ part = "certs" /\ CertNext
          /\ UNCHANGED <<vars, listVars, bindingVars, modulesVars>>
       \/ /\ part = "bindings" /\ SolverNext
          /\ UNCHANGED <<vars, listVars, certVars, modulesVars>>
       \/ /\ part = "modules" /\ ModulesNext
          /\ UNCHANGED <<vars, listVars, certVars, bindingVars>>

EngineSpec ==
    /\ EngineInit
    /\ [][EngineNext]_<<part, vars, listVars, certVars, bindingVars, modulesVars>>
=============================================================================
