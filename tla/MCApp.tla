-------------------------------- MODULE MCApp --------------------------------
(***************************************************************************)
(* The parts of the Android app that share no state, side by side for TLC, *)
(* and the durable record that one writer at a time stores for them:       *)
(* `part` says which one a behaviour is about, the others stay in their    *)
(* initial states.                                                         *)
(***************************************************************************)
EXTENDS Hysteresis, DurableTier, SourceLists, Tunnel, TLC

VARIABLE part

\* A payload of two blocks, one of three and one above the bound.
Lengths == ("short" :> 2) @@ ("long" :> 3) @@ ("huge" :> 4)
ThreePayloads == DOMAIN Lengths

\* Two versions of a source list, the second one shorter.
Shrinking == <<2, 1>>

AppInit ==
    /\ part \in {"trigger", "tunnel", "tier", "lists"}
    /\ HysteresisInit /\ TunnelInit /\ Init /\ ListInit

AppNext ==
    /\ UNCHANGED part
    /\ \/ part = "trigger" /\ HysteresisNext /\ UNCHANGED <<tunnelVars, vars, listVars>>
       \/ part = "tunnel" /\ TunnelNext /\ UNCHANGED <<hysteresisVars, vars, listVars>>
       \/ part = "tier" /\ Next /\ UNCHANGED <<hysteresisVars, tunnelVars, listVars>>
       \/ part = "lists" /\ ListNext /\ UNCHANGED <<hysteresisVars, tunnelVars, vars>>

AppSpec ==
    AppInit /\ [][AppNext]_<<part, hysteresisVars, tunnelVars, vars, listVars>>
=============================================================================
