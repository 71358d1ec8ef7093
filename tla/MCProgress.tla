------------------------------ MODULE MCProgress ------------------------------
(***************************************************************************)
(* Two parts that must make progress, side by side for TLC: the admission  *)
(* window of PoolBudget and the fallback detector of ResolverRuntime.      *)
(* `part` says which one a behaviour is about, the other stays in its      *)
(* initial state, where the fairness of its steps asks nothing.            *)
(***************************************************************************)
EXTENDS PoolBudget, ResolverRuntime

VARIABLE part

\* The file names the set and pins servers, or names nothing.
TwoConfigs == {[names |-> "a", pinned |-> TRUE], [names |-> "no names", pinned |-> FALSE]}

ProgressInit ==
    /\ part \in {"window", "fallback"}
    /\ Init /\ RuntimeInit
    /\ part = "window" => toml.pinned /\ useRust
    /\ part = "fallback" => timeout = 1

ProgressNext ==
    /\ UNCHANGED part
    /\ \/ part = "window" /\ Next /\ UNCHANGED runtimeVars
       \/ part = "fallback" /\ RuntimeNext /\ UNCHANGED vars

ProgressSpec ==
    ProgressInit /\ [][ProgressNext]_<<part, vars, runtimeVars>> /\ Fairness /\ RuntimeFair
=============================================================================
