---------------------------- MODULE MCModulesLoop ----------------------------
(* ModulesLoop for TLC. *)
EXTENDS ModulesLoop

\* A first process, and one after a process that was killed while running.
FreshOrKilled ==
    {[wanted |-> FALSE, enabled |-> FALSE, appState |-> "UNDEFINED"],
     [wanted |-> TRUE, enabled |-> TRUE, appState |-> "RUNNING"]}

\* The switch is off, the service is gone and nothing is left to do.
AtRest == ~service /\ intents = <<>> /\ mailbox = <<>> /\ UNCHANGED modulesVars

SwitchSpec == ModulesInit /\ [][ModulesNext \/ AtRest]_modulesVars /\ ModulesFairness
=============================================================================
