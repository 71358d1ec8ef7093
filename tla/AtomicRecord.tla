----------------------------- MODULE AtomicRecord -----------------------------
(* What a durable record promises its pillar: a write replaces the record   *)
(* in one step or not at all, whenever the process dies, and what is read   *)
(* back is what was last written.                                           *)
CONSTANTS Writers, Payloads, NoRecord

VARIABLES record,   \* what a reader gets
          pending,  \* writer -> the payload of its call, or NoRecord
          cleared   \* changes with every call of clear

Init == /\ record = NoRecord
        /\ pending = [w \in Writers |-> NoRecord]
        /\ cleared = FALSE

\* A write is asked for; nothing is recorded yet.
Ask(w, v) == /\ pending[w] = NoRecord
             /\ pending' = [pending EXCEPT ![w] = v]
             /\ UNCHANGED <<record, cleared>>

\* It takes effect at once and whole ...
Commit(w) == /\ pending[w] # NoRecord
             /\ record' = pending[w]
             /\ pending' = [pending EXCEPT ![w] = NoRecord]
             /\ UNCHANGED cleared

\* ... or leaves the record as it was.
Abort(W) == /\ pending' = [w \in Writers |-> IF w \in W THEN NoRecord ELSE pending[w]]
            /\ UNCHANGED <<record, cleared>>

Clear == /\ record' = NoRecord
         /\ cleared' = ~cleared
         /\ UNCHANGED pending

Next == \/ \E w \in Writers : Commit(w) \/ \E v \in Payloads : Ask(w, v)
        \/ \E W \in SUBSET Writers : Abort(W)
        \/ Clear

Spec == Init /\ [][Next]_<<record, pending, cleared>>
=============================================================================
