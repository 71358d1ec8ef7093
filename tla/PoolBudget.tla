------------------------------ MODULE PoolBudget ------------------------------
(***************************************************************************)
(* The Beast-fed budget of the resolver pool: PoolBudget, BudgetSlot,      *)
(* apply_pool_budget and the deadline half of configure (resolver/mod.rs), *)
(* with the engine that pushes it (MonokumaDnsEngine.kt).  Every field is  *)
(* an atomic or a lock of its own, so each access is a step.               *)
(***************************************************************************)
EXTENDS Integers, FiniteSets

CONSTANTS
    Queries,        \* threads that exchange with the upstream
    Caps,           \* windows the Beast computes
    Deadlines,      \* deadlines, in polls of the wait loop
    MaxWait,        \* BUDGET_MAX_WAIT, in polls
    Concurrent      \* configure may run while a push does

ASSUME BudgetAssumption ==
    /\ IsFiniteSet(Queries)
    /\ Caps \subseteq Nat \ {0}
    /\ Deadlines \subseteq Nat \ {0} /\ Deadlines # {}
    /\ MaxWait \in Nat \ {0}
    /\ Concurrent \in BOOLEAN

VARIABLES
    cap,            \* PoolBudget::cwnd_cap, 0 for uncapped
    inflight,       \* PoolBudget::inflight
    timeout,        \* Resolver::timeout
    configured_timeout, \* Resolver::configured_timeout
    query,          \* query -> its pass through acquire and the exchange
    outrun,         \* history: the queries that another one overtook between
                    \* their last look at inflight and their fetch_add
    job,            \* the engine's coroutine: "none", "active" or "cancelled"
    push,           \* "cycle", "stop" -> their call of apply_pool_budget
    conf,           \* the call of configure
    crossed         \* history: since the last release began alone, a push has
                    \* overlapped another push or a configure

slots   == <<inflight, query, outrun>>
control == <<cap, timeout, configured_timeout, job, push, conf, crossed>>
vars    == <<inflight, query, outrun, cap, timeout, configured_timeout, job, push, conf, crossed>>

Pushers == {"cycle", "stop"}
NoPush  == [pc |-> "idle", cap |-> 0, timeout |-> 0]
NoQuery == [pc |-> "idle", cap |-> 0, limit |-> 0, waited |-> 0]
NoConf  == [pc |-> "idle", timeout |-> 0]

Lesser(a, b) == IF a < b THEN a ELSE b

Init == /\ cap = 0
        /\ inflight = 0
        /\ timeout \in Deadlines
        /\ configured_timeout = timeout
        /\ query = [q \in Queries |-> NoQuery]
        /\ outrun = {}
        /\ job = "none"
        /\ push = [p \in Pushers |-> NoPush]
        /\ conf = NoConf
        /\ crossed = FALSE

(***************************************************************************)
(* The query path.                                                         *)
(***************************************************************************)
\* resolve_inner reads the deadline, acquire reads the window.
Acquire(q) ==
    /\ query[q].pc = "idle"
    /\ query' = [query EXCEPT ![q] = [pc |-> "check", cap |-> cap,
                                     limit |-> Lesser(timeout, MaxWait), waited |-> 0]]
    /\ UNCHANGED <<inflight, outrun, control>>

\* Slip: a full window is waited out without a bound.
CheckForever(q) ==
    /\ query[q].pc = "check"
    /\ query[q].cap = 0 \/ inflight < query[q].cap
    /\ query' = [query EXCEPT ![q].pc = "add"]
    /\ UNCHANGED <<inflight, outrun, control>>

\* Slip: the window admits one query too many.
CheckOffByOne(q) ==
    LET full == query[q].cap > 0 /\ inflight > query[q].cap IN
    /\ query[q].pc = "check"
    /\ \/ /\ full /\ query[q].waited < query[q].limit
          /\ query' = [query EXCEPT ![q].waited = @ + 1]
       \/ /\ ~full \/ query[q].waited >= query[q].limit
          /\ query' = [query EXCEPT ![q].pc = "add"]
    /\ UNCHANGED <<inflight, outrun, control>>

\* The load of inflight that decides whether to go on, sleep or give up waiting.
Check(q) ==
    LET full == query[q].cap > 0 /\ inflight >= query[q].cap IN
    /\ query[q].pc = "check"
    /\ \/ /\ full /\ query[q].waited < query[q].limit
          /\ query' = [query EXCEPT ![q].waited = @ + 1]
       \/ /\ ~full \/ query[q].waited >= query[q].limit
          /\ query' = [query EXCEPT ![q].pc = "add"]
    /\ UNCHANGED <<inflight, outrun, control>>

\* fetch_add, whatever the window is by now.
Enter(q) ==
    /\ query[q].pc = "add"
    /\ inflight' = inflight + 1
    /\ query' = [query EXCEPT ![q].pc = "hold"]
    /\ outrun' = {r \in Queries \ {q} : query[r].pc = "add"}
    /\ UNCHANGED control

\* Slip: the early return of a miss keeps the slot.
ReleaseForgotten(q) ==
    /\ query[q].pc = "hold"
    /\ inflight' \in {inflight - 1, inflight}
    /\ query' = [query EXCEPT ![q] = NoQuery]
    /\ UNCHANGED <<outrun, control>>

\* The exchange ends, by an answer, a miss, a timeout or a panic: the slot is
\* dropped on each of them.
Release(q) ==
    /\ query[q].pc = "hold"
    /\ inflight' = inflight - 1
    /\ query' = [query EXCEPT ![q] = NoQuery]
    /\ UNCHANGED <<outrun, control>>

(***************************************************************************)
(* apply_pool_budget, called by p: the window, then the deadline, which on *)
(* a release is read from configured_timeout before it is stored.          *)
(***************************************************************************)
PushCap(p) ==
    /\ push[p].pc = "cap"
    /\ cap' = push[p].cap
    /\ push' = [push EXCEPT ![p].pc = "read"]
    /\ UNCHANGED <<slots, timeout, configured_timeout, job, conf, crossed>>

PushRead(p) ==
    /\ push[p].pc = "read"
    /\ push' = [push EXCEPT ![p].pc = "store",
                            ![p].timeout = IF @ > 0 THEN @ ELSE configured_timeout]
    /\ UNCHANGED <<slots, cap, timeout, configured_timeout, job, conf, crossed>>

PushStore(p) ==
    /\ push[p].pc = "store"
    /\ timeout' = push[p].timeout
    /\ push' = [push EXCEPT ![p] = NoPush]
    /\ UNCHANGED <<slots, cap, configured_timeout, job, conf, crossed>>

Pushing(p) == push[p].pc # "idle"

Overlaps(p) == \/ \E o \in Pushers \ {p} : Pushing(o)
               \/ conf.pc # "idle"

Begin(p, c, d) ==
    /\ ~Pushing(p)
    /\ push' = [push EXCEPT ![p] = [pc |-> "cap", cap |-> c, timeout |-> d]]
    /\ crossed' = (Overlaps(p) \/ (crossed /\ p # "stop"))

(***************************************************************************)
(* The engine.  start launches the coroutine; stop cancels it without      *)
(* waiting for it and pushes the release.  A cancelled coroutine ends at   *)
(* its next suspension, and there is none between the computation of the   *)
(* budget and its push.                                                    *)
(***************************************************************************)
Start ==
    /\ job = "none" /\ ~Pushing("stop")
    /\ job' = "active"
    /\ UNCHANGED <<slots, cap, timeout, configured_timeout, push, conf, crossed>>

Cycle(c, d) ==
    /\ job = "active"
    /\ Begin("cycle", c, d)
    /\ UNCHANGED <<slots, cap, timeout, configured_timeout, job, conf>>

\* Slip: stop does not release the budget.
StopQuietly ==
    /\ job = "active"
    /\ job' = "cancelled"
    /\ UNCHANGED <<slots, cap, timeout, configured_timeout, push, conf, crossed>>

Stop ==
    /\ job = "active"
    /\ job' = "cancelled"
    /\ Begin("stop", 0, 0)
    /\ UNCHANGED <<slots, cap, timeout, configured_timeout, conf>>

End ==
    /\ job = "cancelled" /\ ~Pushing("cycle")
    /\ job' = "none"
    /\ UNCHANGED <<slots, cap, timeout, configured_timeout, push, conf, crossed>>

(***************************************************************************)
(* configure: timeout, configured_timeout, then the window, each stored    *)
(* on its own before the new pool is swapped in.                           *)
(***************************************************************************)
Configure(d) ==
    /\ conf.pc = "idle"
    /\ Concurrent \/ \A p \in Pushers : ~Pushing(p)
    /\ conf' = [pc |-> "remember", timeout |-> d]
    /\ timeout' = d
    /\ crossed' = (crossed \/ \E p \in Pushers : Pushing(p))
    /\ UNCHANGED <<slots, cap, configured_timeout, job, push>>

ConfigureRemember ==
    /\ conf.pc = "remember"
    /\ configured_timeout' = conf.timeout
    /\ conf' = [conf EXCEPT !.pc = "reset"]
    /\ UNCHANGED <<slots, cap, timeout, job, push, crossed>>

ConfigureReset ==
    /\ conf.pc = "reset"
    /\ cap' = 0
    /\ conf' = NoConf
    /\ UNCHANGED <<slots, timeout, configured_timeout, job, push, crossed>>

Step(q) == Acquire(q) \/ Check(q) \/ Enter(q) \/ Release(q)

Push(p) == PushCap(p) \/ PushRead(p) \/ PushStore(p)

Next == \/ \E q \in Queries : Step(q)
        \/ \E p \in Pushers : Push(p)
        \/ \E c \in Caps, d \in Deadlines : Cycle(c, d)
        \/ Start \/ Stop \/ End
        \/ \E d \in Deadlines : Configure(d)
        \/ ConfigureRemember \/ ConfigureReset

\* A thread inside acquire keeps running and an exchange ends by its deadline.
Fairness == \A q \in Queries : WF_vars(Check(q) \/ Enter(q) \/ Release(q))

Spec == Init /\ [][Next]_vars /\ Fairness

-----------------------------------------------------------------------------
\* Every variable keeps its type.
TypeOK ==
    /\ cap \in Caps \cup {0}
    /\ inflight \in 0 .. Cardinality(Queries)
    /\ timeout \in Deadlines /\ configured_timeout \in Deadlines
    /\ query \in [Queries -> [pc : {"idle", "check", "add", "hold"}, cap : Caps \cup {0},
                              limit : 0 .. MaxWait, waited : 0 .. MaxWait]]
    /\ outrun \subseteq Queries
    /\ job \in {"none", "active", "cancelled"}
    /\ push \in [Pushers -> [pc : {"idle", "cap", "read", "store"}, cap : Caps \cup {0},
                             timeout : Deadlines \cup {0}]]
    /\ conf \in [pc : {"idle", "remember", "reset"}, timeout : Deadlines \cup {0}]
    /\ crossed \in BOOLEAN

Holders == {q \in Queries : query[q].pc = "hold"}

\* inflight is the number of queries that hold a slot: every exit path of an
\* exchange gives its slot back once.
InflightIsHolders == inflight = Cardinality(Holders)

\* A query exceeds the window it read only after the full wait, or because
\* another query took a slot between its last look and its own fetch_add.
OverWindowOnlyIfWaited ==
    [][\A q \in Queries :
          query[q].pc = "add" /\ query'[q].pc = "hold" /\ query[q].cap > 0
            /\ inflight >= query[q].cap
          => query[q].waited >= query[q].limit \/ q \in outrun]_vars

Quiet == /\ job = "none" /\ conf.pc = "idle"
         /\ \A p \in Pushers : ~Pushing(p)

\* Once the engine is gone the window is open and the deadline is the one
\* configure set, unless a push overlapped another push or a configure.
ReleasedUnlessCrossed == Quiet /\ ~crossed => cap = 0 /\ timeout = configured_timeout

\* Fail-open: a query that asks for a slot gets one.
EveryQueryAdmitted ==
    \A q \in Queries : query[q].pc = "check" ~> query[q].pc = "hold"

\* What MonokumaDnsEngine.stop says of its release: a stale budget never
\* keeps throttling live DNS after the governor has stopped.
NoWindowAfterStop == Quiet => cap = 0

\* What Resolver says of configured_timeout: a release restores it exactly.
ReleaseRestoresDeadline == Quiet /\ cap = 0 => timeout = configured_timeout
=============================================================================
