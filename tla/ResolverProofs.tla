---------------------------- MODULE ResolverProofs ----------------------------
(***************************************************************************)
(* Proofs about Resolver, for any number of threads and configurations: no *)
(* private answer is cached under enforcement unless it was armed after    *)
(* the call's gate, whose win is credited, and what the counters add up    *)
(* to.                                                                     *)
(***************************************************************************)
EXTENDS Resolver, FiniteSetTheorems, TLAPS

-----------------------------------------------------------------------------
(***************************************************************************)
(* The inductive invariant of Resolver, and the steps of a call up to its  *)
(* answer.  The invariant says, of each call in flight, what its own       *)
(* locals still have to do with the shared state: which configuration its  *)
(* pool belongs to, whether rebind enforcement has been armed since its    *)
(* gate, whose answer Pool::last_winner holds.                             *)
(***************************************************************************)

\* A call that holds a pool holds that of a configuration, the live one
\* unless it has been replaced since.
PoolKept ==
    \A t \in Threads : thread[t].pc \in {"exchange", "validate", "dns64", "rebind", "store"} =>
        thread[t].pool # 0 /\ (thread[t].pool # config => t \in swapped)

\* A private answer is on its way to the cache under enforcement only if
\* enforcement was armed after the call passed the gate.
PrivateOvertaken ==
    \A t \in Threads : thread[t].pc = "store" /\ enforce /\ IsRebind(t) => t \in overtaken

\* A call no one has crossed is the latest winner of the live pool.
Uncrossed(t) == Busy(t) /\ thread[t].by # NoOne /\ t \notin crossed

WinnerIsOwn ==
    \A t \in Threads : Uncrossed(t) =>
        config # 0 /\ thread[t].pool = config /\ winner[config] = thread[t].by

\* What such a call has written of its row is true.
RowSoFar ==
    \A t \in Threads : Uncrossed(t) =>
        /\ thread[t].pc \in {"name", "relay"} => thread[t].row.family = FamilyOf(thread[t].by)
        /\ thread[t].pc = "relay" => thread[t].row.name = thread[t].by

\* No answer before the exchange.
Unanswered ==
    \A t \in Threads :
        thread[t].pc \in {"gate", "lookup", "pool", "exchange"} => thread[t].by = NoOne

Shape  == TypeOK /\ PoolKept /\ Unanswered
Caches == PrivateOvertaken /\ PrivateOnlyIfOvertaken /\ ForeignOnlyIfSwapped
Rows   == WinnerIsOwn /\ RowSoFar /\ RowTrueUnlessCrossed
IInv   == Shape /\ Caches /\ Rows

-----------------------------------------------------------------------------
LEMMA GateOrderOK == \A i \in 1 .. 11 : GateOrder[i] \in Gates
BY DEF GateOrder, Gates

LEMMA GateOutcomeOK == \A g \in Gates : GateOutcome(g) \in Outcomes
<1>1. Gates = {"parse", "blocklist", "dohBypass", "warden", "underground",
               "homograph", "localPin", "cloak", "bogusPriv", "neverForward",
               "v6Withheld"}
  BY DEF Gates, GateOrder
<1> QED
  BY <1>1 DEF GateOutcome, Outcomes, Forwarded, DenyGates

LEMMA FamilyOK == \A w \in Transports \cup {NoOne} : FamilyOf(w) \in Families
BY DEF FamilyOf, Families

LEMMA RelayOK == \A w \in Transports \cup {NoOne} : RelayVia(w) \in Relays
BY DEF RelayVia, Relays

LEMMA LiveWinnerOK == TypeOK => LiveWinner \in Transports \cup {NoOne}
BY ResolverAssumption DEF TypeOK, LiveWinner, Configs

LEMMA AnyNameOK == AnyName \in Names
BY ResolverAssumption DEF AnyName

LEMMA ReturnedOK ==
    ASSUME NEW o \in Outcomes, NEW by \in Transports \cup {NoOne},
           NEW row \in [family : Families, name : Transports \cup {NoOne}, relay : Relays]
    PROVE  Returned(o, by, row) \in Call
BY AnyNameOK, ResolverAssumption DEF Returned, Call

LEMMA EmptyRowOK ==
    EmptyRow \in [family : Families, name : Transports \cup {NoOne}, relay : Relays]
BY DEF EmptyRow, Families, Relays

LEMMA NewCallOK == \A n \in Names : NewCall(n) \in Call
BY EmptyRowOK, ResolverAssumption DEF NewCall, Call, Outcomes

LEMMA CountOK ==
    ASSUME NEW ks, stats \in [Counters -> Nat], Count(ks)
    PROVE  /\ stats' \in [Counters -> Nat]
           /\ \A k \in Counters : stats'[k] = stats[k] + (IF k \in ks THEN 1 ELSE 0)
BY DEF Count

PCs == {"idle", "gate", "lookup", "pool", "exchange", "validate", "dns64", "rebind",
        "store", "family", "name", "relay"}

LEMMA SetPc == \A c \in Call, pc \in PCs : [c EXCEPT !.pc = pc] \in Call
BY Zenon DEF Call, PCs

LEMMA SetOutcome ==
    \A c \in Call, pc \in PCs, o \in Outcomes : [c EXCEPT !.pc = pc, !.outcome = o] \in Call
BY Zenon DEF Call, PCs

LEMMA SetPool ==
    \A c \in Call, pc \in PCs, p \in 0 .. MaxConfig : [c EXCEPT !.pc = pc, !.pool = p] \in Call
BY Zenon DEF Call, PCs

LEMMA SetGate == \A c \in Call, g \in 1 .. 12 : [c EXCEPT !.gate = g] \in Call
BY DEF Call

LEMMA SetReply ==
    ASSUME NEW c \in Call, NEW by \in Transports \cup {NoOne}, NEW pc \in PCs,
           NEW reply \in AllKinds \cup {NoReply}, NEW o \in Outcomes
    PROVE  [c EXCEPT !.by = by, !.pc = pc, !.reply = reply, !.outcome = o] \in Call
BY Zenon DEF Call, PCs

LEMMA SetFamily ==
    \A c \in Call, f \in Families : [c EXCEPT !.pc = "name", !.row.family = f] \in Call
BY Zenon DEF Call

LEMMA SetName ==
    \A c \in Call, w \in Transports \cup {NoOne} :
        [c EXCEPT !.pc = "relay", !.row.name = w] \in Call
BY Zenon DEF Call

LEMMA EmptyCacheOK == EmptyCache \in [Names -> Held \cup {NoEntry}]
BY DEF EmptyCache

-----------------------------------------------------------------------------
\* What the steps of a call do to it, whichever action takes them.
LEMMA ReturnShape ==
    ASSUME TypeOK, NEW t \in Threads, NEW o \in Outcomes,
           NEW row \in [family : Families, name : Transports \cup {NoOne}, relay : Relays],
           Return(t, o, row)
    PROVE  /\ thread' \in [Threads -> Call]
           /\ swapped' \subseteq Threads /\ overtaken' \subseteq Threads
           /\ crossed' \subseteq Threads
<1>1. thread[t].by \in Transports \cup {NoOne}
  BY DEF TypeOK, Call
<1> QED
  BY <1>1, ReturnedOK DEF Return, TypeOK

LEMMA FinishShape ==
    ASSUME TypeOK, NEW t \in Threads, NEW o \in Outcomes, Finish(t, o)
    PROVE  /\ thread' \in [Threads -> Call]
           /\ swapped' \subseteq Threads /\ overtaken' \subseteq Threads
           /\ crossed' \subseteq Threads
<1>1. CASE o \in Forwarded
  <2>1. [thread[t] EXCEPT !.pc = "family", !.outcome = o] \in Call
    BY Zenon, SetOutcome DEF TypeOK, PCs
  <2>2. thread' = [thread EXCEPT ![t] = [thread[t] EXCEPT !.pc = "family", !.outcome = o]]
    BY <1>1 DEF Finish, TypeOK
  <2> QED
    BY <1>1, <2>1, <2>2 DEF Finish, TypeOK, history
<1>2. CASE o \notin Forwarded
  <2>1. thread[t].row \in [family : Families, name : Transports \cup {NoOne}, relay : Relays]
    BY DEF TypeOK, Call
  <2> QED
    BY <1>2, <2>1, ReturnShape DEF Finish
<1> QED
  BY <1>1, <1>2

LEMMA GotoShape ==
    ASSUME TypeOK, NEW t \in Threads,
           NEW pc \in {"lookup", "pool", "dns64", "rebind", "exchange"}, Goto(t, pc)
    PROVE  /\ thread' \in [Threads -> Call]
           /\ swapped' \subseteq Threads /\ overtaken' \subseteq Threads
           /\ crossed' \subseteq Threads
<1>1. [thread[t] EXCEPT !.pc = pc] \in Call
  BY Zenon, SetPc DEF TypeOK, PCs
<1>2. thread' = [thread EXCEPT ![t] = [thread[t] EXCEPT !.pc = pc]]
  BY DEF Goto, TypeOK
<1>3. thread' \in [Threads -> Call]
  BY <1>1, <1>2 DEF TypeOK
<1> QED
  BY Zenon, <1>3 DEF Goto, TypeOK, history

LEMMA WonShape ==
    ASSUME TypeOK, PoolKept, NEW t \in Threads, NEW by \in Transports,
           NEW pc \in {"validate", "family", "rebind"}, NEW reply \in AllKinds \cup {NoReply},
           NEW o \in Outcomes, Won(t, by, pc, reply, o)
    PROVE  /\ thread' \in [Threads -> Call]
           /\ swapped' \subseteq Threads /\ overtaken' \subseteq Threads
           /\ crossed' \subseteq Threads
<1> DEFINE c == [thread[t] EXCEPT !.by = by, !.pc = pc, !.reply = reply, !.outcome = o]
<1>1. c \in Call
  <2>1. thread[t] \in Call /\ pc \in PCs
    BY DEF TypeOK, PCs
  <2> QED
    BY Zenon, <2>1, SetReply
<1>2. thread' = [thread EXCEPT ![t] = c]
  BY DEF Won, TypeOK
<1>3. thread' \in [Threads -> Call]
  BY <1>1, <1>2 DEF TypeOK
<1> QED
  BY <1>3 DEF Won, TypeOK

-----------------------------------------------------------------------------
\* The moves of a call: what its own step keeps of the invariants, with the
\* configuration, the winners and the enforcement switch as they were.
LEMMA FinishMoves ==
    ASSUME IInv, NEW t \in Threads, NEW o \in Outcomes, Finish(t, o),
           thread[t].pc \in {"gate", "lookup", "pool", "exchange", "validate", "dns64",
                             "rebind", "store"},
           UNCHANGED <<config, winner, enforce>>
    PROVE  /\ PoolKept' /\ Unanswered' /\ PrivateOvertaken' /\ Rows'
<1> USE DEF IInv, Shape, Caches, Rows
<1>1. CASE o \in Forwarded
  <2>1. /\ \A u \in Threads \ {t} : thread'[u] = thread[u]
        /\ swapped' = swapped /\ overtaken' = overtaken /\ crossed' = crossed
    BY <1>1 DEF Finish, TypeOK, history
  <2>2. /\ thread'[t].pc = "family" /\ thread'[t].by = thread[t].by
        /\ thread'[t].pool = thread[t].pool
    <3>1. thread'[t] = [thread[t] EXCEPT !.pc = "family", !.outcome = o]
      BY <1>1 DEF Finish, TypeOK
    <3>2. thread[t] \in Call
      BY DEF TypeOK
    <3> QED
      BY <3>1, <3>2 DEF Call
  <2>3. PoolKept' /\ Unanswered' /\ PrivateOvertaken'
    BY <2>1, <2>2 DEF PoolKept, Unanswered, PrivateOvertaken, IsRebind
  <2>4. WinnerIsOwn' /\ RowSoFar' /\ RowTrueUnlessCrossed'
    <3>1. WinnerIsOwn'
      BY <2>1, <2>2 DEF WinnerIsOwn, Uncrossed, Busy
    <3>2. RowSoFar'
      BY <2>1, <2>2 DEF RowSoFar, Uncrossed, Busy
    <3>3. RowTrueUnlessCrossed'
      BY <2>1, <2>2 DEF RowTrueUnlessCrossed, Busy
    <3> QED
      BY <3>1, <3>2, <3>3
  <2> QED
    BY <2>3, <2>4
<1>2. CASE o \notin Forwarded
  <2>1. /\ \A u \in Threads \ {t} : thread'[u] = thread[u]
        /\ thread'[t] = Returned(o, thread[t].by, thread[t].row)
        /\ swapped' = swapped \ {t} /\ overtaken' = overtaken \ {t} /\ UNCHANGED crossed
    BY <1>2 DEF Finish, Return, TypeOK
  <2>2. thread'[t].pc = "idle" /\ thread'[t].outcome = o
    BY <2>1 DEF Returned
  <2>3. PoolKept' /\ Unanswered' /\ PrivateOvertaken'
    BY Zenon, <2>1, <2>2 DEF PoolKept, Unanswered, PrivateOvertaken, IsRebind
  <2>4. WinnerIsOwn' /\ RowSoFar' /\ RowTrueUnlessCrossed'
    BY <1>2, <2>1, <2>2 DEF WinnerIsOwn, RowSoFar, RowTrueUnlessCrossed, Uncrossed, Busy
  <2> QED
    BY <2>3, <2>4
<1> QED
  BY <1>1, <1>2

LEMMA GotoMoves ==
    ASSUME IInv, NEW t \in Threads, NEW pc \in {"lookup", "pool", "dns64", "rebind"},
           Goto(t, pc), UNCHANGED <<config, winner, enforce>>,
           thread[t].pc \in IF pc \in {"lookup", "pool"} THEN {"gate", "lookup"}
                                                        ELSE {"validate", "dns64"}
    PROVE  /\ PoolKept' /\ Unanswered' /\ PrivateOvertaken' /\ Rows'
<1> USE DEF IInv, Shape, Caches, Rows
<1>1. /\ \A u \in Threads \ {t} : thread'[u] = thread[u]
      /\ swapped' = swapped /\ overtaken' = overtaken /\ crossed' = crossed
  BY DEF Goto, TypeOK, history
<1>2. /\ thread'[t].pc = pc /\ thread'[t].by = thread[t].by
      /\ thread'[t].pool = thread[t].pool
  BY DEF Goto, TypeOK, Call
<1>3. PoolKept' /\ Unanswered' /\ PrivateOvertaken'
  BY <1>1, <1>2 DEF PoolKept, Unanswered, PrivateOvertaken, IsRebind
<1>4. WinnerIsOwn' /\ RowSoFar' /\ RowTrueUnlessCrossed'
  <2>1. WinnerIsOwn'
    BY <1>1, <1>2 DEF WinnerIsOwn, Uncrossed, Busy
  <2>2. RowSoFar'
    BY <1>1, <1>2 DEF RowSoFar, Uncrossed, Busy
  <2>3. RowTrueUnlessCrossed'
    BY <1>1, <1>2 DEF RowTrueUnlessCrossed, Busy
  <2> QED
    BY <2>1, <2>2, <2>3
<1> QED
  BY <1>3, <1>4

\* What depends on the cache and the switches alone.
LEMMA CacheKept ==
    ASSUME IInv, UNCHANGED <<cache, config, enforce, host>>
    PROVE  PrivateOnlyIfOvertaken' /\ ForeignOnlyIfSwapped'
BY DEF IInv, Caches, PrivateOnlyIfOvertaken, ForeignOnlyIfSwapped

-----------------------------------------------------------------------------
\* One lemma per action.
LEMMA InitIInv == Init => IInv
<1> SUFFICES ASSUME Init PROVE IInv
  OBVIOUS
<1>1. Returned("Miss", NoOne, EmptyRow) \in Call
  BY ReturnedOK, EmptyRowOK DEF Outcomes
<1>2. TypeOK
  <2>1. cache \in [Names -> Held \cup {NoEntry}]
    BY EmptyCacheOK DEF Init
  <2>2. thread \in [Threads -> Call]
    BY <1>1 DEF Init
  <2>3. armed \subseteq Gates \cup {"dns64"}
    BY ResolverAssumption DEF Init
  <2>4. enforce \in BOOLEAN
    BY Zenon DEF Init
  <2>5. /\ config \in 0 .. MaxConfig /\ installed \in 0 .. MaxConfig
        /\ winner \in [Configs -> Transports \cup {NoOne}] /\ host \in {"idle", "clear"}
        /\ stats \in [Counters -> Nat]
        /\ swapped \subseteq Threads /\ overtaken \subseteq Threads /\ crossed \subseteq Threads
    BY ResolverAssumption DEF Init
  <2> QED
    BY <2>1, <2>2, <2>3, <2>4, <2>5 DEF TypeOK
<1>3. \A t \in Threads : thread[t].pc = "idle" /\ thread[t].by = NoOne
  BY DEF Init, Returned
<1>4. PoolKept /\ Unanswered /\ PrivateOvertaken /\ Rows
  BY <1>3 DEF PoolKept, Unanswered, PrivateOvertaken, Rows, WinnerIsOwn, RowSoFar,
              RowTrueUnlessCrossed, Uncrossed, Busy
<1>5. PrivateOnlyIfOvertaken /\ ForeignOnlyIfSwapped
  BY DEF Init, PrivateOnlyIfOvertaken, ForeignOnlyIfSwapped, EmptyCache
<1> QED
  BY <1>2, <1>4, <1>5 DEF IInv, Shape, Caches

LEMMA AskIInv ==
    ASSUME IInv, NEW t \in Threads, NEW n \in Names, Ask(t, n)
    PROVE  IInv'
<1> USE DEF IInv, Shape, Caches, Rows
<1>1. TypeOK'
  BY NewCallOK, CountOK DEF Ask, TypeOK
<1>2. /\ \A u \in Threads \ {t} : thread'[u] = thread[u]
      /\ thread'[t].pc = "gate" /\ thread'[t].by = NoOne
      /\ thread[t].pc = "idle" /\ crossed' = crossed \ {t}
      /\ swapped' = swapped /\ overtaken' = overtaken
      /\ config' = config /\ winner' = winner /\ enforce' = enforce
  BY DEF Ask, TypeOK, NewCall
<1>3. PoolKept' /\ Unanswered' /\ PrivateOvertaken'
  BY Zenon, <1>2 DEF PoolKept, Unanswered, PrivateOvertaken, IsRebind
<1>4. WinnerIsOwn' /\ RowSoFar' /\ RowTrueUnlessCrossed'
  BY <1>2 DEF WinnerIsOwn, RowSoFar, RowTrueUnlessCrossed, Uncrossed, Busy
<1>5. PrivateOnlyIfOvertaken' /\ ForeignOnlyIfSwapped'
  BY CacheKept DEF Ask
<1> QED
  BY <1>1, <1>3, <1>4, <1>5

LEMMA GateIInv ==
    ASSUME IInv, NEW t \in Threads, Gate(t)
    PROVE  IInv'
<1> USE DEF IInv, Shape, Caches, Rows
<1>1. PICK i \in thread[t].gate .. 12 :
         \/ i = 12 /\ Goto(t, "lookup") /\ UNCHANGED stats
         \/ /\ i # 12 /\ Count(GateCounters(GateOrder[i], thread[t].name))
            /\ \/ /\ Stops(GateOrder[i], thread[t].name)
                  /\ Finish(t, GateOutcome(GateOrder[i]))
               \/ /\ ~Stops(GateOrder[i], thread[t].name)
                  /\ thread' = [thread EXCEPT ![t].gate = i + 1] /\ UNCHANGED history
  BY DEF Gate
<1>2. /\ thread[t].pc = "gate" /\ thread[t] \in Call
      /\ config' = config /\ winner' = winner /\ enforce' = enforce /\ host' = host
      /\ cache' = cache /\ armed' = armed /\ installed' = installed
  BY DEF Gate, TypeOK
<1>3. PrivateOnlyIfOvertaken' /\ ForeignOnlyIfSwapped'
  BY <1>2, CacheKept
<1>4. CASE i = 12 /\ Goto(t, "lookup") /\ UNCHANGED stats
  <2>1. TypeOK'
    BY Zenon, <1>2, <1>4, GotoShape DEF TypeOK
  <2>2. PoolKept' /\ Unanswered' /\ PrivateOvertaken' /\ Rows'
    BY <1>2, <1>4, GotoMoves
  <2> QED
    BY <1>3, <2>1, <2>2
<1> DEFINE g == GateOrder[i]  n == thread[t].name
<1>5. ASSUME i # 12 PROVE g \in Gates
  <2>1. i \in 1 .. 11
    BY <1>2, <1>5 DEF Call
  <2> QED
    BY Zenon, <2>1, GateOrderOK
<1>6. CASE i # 12 /\ Count(GateCounters(g, n)) /\ Stops(g, n) /\ Finish(t, GateOutcome(g))
  <2>1. GateOutcome(g) \in Outcomes
    BY Zenon, <1>5, <1>6, GateOutcomeOK
  <2>2. TypeOK'
    <3>1. stats' \in [Counters -> Nat]
      BY Zenon, <1>6, CountOK DEF TypeOK
    <3> QED
      BY <1>2, <1>6, <2>1, <3>1, FinishShape DEF TypeOK
  <2>3. /\ PoolKept' /\ Unanswered' /\ PrivateOvertaken' /\ Rows'
    BY Zenon, <1>2, <1>6, <2>1, FinishMoves
  <2> QED
    BY <1>3, <2>2, <2>3
<1>7. CASE /\ i # 12 /\ Count(GateCounters(g, n)) /\ ~Stops(g, n)
           /\ thread' = [thread EXCEPT ![t].gate = i + 1] /\ UNCHANGED history
  <2>1. i + 1 \in 1 .. 12
    BY <1>2, <1>7 DEF Call
  <2>2. /\ \A u \in Threads \ {t} : thread'[u] = thread[u]
        /\ thread'[t].pc = "gate" /\ thread'[t].by = thread[t].by
        /\ swapped' = swapped /\ overtaken' = overtaken /\ crossed' = crossed
    BY <1>2, <1>7 DEF TypeOK, Call, history
  <2>3. TypeOK'
    <3>1. stats' \in [Counters -> Nat]
      BY <1>7, CountOK DEF TypeOK
    <3>2. thread' \in [Threads -> Call]
      BY Zenon, <1>2, <1>7, <2>1, SetGate DEF TypeOK
    <3> QED
      BY <1>2, <2>2, <3>1, <3>2 DEF TypeOK
  <2>4. PoolKept' /\ Unanswered' /\ PrivateOvertaken'
    BY Zenon, <1>2, <2>2 DEF PoolKept, Unanswered, PrivateOvertaken, IsRebind
  <2>5. WinnerIsOwn' /\ RowSoFar' /\ RowTrueUnlessCrossed'
    BY <1>2, <2>2 DEF WinnerIsOwn, RowSoFar, RowTrueUnlessCrossed, Unanswered, Uncrossed, Busy
  <2> QED
    BY <1>3, <2>3, <2>4, <2>5
<1> QED
  BY <1>1, <1>4, <1>6, <1>7

LEMMA LookupIInv ==
    ASSUME IInv, NEW t \in Threads, Lookup(t)
    PROVE  IInv'
<1> USE DEF IInv, Shape, Caches, Rows
<1>1. /\ thread[t].pc = "lookup"
      /\ config' = config /\ winner' = winner /\ enforce' = enforce /\ host' = host
      /\ cache' = cache /\ armed' = armed /\ installed' = installed
  BY DEF Lookup
<1>2. PrivateOnlyIfOvertaken' /\ ForeignOnlyIfSwapped'
  BY <1>1, CacheKept
<1>3. \/ \E o \in {"Miss", "CacheHit", "LocalAnswer"}, k \in {"cacheHits", "literal"} :
            Finish(t, o) /\ (UNCHANGED stats \/ Count({k}))
      \/ Goto(t, "pool") /\ UNCHANGED stats
  BY DEF Lookup
<1>4. CASE Goto(t, "pool") /\ UNCHANGED stats
  <2>1. TypeOK'
    BY Zenon, <1>1, <1>4, GotoShape DEF TypeOK
  <2>2. PoolKept' /\ Unanswered' /\ PrivateOvertaken' /\ Rows'
    BY <1>1, <1>4, GotoMoves
  <2> QED
    BY <1>2, <2>1, <2>2
<1>5. ASSUME NEW o \in {"Miss", "CacheHit", "LocalAnswer"}, NEW k \in {"cacheHits", "literal"},
             Finish(t, o), UNCHANGED stats \/ Count({k})
      PROVE  IInv'
  <2>1. o \in Outcomes
    BY DEF Outcomes
  <2>2. stats' \in [Counters -> Nat]
    BY Zenon, <1>5, CountOK DEF TypeOK
  <2>3. TypeOK'
    BY Zenon, <1>1, <1>5, <2>1, <2>2, FinishShape DEF TypeOK
  <2>4. /\ PoolKept' /\ Unanswered' /\ PrivateOvertaken' /\ Rows'
    BY <1>1, <1>5, <2>1, FinishMoves
  <2> QED
    BY <1>2, <2>3, <2>4
<1> QED
  BY Zenon, <1>3, <1>4, <1>5

LEMMA TakePoolIInv ==
    ASSUME IInv, NEW t \in Threads, TakePool(t)
    PROVE  IInv'
<1> USE DEF IInv, Shape, Caches, Rows
<1>1. /\ thread[t].pc = "pool" /\ UNCHANGED stats /\ thread[t] \in Call
      /\ config' = config /\ winner' = winner /\ enforce' = enforce /\ host' = host
      /\ cache' = cache /\ armed' = armed /\ installed' = installed
  BY Zenon DEF TakePool, TypeOK
<1>2. PrivateOnlyIfOvertaken' /\ ForeignOnlyIfSwapped'
  BY <1>1, CacheKept
<1>3. CASE Finish(t, "Miss")
  <2>1. "Miss" \in Outcomes
    BY Zenon DEF Outcomes
  <2>2. TypeOK'
    BY Zenon, <1>1, <1>3, <2>1, FinishShape DEF TypeOK
  <2>3. /\ PoolKept' /\ Unanswered' /\ PrivateOvertaken' /\ Rows'
    BY <1>1, <1>3, <2>1, FinishMoves
  <2> QED
    BY <1>2, <2>2, <2>3
<1>4. CASE /\ config # 0
           /\ thread' = [thread EXCEPT ![t] = [@ EXCEPT !.pc = "exchange", !.pool = config]]
           /\ swapped' = swapped \ {t} /\ UNCHANGED <<overtaken, crossed>>
  <2>1. /\ \A u \in Threads \ {t} : thread'[u] = thread[u]
        /\ thread'[t] = [thread[t] EXCEPT !.pc = "exchange", !.pool = config]
    BY <1>4 DEF TypeOK
  <2>2. /\ thread'[t].pc = "exchange" /\ thread'[t].pool = config
        /\ thread'[t].by = thread[t].by
    BY <1>1, <2>1 DEF Call
  <2>3. TypeOK'
    <3>1. [thread[t] EXCEPT !.pc = "exchange", !.pool = config] \in Call
      BY Zenon, <1>1, SetPool DEF TypeOK, PCs
    <3>2. thread' \in [Threads -> Call]
      BY <1>4, <3>1 DEF TypeOK
    <3> QED
      BY <1>1, <1>4, <3>2 DEF TypeOK
  <2>4. PoolKept' /\ Unanswered' /\ PrivateOvertaken'
    <3>1. \A u \in Threads \ {t} : thread'[u] = thread[u]
      BY <2>1
    <3> QED
      BY <1>1, <1>4, <2>2, <3>1 DEF PoolKept, Unanswered, PrivateOvertaken, IsRebind
  <2>5. WinnerIsOwn' /\ RowSoFar' /\ RowTrueUnlessCrossed'
    <3>1. (\A u \in Threads \ {t} : thread'[u] = thread[u]) /\ thread'[t].by = NoOne
      BY <1>1, <2>1, <2>2 DEF Unanswered
    <3> QED
      BY <1>1, <1>4, <2>2, <3>1
         DEF WinnerIsOwn, RowSoFar, RowTrueUnlessCrossed, Uncrossed, Busy
  <2> QED
    BY <1>1, <1>2, <2>3, <2>4, <2>5
<1> QED
  BY <1>3, <1>4 DEF TakePool

\* Pool::exchange_labeled stores its winner: the call's own row is then that
\* winner's, and the calls of the same pool that still had to report are crossed.
LEMMA WonMoves ==
    ASSUME IInv, NEW t \in Threads, NEW by \in Transports,
           NEW pc \in {"validate", "family", "rebind"}, NEW reply \in AllKinds \cup {NoReply},
           NEW o \in Outcomes, Won(t, by, pc, reply, o),
           winner' = [winner EXCEPT ![thread[t].pool] = by],
           thread[t].pc \in {"exchange", "dns64"}, UNCHANGED <<config, enforce>>
    PROVE  /\ PoolKept' /\ Unanswered' /\ PrivateOvertaken' /\ Rows'
           /\ winner' \in [Configs -> Transports \cup {NoOne}]
<1> USE DEF IInv, Shape, Caches, Rows
<1>1. thread[t] \in Call /\ thread[t].pool \in Configs /\ by # NoOne
  <2>1. thread[t] \in Call /\ thread[t].pool # 0
    BY DEF TypeOK, PoolKept
  <2> QED
    BY <2>1, ResolverAssumption DEF Call, Configs
<1>2. winner' \in [Configs -> Transports \cup {NoOne}]
  BY <1>1 DEF TypeOK
<1>3. thread'[t] = [thread[t] EXCEPT !.by = by, !.pc = pc, !.reply = reply, !.outcome = o]
  BY DEF Won, TypeOK
<1>4. /\ thread'[t].pc = pc /\ thread'[t].by = by /\ thread'[t].pool = thread[t].pool
  BY <1>1, <1>3 DEF Call
<1>5. /\ \A u \in Threads \ {t} : thread'[u] = thread[u]
      /\ swapped' = swapped /\ overtaken' = overtaken
  BY DEF Won, TypeOK
<1>6. /\ t \notin crossed' => t \notin swapped
      /\ \A u \in Threads \ {t} :
            u \notin crossed' => u \notin crossed
                                 /\ ~(Busy(u) /\ thread[u].by # NoOne
                                      /\ thread[u].pool = thread[t].pool)
  BY Zenon DEF Won
<1>7. PoolKept' /\ Unanswered' /\ PrivateOvertaken'
  BY Zenon, <1>4, <1>5 DEF PoolKept, Unanswered, PrivateOvertaken, IsRebind
<1>8. WinnerIsOwn'
  <2> SUFFICES ASSUME NEW u \in Threads, Uncrossed(u)'
               PROVE  config # 0 /\ thread'[u].pool = config /\ winner'[config] = thread'[u].by
    BY DEF WinnerIsOwn
  <2>1. CASE u = t
    <3>1. thread[t].pool = config
      BY Zenon, <1>6, <2>1 DEF Uncrossed, PoolKept
    <3> QED
      BY Zenon, <1>1, <1>4, <2>1, <3>1 DEF PoolKept, TypeOK
  <2>2. CASE u # t
    <3>1. Uncrossed(u) /\ thread[u].pool # thread[t].pool /\ thread'[u] = thread[u]
      BY Zenon, <1>5, <1>6, <2>2 DEF Uncrossed, Busy
    <3>2. config # 0 /\ thread[u].pool = config /\ winner[config] = thread[u].by
      BY Zenon, <3>1 DEF WinnerIsOwn
    <3>3. config \in Configs
      <4>1. config \in 0 .. MaxConfig /\ MaxConfig \in Nat
        BY Zenon, ResolverAssumption DEF TypeOK
      <4> QED
        BY <3>2, <4>1 DEF Configs
    <3> QED
      BY Zenon, <1>1, <3>1, <3>2, <3>3 DEF TypeOK
  <2> QED
    BY Zenon, <2>1, <2>2
<1>9. RowSoFar' /\ RowTrueUnlessCrossed'
  <2>1. RowSoFar'
    BY Zenon, <1>4, <1>5, <1>6 DEF RowSoFar, Uncrossed, Busy
  <2>2. RowTrueUnlessCrossed'
    BY Zenon, <1>4, <1>5, <1>6 DEF RowTrueUnlessCrossed, Busy
  <2> QED
    BY <2>1, <2>2
<1> QED
  BY Zenon, <1>2, <1>7, <1>8, <1>9

-----------------------------------------------------------------------------
(***************************************************************************)
(* Proofs about Resolver: the steps of a call from its answer on, those of *)
(* the control plane, and what follows from the invariant of               *)
(* ResolverMoves.                                                          *)
(***************************************************************************)

LEMMA AnswerIInv ==
    ASSUME IInv, NEW t \in Threads, NEW by \in Transports, NEW kind \in Kinds,
           Answer(t, by, kind)
    PROVE  IInv'
<1> USE DEF IInv, Shape, Caches, Rows
<1>1. /\ thread[t].pc = "exchange" /\ UNCHANGED stats /\ thread[t] \in Call
      /\ winner' = [winner EXCEPT ![thread[t].pool] = by]
      /\ Won(t, by, "validate", kind, thread[t].outcome)
      /\ config' = config /\ enforce' = enforce /\ host' = host
      /\ cache' = cache /\ armed' = armed /\ installed' = installed
  BY DEF Answer, TypeOK
<1>2. kind \in AllKinds \cup {NoReply} /\ thread[t].outcome \in Outcomes
  BY <1>1, ResolverAssumption DEF Call
<1>3. /\ PoolKept' /\ Unanswered' /\ PrivateOvertaken' /\ Rows'
      /\ winner' \in [Configs -> Transports \cup {NoOne}]
  BY Zenon, <1>1, <1>2, WonMoves
<1>4. TypeOK'
  BY Zenon, <1>1, <1>2, <1>3, WonShape DEF TypeOK
<1> QED
  BY <1>1, <1>3, <1>4, CacheKept

LEMMA FailIInv ==
    ASSUME IInv, NEW t \in Threads, NEW how \in {"transportMiss", "panics"}, Fail(t, how)
    PROVE  IInv'
<1> USE DEF IInv, Shape, Caches, Rows
<1>1. /\ thread[t].pc = "exchange" /\ Finish(t, "Miss") /\ Count({how})
      /\ config' = config /\ winner' = winner /\ enforce' = enforce /\ host' = host
      /\ cache' = cache /\ armed' = armed /\ installed' = installed
  BY DEF Fail
<1>2. "Miss" \in Outcomes
  BY DEF Outcomes
<1>3. stats' \in [Counters -> Nat]
  BY <1>1, CountOK DEF TypeOK
<1>4. TypeOK'
  BY <1>1, <1>2, <1>3, FinishShape DEF TypeOK
<1>5. /\ PoolKept' /\ Unanswered' /\ PrivateOvertaken' /\ Rows'
  BY <1>1, <1>2, FinishMoves
<1> QED
  BY <1>1, <1>4, <1>5, CacheKept

LEMMA ValidateIInv ==
    ASSUME IInv, NEW t \in Threads, Validate(t)
    PROVE  IInv'
<1> USE DEF IInv, Shape, Caches, Rows
<1>1. /\ thread[t].pc = "validate"
      /\ config' = config /\ winner' = winner /\ enforce' = enforce /\ host' = host
      /\ cache' = cache /\ armed' = armed /\ installed' = installed
  BY DEF Validate
<1>2. PrivateOnlyIfOvertaken' /\ ForeignOnlyIfSwapped'
  BY <1>1, CacheKept
<1>3. CASE Finish(t, "Rejected") /\ Count({"rejected"})
  <2>1. "Rejected" \in Outcomes
    BY DEF Outcomes
  <2>2. stats' \in [Counters -> Nat]
    BY <1>3, CountOK DEF TypeOK
  <2>3. TypeOK'
    BY <1>1, <1>3, <2>1, <2>2, FinishShape DEF TypeOK
  <2>4. /\ PoolKept' /\ Unanswered' /\ PrivateOvertaken' /\ Rows'
    BY <1>1, <1>3, <2>1, FinishMoves
  <2> QED
    BY <1>2, <2>3, <2>4
<1>4. ASSUME NEW pc \in {"dns64", "rebind"}, Goto(t, pc), UNCHANGED stats
      PROVE  IInv'
  <2>1. TypeOK'
    BY <1>1, <1>4, GotoShape DEF TypeOK
  <2>2. PoolKept' /\ Unanswered' /\ PrivateOvertaken' /\ Rows'
    BY <1>1, <1>4, GotoMoves
  <2> QED
    BY <1>2, <1>4, <2>1, <2>2
<1>5. \/ Finish(t, "Rejected") /\ Count({"rejected"})
      \/ \E pc \in {"dns64", "rebind"} : Goto(t, pc) /\ UNCHANGED stats
  BY DEF Validate
<1> QED
  BY <1>3, <1>4, <1>5

LEMMA SynthesizeIInv ==
    ASSUME IInv, NEW t \in Threads, NEW by \in Transports, Synthesize(t, by)
    PROVE  IInv'
<1> USE DEF IInv, Shape, Caches, Rows
<1>1. /\ thread[t].pc = "dns64" /\ Count({"dns64Synth"}) /\ thread[t] \in Call
      /\ winner' = [winner EXCEPT ![thread[t].pool] = by]
      /\ Won(t, by, "family", thread[t].reply, "Solved")
      /\ config' = config /\ enforce' = enforce /\ host' = host
      /\ cache' = cache /\ armed' = armed /\ installed' = installed
  BY DEF Synthesize, TypeOK
<1>2. thread[t].reply \in AllKinds \cup {NoReply} /\ "Solved" \in Outcomes
  BY <1>1 DEF Call, Outcomes, Forwarded
<1>3. /\ PoolKept' /\ Unanswered' /\ PrivateOvertaken' /\ Rows'
      /\ winner' \in [Configs -> Transports \cup {NoOne}]
  BY Zenon, <1>1, <1>2, WonMoves
<1>4. stats' \in [Counters -> Nat]
  BY <1>1, CountOK DEF TypeOK
<1>5. TypeOK'
  BY Zenon, <1>1, <1>2, <1>3, <1>4, WonShape DEF TypeOK
<1> QED
  BY <1>1, <1>3, <1>5, CacheKept

LEMMA NothingToSynthesizeIInv ==
    ASSUME IInv, NEW t \in Threads, NEW by \in Transports, NothingToSynthesize(t, by)
    PROVE  IInv'
<1> USE DEF IInv, Shape, Caches, Rows
<1>1. /\ thread[t].pc = "dns64" /\ UNCHANGED stats /\ thread[t] \in Call
      /\ config' = config /\ enforce' = enforce /\ host' = host
      /\ cache' = cache /\ armed' = armed /\ installed' = installed
  BY DEF NothingToSynthesize, TypeOK
<1>2. PrivateOnlyIfOvertaken' /\ ForeignOnlyIfSwapped'
  BY <1>1, CacheKept
<1>3. CASE /\ winner' = [winner EXCEPT ![thread[t].pool] = by]
           /\ Won(t, by, "rebind", thread[t].reply, thread[t].outcome)
  <2>1. thread[t].reply \in AllKinds \cup {NoReply} /\ thread[t].outcome \in Outcomes
    BY <1>1 DEF Call
  <2>2. /\ PoolKept' /\ Unanswered' /\ PrivateOvertaken' /\ Rows'
        /\ winner' \in [Configs -> Transports \cup {NoOne}]
    BY Zenon, <1>1, <1>3, <2>1, WonMoves
  <2>3. TypeOK'
    BY Zenon, <1>1, <1>3, <2>1, <2>2, WonShape DEF TypeOK
  <2> QED
    BY <1>1, <1>2, <2>2, <2>3
<1>4. CASE Goto(t, "rebind") /\ UNCHANGED winner
  <2>1. TypeOK'
    BY <1>1, <1>4, GotoShape DEF TypeOK
  <2>2. PoolKept' /\ Unanswered' /\ PrivateOvertaken' /\ Rows'
    BY Zenon, <1>1, <1>4, GotoMoves
  <2> QED
    BY <1>1, <1>2, <2>1, <2>2
<1> QED
  BY <1>3, <1>4 DEF NothingToSynthesize

LEMMA RebindIInv ==
    ASSUME IInv, NEW t \in Threads, Rebind(t)
    PROVE  IInv'
<1> USE DEF IInv, Shape, Caches, Rows
<1>1. /\ thread[t].pc = "rebind" /\ thread[t] \in Call
      /\ config' = config /\ winner' = winner /\ enforce' = enforce /\ host' = host
      /\ cache' = cache /\ armed' = armed /\ installed' = installed
  BY DEF Rebind, TypeOK
<1>2. PrivateOnlyIfOvertaken' /\ ForeignOnlyIfSwapped'
  BY <1>1, CacheKept
<1>3. CASE Finish(t, "RebindReject") /\ Count({"rebindObserved", "rebindRejected"})
  <2>1. "RebindReject" \in Outcomes
    BY DEF Outcomes
  <2>2. stats' \in [Counters -> Nat]
    BY <1>3, CountOK DEF TypeOK
  <2>3. TypeOK'
    BY <1>1, <1>3, <2>1, <2>2, FinishShape, Zenon DEF TypeOK
  <2>4. /\ PoolKept' /\ Unanswered' /\ PrivateOvertaken' /\ Rows'
    BY <1>1, <1>3, <2>1, FinishMoves
  <2> QED
    BY <1>2, <2>3, <2>4
<1>4. CASE Passed(t) /\ ~(IsRebind(t) /\ enforce) /\ (Count({"rebindObserved"}) \/ UNCHANGED stats)
  <2>1. /\ \A u \in Threads \ {t} : thread'[u] = thread[u]
        /\ thread'[t].pc = "store" /\ thread'[t].by = thread[t].by
        /\ thread'[t].pool = thread[t].pool /\ thread'[t].reply = thread[t].reply
        /\ thread'[t].name = thread[t].name
        /\ swapped' = swapped /\ overtaken' = overtaken \ {t} /\ crossed' = crossed
    BY <1>1, <1>4 DEF Passed, TypeOK, Call
  <2>2. TypeOK'
    <3>1. stats' \in [Counters -> Nat]
      BY <1>4, CountOK DEF TypeOK
    <3>2. thread' \in [Threads -> Call]
      <4>1. [thread[t] EXCEPT !.pc = "store"] \in Call
        BY Zenon, <1>1, SetPc DEF PCs
      <4>2. thread' = [thread EXCEPT ![t] = [thread[t] EXCEPT !.pc = "store"]]
        BY <1>4 DEF Passed, TypeOK
      <4> QED
        BY Zenon, <4>1, <4>2 DEF TypeOK
    <3> QED
      BY <1>1, <2>1, <3>1, <3>2 DEF TypeOK
  <2>3. PoolKept' /\ Unanswered'
    BY <1>1, <2>1 DEF PoolKept, Unanswered
  <2>4. PrivateOvertaken'
    BY Zenon, <1>1, <1>4, <2>1 DEF PrivateOvertaken, IsRebind
  <2>5. WinnerIsOwn' /\ RowSoFar' /\ RowTrueUnlessCrossed'
    <3>1. WinnerIsOwn'
      BY <1>1, <2>1 DEF WinnerIsOwn, Uncrossed, Busy
    <3>2. RowSoFar'
      BY <1>1, <2>1 DEF RowSoFar, Uncrossed, Busy
    <3>3. RowTrueUnlessCrossed'
      BY <1>1, <2>1 DEF RowTrueUnlessCrossed, Uncrossed, Busy
    <3> QED BY <3>1, <3>2, <3>3, Zenon
  <2> QED
    BY <1>2, <2>2, <2>3, <2>4, <2>5
<1> QED
  BY <1>3, <1>4, Zenon DEF Rebind

LEMMA LatenessOK ==
    ASSUME NEW t
    PROVE  /\ Lateness(t) \in SUBSET {"swapped", "overtaken"}
           /\ t \in swapped => "swapped" \in Lateness(t)
           /\ t \in overtaken => "overtaken" \in Lateness(t)
BY Zenon DEF Lateness

LEMMA StoreIInv ==
    ASSUME IInv, NEW t \in Threads, Store(t)
    PROVE  IInv'
<1> USE DEF IInv, Shape, Caches, Rows
<1> DEFINE c  == thread[t]
           e  == [kind |-> c.reply, config |-> c.pool, late |-> Lateness(t)]
           o  == IF c.reply = "nxdomain" THEN "SolvedNegative" ELSE "Solved"
           ks == {"answered"} \cup (IF c.reply \in Negative THEN {"negCacheGauge"} ELSE {})
<1>1. /\ c.pc = "store" /\ c \in Call /\ Count(ks) /\ Finish(t, o)
      /\ config' = config /\ winner' = winner /\ enforce' = enforce /\ host' = host
      /\ armed' = armed /\ installed' = installed
  BY DEF Store, TypeOK
<1>2. o \in Outcomes
  BY Zenon DEF Outcomes, Forwarded
<1>3. /\ PoolKept' /\ Unanswered' /\ PrivateOvertaken' /\ Rows'
  BY <1>1, <1>2, FinishMoves
<1>5. stats' \in [Counters -> Nat]
  BY <1>1, CountOK DEF TypeOK
<1>6. CASE Storing(t) /\ cache' = [cache EXCEPT ![c.name] = e]
  <2>1. c.pool \in Configs /\ c.name \in Names
    <3>1. c.pool # 0
      BY <1>1 DEF PoolKept
    <3> QED
      BY <1>1, <3>1, ResolverAssumption DEF Call, Configs
  <2>2. e \in Held
    BY <1>6, <2>1, LatenessOK DEF Storing, Held
  <2>3. /\ cache' \in [Names -> Held \cup {NoEntry}] /\ cache'[c.name] = e
        /\ \A n \in Names \ {c.name} : cache'[n] = cache[n]
    BY Zenon, <1>6, <2>1, <2>2 DEF TypeOK
  <2>4. TypeOK'
    BY <1>1, <1>2, <1>5, <2>3, FinishShape DEF TypeOK
  <2>5. /\ cache'[c.name].kind = c.reply /\ cache'[c.name].config = c.pool
        /\ cache'[c.name].late = Lateness(t)
    BY <2>3
  <2>6. PrivateOnlyIfOvertaken'
    <3> SUFFICES ASSUME NEW n \in Names \ LocalNames, enforce, host = "idle",
                        cache'[n] # NoEntry, cache'[n].kind = "private"
                 PROVE  "overtaken" \in cache'[n].late
      BY Zenon, <1>1 DEF PrivateOnlyIfOvertaken
    <3>1. CASE n = c.name
      <4>1. t \in overtaken
        BY Zenon, <1>1, <2>5, <3>1 DEF PrivateOvertaken, IsRebind
      <4> QED
        BY Zenon, <2>5, <3>1, <4>1, LatenessOK
    <3>2. CASE n # c.name
      BY <2>3, <3>2 DEF PrivateOnlyIfOvertaken
    <3> QED
      BY Zenon, <3>1, <3>2
  <2>7. ForeignOnlyIfSwapped'
    <3> SUFFICES ASSUME NEW n \in Names, cache'[n] # NoEntry, cache'[n].config # config
                 PROVE  "swapped" \in cache'[n].late
      BY <1>1 DEF ForeignOnlyIfSwapped
    <3>1. CASE n = c.name
      <4>1. t \in swapped
        BY Zenon, <1>1, <2>5, <3>1 DEF PoolKept
      <4> QED
        BY Zenon, <2>5, <3>1, <4>1, LatenessOK
    <3>2. CASE n # c.name
      BY <2>3, <3>2, Zenon DEF ForeignOnlyIfSwapped
    <3> QED
      BY <3>1, <3>2
  <2> QED
    BY Zenon, <1>3, <2>4, <2>6, <2>7
<1>7. CASE UNCHANGED cache
  <2>1. TypeOK'
    BY Zenon, <1>1, <1>2, <1>5, <1>7, FinishShape DEF TypeOK
  <2> QED
    BY <1>1, <1>3, <1>7, <2>1, CacheKept, Zenon
<1> QED
  BY <1>6, <1>7 DEF Store

LEMMA ReadFamilyIInv ==
    ASSUME IInv, NEW t \in Threads, ReadFamily(t)
    PROVE  IInv'
<1> USE DEF IInv, Shape, Caches, Rows
<1>1. /\ thread[t].pc = "family" /\ thread[t] \in Call /\ stats' = stats
      /\ config' = config /\ winner' = winner /\ enforce' = enforce /\ host' = host
      /\ cache' = cache /\ armed' = armed /\ installed' = installed
      /\ swapped' = swapped /\ overtaken' = overtaken /\ crossed' = crossed
      /\ \A u \in Threads \ {t} : thread'[u] = thread[u]
  BY DEF ReadFamily, TypeOK, history
<1> DEFINE c == [thread[t] EXCEPT !.pc = "name", !.row.family = FamilyOf(LiveWinner)]
<1>2. thread'[t] = c
  BY DEF ReadFamily, TypeOK
<1>3. c \in Call
  BY Zenon, <1>1, LiveWinnerOK, FamilyOK, SetFamily
<1>4. TypeOK'
  <2>1. thread' \in [Threads -> Call]
    BY <1>3 DEF ReadFamily, TypeOK
  <2> QED
    BY <1>1, <2>1 DEF TypeOK
<1>5. /\ thread'[t].pc = "name" /\ thread'[t].by = thread[t].by
      /\ thread'[t].pool = thread[t].pool /\ thread'[t].row.family = FamilyOf(LiveWinner)
  BY <1>1, <1>2 DEF Call
<1> HIDE DEF c
<1>6. PoolKept' /\ Unanswered' /\ PrivateOvertaken'
  BY Zenon, <1>1, <1>5 DEF PoolKept, Unanswered, PrivateOvertaken, IsRebind
<1>7. WinnerIsOwn' /\ RowTrueUnlessCrossed'
  <2>1. WinnerIsOwn'
    BY <1>1, <1>5 DEF WinnerIsOwn, Uncrossed, Busy
  <2>2. RowTrueUnlessCrossed'
    BY Zenon, <1>1, <1>5 DEF RowTrueUnlessCrossed, Busy
  <2> QED
    BY <2>1, <2>2
<1>8. RowSoFar'
  <2>1. Uncrossed(t)' => LiveWinner = thread[t].by
    BY Zenon, <1>1, <1>5 DEF WinnerIsOwn, Uncrossed, Busy, LiveWinner
  <2> QED
    BY <1>1, <1>5, <2>1 DEF RowSoFar, Uncrossed, Busy
<1> QED
  BY <1>1, <1>4, <1>6, <1>7, <1>8, CacheKept

LEMMA ReadNameIInv ==
    ASSUME IInv, NEW t \in Threads, ReadName(t)
    PROVE  IInv'
<1> USE DEF IInv, Shape, Caches, Rows
<1>1. /\ thread[t].pc = "name" /\ thread[t] \in Call /\ stats' = stats
      /\ config' = config /\ winner' = winner /\ enforce' = enforce /\ host' = host
      /\ cache' = cache /\ armed' = armed /\ installed' = installed
      /\ swapped' = swapped /\ overtaken' = overtaken /\ crossed' = crossed
      /\ \A u \in Threads \ {t} : thread'[u] = thread[u]
  BY DEF ReadName, TypeOK, history
<1> DEFINE c == [thread[t] EXCEPT !.pc = "relay", !.row.name = LiveWinner]
<1>2. thread'[t] = c
  BY DEF ReadName, TypeOK
<1>3. c \in Call
  BY Zenon, <1>1, LiveWinnerOK, SetName
<1>4. TypeOK'
  <2>1. thread' \in [Threads -> Call]
    BY <1>3 DEF ReadName, TypeOK
  <2> QED
    BY <1>1, <2>1 DEF TypeOK
<1>5. /\ thread'[t].pc = "relay" /\ thread'[t].by = thread[t].by
      /\ thread'[t].pool = thread[t].pool /\ thread'[t].row.name = LiveWinner
      /\ thread'[t].row.family = thread[t].row.family
  BY <1>1, <1>2 DEF Call
<1> HIDE DEF c
<1>6. PoolKept' /\ Unanswered' /\ PrivateOvertaken'
  BY Zenon, <1>1, <1>5 DEF PoolKept, Unanswered, PrivateOvertaken, IsRebind
<1>7. WinnerIsOwn' /\ RowTrueUnlessCrossed'
  <2>1. WinnerIsOwn'
    BY <1>1, <1>5 DEF WinnerIsOwn, Uncrossed, Busy
  <2>2. RowTrueUnlessCrossed'
    BY Zenon, <1>1, <1>5 DEF RowTrueUnlessCrossed, Busy
  <2> QED
    BY <2>1, <2>2
<1>8. RowSoFar'
  <2>1. Uncrossed(t)' => LiveWinner = thread[t].by
    BY <1>1, <1>5 DEF WinnerIsOwn, Uncrossed, Busy, LiveWinner
  <2> QED
    BY Zenon, <1>1, <1>5, <2>1 DEF RowSoFar, Uncrossed, Busy
<1> QED
  BY Zenon, <1>1, <1>4, <1>6, <1>7, <1>8, CacheKept

LEMMA ReadRelayIInv ==
    ASSUME IInv, NEW t \in Threads, ReadRelay(t)
    PROVE  IInv'
<1> USE DEF IInv, Shape, Caches, Rows
<1> DEFINE row == [thread[t].row EXCEPT !.relay = RelayVia(LiveWinner)]
<1>1. /\ thread[t].pc = "relay" /\ thread[t] \in Call /\ stats' = stats
      /\ config' = config /\ winner' = winner /\ enforce' = enforce /\ host' = host
      /\ cache' = cache /\ armed' = armed /\ installed' = installed
      /\ Return(t, thread[t].outcome, row)
  BY DEF ReadRelay, TypeOK
<1>2. /\ thread[t].outcome \in Outcomes
      /\ thread[t].row \in [family : Families, name : Transports \cup {NoOne}, relay : Relays]
  BY <1>1 DEF Call
<1>3. row \in [family : Families, name : Transports \cup {NoOne}, relay : Relays]
  BY <1>2, LiveWinnerOK, RelayOK
<1>4. TypeOK'
  BY <1>1, <1>2, <1>3, ReturnShape DEF TypeOK
<1>5. /\ \A u \in Threads \ {t} : thread'[u] = thread[u]
      /\ thread'[t] = Returned(thread[t].outcome, thread[t].by, row)
      /\ swapped' = swapped \ {t} /\ overtaken' = overtaken \ {t} /\ crossed' = crossed
  BY <1>1 DEF Return, TypeOK
<1>6. thread'[t].pc = "idle" /\ thread'[t].by = thread[t].by /\ thread'[t].row = row
  BY <1>5 DEF Returned
<1>7. PoolKept' /\ Unanswered' /\ PrivateOvertaken'
  BY <1>1, <1>5, <1>6 DEF PoolKept, Unanswered, PrivateOvertaken, IsRebind
<1>8. WinnerIsOwn' /\ RowSoFar'
  BY <1>1, <1>5, <1>6 DEF WinnerIsOwn, RowSoFar, Uncrossed, Busy
<1>9. ASSUME thread[t].by # NoOne, t \notin crossed
      PROVE  row = [family |-> FamilyOf(thread[t].by), name |-> thread[t].by,
                    relay |-> RelayVia(thread[t].by)]
  <2>1. LiveWinner = thread[t].by
    BY <1>1, <1>9 DEF WinnerIsOwn, Uncrossed, Busy, LiveWinner
  <2>2. thread[t].row.family = FamilyOf(thread[t].by) /\ thread[t].row.name = thread[t].by
    BY Zenon, <1>1, <1>9 DEF RowSoFar, Uncrossed, Busy
  <2> QED
    BY <1>2, <2>1, <2>2
<1>10. RowTrueUnlessCrossed'
  <2> HIDE DEF row
  <2> QED
    BY <1>5, <1>6, <1>9, Zenon DEF RowTrueUnlessCrossed, Busy
<1> QED
  BY <1>1, <1>4, <1>7, <1>8, <1>10, CacheKept

\* configure and shutdown: every call in flight is swapped and crossed.
LEMMA ReplacedIInv ==
    ASSUME IInv, Replaced, cache' = EmptyCache, config' \in 0 .. MaxConfig,
           installed' \in 0 .. MaxConfig, winner' = winner, armed' = armed,
           enforce' = enforce, host' = host, stats' = stats
    PROVE  IInv'
<1> USE DEF IInv, Shape, Caches, Rows
<1>1. /\ thread' = thread /\ overtaken' = overtaken
      /\ \A t \in Threads : Busy(t) => t \in swapped' /\ t \in crossed'
      /\ \A t \in Threads : t \in crossed => t \in crossed'
  BY DEF Replaced
<1>2. TypeOK'
  BY Zenon, EmptyCacheOK DEF Replaced, TypeOK
<1>3. PoolKept' /\ Unanswered' /\ PrivateOvertaken'
  BY Zenon, <1>1 DEF PoolKept, Unanswered, PrivateOvertaken, IsRebind, Busy
<1>4. WinnerIsOwn' /\ RowSoFar' /\ RowTrueUnlessCrossed'
  BY <1>1, Zenon DEF WinnerIsOwn, RowSoFar, RowTrueUnlessCrossed, Uncrossed, Busy
<1>5. PrivateOnlyIfOvertaken' /\ ForeignOnlyIfSwapped'
  BY DEF PrivateOnlyIfOvertaken, ForeignOnlyIfSwapped, EmptyCache
<1> QED
  BY <1>2, <1>3, <1>4, <1>5

LEMMA ConfigureIInv == ASSUME IInv, Configure PROVE IInv'
<1>1. installed' \in 0 .. MaxConfig /\ config' \in 0 .. MaxConfig
  BY ResolverAssumption DEF IInv, Shape, TypeOK, Configure
<1> QED
  BY <1>1, ReplacedIInv DEF Configure

LEMMA ShutdownIInv == ASSUME IInv, Shutdown PROVE IInv'
<1>1. installed' \in 0 .. MaxConfig /\ config' \in 0 .. MaxConfig
  <2>1. installed' = installed /\ installed \in 0 .. MaxConfig /\ config' = 0
    BY Zenon DEF IInv, Shape, TypeOK, Shutdown
  <2> QED
    BY <2>1, ResolverAssumption
<1> QED
  BY <1>1, ReplacedIInv DEF Shutdown

\* The steps that touch neither the calls nor the configuration.
LEMMA CallsKept ==
    ASSUME IInv, thread' = thread, config' = config, winner' = winner, enforce' = enforce,
           swapped' = swapped, overtaken' = overtaken, crossed' = crossed, stats' = stats
    PROVE  /\ PoolKept' /\ Unanswered' /\ PrivateOvertaken' /\ Rows'
BY Zenon DEF IInv, Shape, Caches, Rows, PoolKept, Unanswered, PrivateOvertaken, IsRebind,
       WinnerIsOwn, RowSoFar, RowTrueUnlessCrossed, Uncrossed, Busy

LEMMA ExpireIInv == ASSUME IInv, NEW n \in Names, Expire(n) PROVE IInv'
<1> USE DEF IInv, Shape, Caches
<1>1. TypeOK'
  BY DEF Expire, TypeOK, history
<1>2. /\ config' = config /\ enforce' = enforce /\ host' = host
      /\ \A m \in Names : cache'[m] = NoEntry \/ cache'[m] = cache[m]
  BY DEF Expire, TypeOK
<1>3. PrivateOnlyIfOvertaken' /\ ForeignOnlyIfSwapped'
  BY <1>2 DEF PrivateOnlyIfOvertaken, ForeignOnlyIfSwapped
<1>4. PoolKept' /\ Unanswered' /\ PrivateOvertaken' /\ Rows'
  BY CallsKept DEF Expire, history
<1> QED
  BY <1>1, <1>3, <1>4

LEMMA SwitchIInv == ASSUME IInv, NEW g \in LiveSwitches \ {"rebind"}, Switch(g) PROVE IInv'
<1> USE DEF IInv, Shape, Caches
<1>1. TypeOK'
  BY ResolverAssumption DEF Switch, TypeOK, history
<1>2. PrivateOnlyIfOvertaken' /\ ForeignOnlyIfSwapped'
  BY CacheKept DEF Switch
<1>3. PoolKept' /\ Unanswered' /\ PrivateOvertaken' /\ Rows'
  BY CallsKept DEF Switch, history
<1> QED
  BY Zenon, <1>1, <1>2, <1>3

LEMMA PurgeOnArmIInv == ASSUME IInv, PurgeOnArm PROVE IInv'
<1> USE DEF IInv, Shape, Caches
<1>1. TypeOK'
  BY EmptyCacheOK DEF PurgeOnArm, TypeOK, history
<1>2. PrivateOnlyIfOvertaken' /\ ForeignOnlyIfSwapped'
  BY DEF PurgeOnArm, PrivateOnlyIfOvertaken, ForeignOnlyIfSwapped, EmptyCache
<1>3. PoolKept' /\ Unanswered' /\ PrivateOvertaken' /\ Rows'
  BY CallsKept DEF PurgeOnArm, history
<1> QED
  BY <1>1, <1>2, <1>3

\* The flag is swapped before the purge: a call past its gate is overtaken, an
\* answer already held waits for PurgeOnArm.
LEMMA SwapEnforceIInv == ASSUME IInv, NEW on \in BOOLEAN, SwapEnforce(on) PROVE IInv'
<1> USE DEF IInv, Shape, Caches, Rows
<1>1. /\ thread' = thread /\ config' = config /\ winner' = winner /\ cache' = cache
      /\ swapped' = swapped /\ crossed' = crossed /\ stats' = stats /\ host = "idle"
      /\ installed' = installed /\ armed' = armed /\ enforce' = on
  BY DEF SwapEnforce
<1>2. TypeOK'
  <2>1. enforce' \in BOOLEAN
    BY <1>1
  <2>2. host' \in {"idle", "clear"} /\ overtaken' \subseteq Threads
    BY DEF SwapEnforce, TypeOK
  <2> QED
    BY <1>1, <2>1, <2>2 DEF TypeOK
<1>3. PoolKept' /\ Unanswered'
  BY Zenon, <1>1 DEF PoolKept, Unanswered
<1>4. PrivateOvertaken'
  BY <1>1 DEF PrivateOvertaken, IsRebind, SwapEnforce, Busy
<1>5. WinnerIsOwn' /\ RowSoFar' /\ RowTrueUnlessCrossed'
  BY <1>1, Zenon DEF WinnerIsOwn, RowSoFar, RowTrueUnlessCrossed, Uncrossed, Busy
<1>6. PrivateOnlyIfOvertaken'
  BY <1>1 DEF PrivateOnlyIfOvertaken, SwapEnforce
<1>7. ForeignOnlyIfSwapped'
  BY <1>1 DEF ForeignOnlyIfSwapped
<1> QED
  BY <1>1, <1>2, <1>3, <1>4, <1>5, <1>6, <1>7

LEMMA StutterIInv == ASSUME IInv, UNCHANGED vars PROVE IInv'
<1> USE DEF IInv, Shape, Caches
<1>1. TypeOK'
  BY DEF TypeOK, vars, history
<1>2. PrivateOnlyIfOvertaken' /\ ForeignOnlyIfSwapped'
  BY CacheKept DEF vars
<1>3. PoolKept' /\ Unanswered' /\ PrivateOvertaken' /\ Rows'
  BY CallsKept DEF vars, history
<1> QED
  BY <1>1, <1>2, <1>3

LEMMA NextIInv == IInv /\ [Next]_vars => IInv'
<1> SUFFICES ASSUME IInv, [Next]_vars PROVE IInv'
  OBVIOUS
<1>1. ASSUME NEW t \in Threads, Step(t) PROVE IInv'
  BY Zenon, <1>1, GateIInv, LookupIInv, TakePoolIInv, AnswerIInv, FailIInv, ValidateIInv,
     SynthesizeIInv, NothingToSynthesizeIInv, RebindIInv, StoreIInv, ReadFamilyIInv,
     ReadNameIInv, ReadRelayIInv DEF Step
<1>2. ASSUME Control PROVE IInv'
  BY <1>2, ConfigureIInv, ShutdownIInv, PurgeOnArmIInv, ExpireIInv, SwitchIInv,
     SwapEnforceIInv DEF Control
<1> QED
  BY <1>1, <1>2, AskIInv, StutterIInv DEF Next

-----------------------------------------------------------------------------
\* The inductive invariant holds of every behaviour, for any number of threads,
\* names, transports, configurations and queries.
THEOREM ResolverInvariant == Spec => []IInv
BY InitIInv, NextIInv, PTL DEF Spec

\* Every variable of the resolve path keeps its type.
THEOREM ResolverTypeCorrect == Spec => []TypeOK
<1>1. IInv => TypeOK
  BY DEF IInv, Shape
<1> QED
  BY <1>1, ResolverInvariant, PTL

\* Once set_rebind_enforce has armed and purged, a private address for a public
\* name is cached only by a query that was past rebind_reject when it armed.
THEOREM PrivateIsOvertaken == Spec => []PrivateOnlyIfOvertaken
<1>1. IInv => PrivateOnlyIfOvertaken
  BY DEF IInv, Caches
<1> QED
  BY <1>1, ResolverInvariant, PTL

\* An answer of another pool than the installed one is cached only by a query
\* in flight across a configure or a shutdown.
THEOREM ForeignIsSwapped == Spec => []ForeignOnlyIfSwapped
<1>1. IInv => ForeignOnlyIfSwapped
  BY DEF IInv, Caches
<1> QED
  BY <1>1, ResolverInvariant, PTL

\* The three reads of resolve_with_outcome name the transport that answered,
\* with its family and relay, unless the call was crossed.
THEOREM RowIsTrue == Spec => []RowTrueUnlessCrossed
<1>1. IInv => RowTrueUnlessCrossed
  BY DEF IInv, Rows
<1> QED
  BY <1>1, ResolverInvariant, PTL

-----------------------------------------------------------------------------
(***************************************************************************)
(* Proofs about the counters of Resolver::stats: with any number of        *)
(* threads between its increments, a query is counted in one outcome at    *)
(* most.  A step that counts an outcome takes its thread out of            *)
(* resolve_inner.                                                          *)
(***************************************************************************)

\* The counters.
Terminals == {"gated", "cacheHits", "literal", "transportMiss", "panics", "rejected",
              "rebindRejected", "dns64Synth", "answered"}

Paired(ks) == /\ "rebindRejected" \in ks => "rebindObserved" \in ks
              /\ "homographRejected" \in ks => "homographObserved" \in ks

LEMMA FewerByOne ==
    ASSUME NEW S, IsFiniteSet(S), NEW t \in S
    PROVE  /\ Cardinality(S) \in Nat /\ Cardinality(S) >= 1
           /\ Cardinality(S \ {t}) = Cardinality(S) - 1
<1>1. Cardinality(S) \in Nat /\ Cardinality(S \ {t}) = Cardinality(S) - 1
  BY FS_RemoveElement, FS_CardinalityType
<1>2. Cardinality(S) # 0
  BY FS_EmptySet
<1> QED
  BY <1>1, <1>2

LEMMA MoreByOne ==
    ASSUME NEW S, IsFiniteSet(S), NEW t, t \notin S
    PROVE  /\ Cardinality(S) \in Nat
           /\ Cardinality(S \cup {t}) = Cardinality(S) + 1
BY FS_AddElement, FS_CardinalityType

LEMMA InsideOK == IsFiniteSet(Inside)
<1>1. Inside \subseteq Threads
  BY DEF Inside
<1> QED
  BY <1>1, FS_Subset, ResolverAssumption

LEMMA SumOK ==
    ASSUME stats \in [Counters -> Nat], NEW ks, Count(ks)
    PROVE  /\ Ended \in Nat /\ Ended' \in Nat
           /\ ks \cap Terminals = {} => Ended' = Ended
           /\ (\E e \in Terminals : ks \cap Terminals \subseteq {e}) => Ended' <= Ended + 1
<1>1. /\ stats' \in [Counters -> Nat]
      /\ \A k \in Counters : stats'[k] = stats[k] + (IF k \in ks THEN 1 ELSE 0)
  BY CountOK
<1>2. Ended \in Nat /\ Ended' \in Nat
  BY <1>1 DEF Ended, Counters
<1>3. ASSUME ks \cap Terminals = {} PROVE Ended' = Ended
  BY <1>1, <1>3 DEF Ended, Counters, Terminals
<1>4. ASSUME NEW e \in Terminals, ks \cap Terminals \subseteq {e} PROVE Ended' <= Ended + 1
  BY <1>1, <1>4 DEF Ended, Counters, Terminals
<1> QED
  BY <1>2, <1>3, <1>4

LEMMA PairsCounted ==
    ASSUME stats \in [Counters -> Nat], CountedOnce, NEW ks, Count(ks), Paired(ks)
    PROVE  /\ stats'.rebindRejected <= stats'.rebindObserved
           /\ stats'.homographRejected <= stats'.homographObserved
BY CountOK DEF CountedOnce, Counters, Paired

LEMMA CountedLeave ==
    ASSUME TypeOK, CountedOnce, NEW t \in Inside, Inside' = Inside \ {t},
           NEW ks, Count(ks), Paired(ks), "queries" \notin ks,
           \E e \in Terminals : ks \cap Terminals \subseteq {e}
    PROVE  CountedOnce'
<1>1. stats \in [Counters -> Nat]
  BY DEF TypeOK
<1>2. Cardinality(Inside)' = Cardinality(Inside) - 1 /\ Cardinality(Inside) \in Nat
  BY FewerByOne, InsideOK
<1>3. stats'.queries = stats.queries /\ stats.queries \in Nat
  BY <1>1, CountOK DEF Counters
<1>4. Ended \in Nat /\ Ended' \in Nat /\ Ended' <= Ended + 1
  BY <1>1, SumOK
<1>5. stats'.queries >= Cardinality(Inside)' + Ended'
  BY <1>2, <1>3, <1>4 DEF CountedOnce
<1> QED
  BY <1>1, <1>5, PairsCounted DEF CountedOnce

LEMMA CountedStay ==
    ASSUME TypeOK, CountedOnce, Inside' = Inside,
           NEW ks, Count(ks), Paired(ks), "queries" \notin ks, ks \cap Terminals = {}
    PROVE  CountedOnce'
<1>1. stats \in [Counters -> Nat]
  BY DEF TypeOK
<1>2. Cardinality(Inside)' = Cardinality(Inside) /\ Cardinality(Inside) \in Nat
  BY FS_CardinalityType, InsideOK
<1>3. stats'.queries = stats.queries /\ stats.queries \in Nat
  BY <1>1, CountOK DEF Counters
<1>4. Ended' = Ended
  BY <1>1, SumOK
<1>5. stats'.queries >= Cardinality(Inside)' + Ended'
  BY <1>2, <1>3, <1>4 DEF CountedOnce
<1> QED
  BY <1>1, <1>5, PairsCounted DEF CountedOnce

LEMMA UncountedLeave ==
    ASSUME TypeOK, CountedOnce, NEW t \in Inside, Inside' = Inside \ {t}, UNCHANGED stats
    PROVE  CountedOnce'
<1>1. Count({})
  BY DEF Count, TypeOK
<1> QED
  BY <1>1, CountedLeave DEF Paired, Terminals

LEMMA UncountedStay ==
    ASSUME TypeOK, CountedOnce, Inside' = Inside, UNCHANGED stats
    PROVE  CountedOnce'
BY DEF CountedOnce, Ended

-----------------------------------------------------------------------------
\* Where a call's own step leaves its thread.
InsidePCs == {"gate", "lookup", "pool", "exchange", "validate", "dns64", "rebind", "store"}

LEMMA Leaves ==
    ASSUME NEW t \in Threads, \A u \in Threads \ {t} : thread'[u] = thread[u],
           thread[t].pc \in InsidePCs, thread'[t].pc \notin InsidePCs
    PROVE  t \in Inside /\ Inside' = Inside \ {t}
BY DEF Inside, InsidePCs

LEMMA Stays ==
    ASSUME NEW t \in Threads, \A u \in Threads \ {t} : thread'[u] = thread[u],
           thread[t].pc \in InsidePCs <=> thread'[t].pc \in InsidePCs
    PROVE  Inside' = Inside
BY DEF Inside, InsidePCs

LEMMA FinishLeaves ==
    ASSUME TypeOK, NEW t \in Threads, NEW o, Finish(t, o), thread[t].pc \in InsidePCs
    PROVE  t \in Inside /\ Inside' = Inside \ {t}
<1>1. thread[t] \in Call /\ \A u \in Threads \ {t} : thread'[u] = thread[u]
  BY DEF Finish, Return, TypeOK
<1>2. thread'[t].pc \in {"family", "idle"}
  <2>1. CASE o \in Forwarded
    <3>1. thread'[t] = [thread[t] EXCEPT !.pc = "family", !.outcome = o]
      BY <2>1 DEF Finish, TypeOK
    <3> QED
      BY <1>1, <3>1 DEF Call
  <2>2. CASE o \notin Forwarded
    BY <2>2 DEF Finish, Return, Returned, TypeOK
  <2> QED
    BY <2>1, <2>2
<1> QED
  BY <1>1, <1>2, Leaves DEF InsidePCs

LEMMA GotoStays ==
    ASSUME TypeOK, NEW t \in Threads, NEW pc \in InsidePCs, Goto(t, pc),
           thread[t].pc \in InsidePCs
    PROVE  Inside' = Inside
<1>1. \A u \in Threads \ {t} : thread'[u] = thread[u]
  BY DEF Goto, TypeOK
<1>2. thread'[t].pc = pc
  BY DEF Goto, TypeOK, Call
<1> QED
  BY <1>1, <1>2, Stays

LEMMA WonGoes ==
    ASSUME TypeOK, NEW t \in Threads, NEW by, NEW pc, NEW reply, NEW o,
           Won(t, by, pc, reply, o), thread[t].pc \in InsidePCs
    PROVE  /\ pc \in InsidePCs => Inside' = Inside
           /\ pc \notin InsidePCs => t \in Inside /\ Inside' = Inside \ {t}
<1>1. \A u \in Threads \ {t} : thread'[u] = thread[u]
  BY DEF Won, TypeOK
<1>2. thread'[t].pc = pc
  BY DEF Won, TypeOK, Call
<1> QED
  BY <1>1, <1>2, Stays, Leaves

-----------------------------------------------------------------------------
\* One lemma per action that counts, or moves a call across resolve_inner.
LEMMA InitCounted == Init => CountedOnce
<1> SUFFICES ASSUME Init PROVE CountedOnce
  OBVIOUS
<1>1. Inside = {}
  BY DEF Init, Returned, Inside
<1>2. Cardinality(Inside) = 0
  BY <1>1, FS_EmptySet
<1> QED
  BY <1>2 DEF Init, CountedOnce, Ended, Counters

LEMMA AskCounted ==
    ASSUME TypeOK, CountedOnce, NEW t \in Threads, NEW n \in Names, Ask(t, n)
    PROVE  CountedOnce'
<1>1. Inside' = Inside \cup {t} /\ t \notin Inside
  <2>1. /\ \A u \in Threads \ {t} : thread'[u] = thread[u]
        /\ thread'[t].pc = "gate" /\ thread[t].pc = "idle"
    BY DEF Ask, TypeOK, NewCall
  <2> QED
    BY <2>1, Zenon DEF Inside
<1>2. Cardinality(Inside)' = Cardinality(Inside) + 1 /\ Cardinality(Inside) \in Nat
  BY <1>1, MoreByOne, InsideOK, Zenon
<1>3. stats \in [Counters -> Nat] /\ Count({"queries"})
  BY DEF Ask, TypeOK
<1>4. stats'.queries = stats.queries + 1 /\ stats.queries \in Nat
  BY <1>3, CountOK DEF Counters
<1>5. Ended \in Nat /\ Ended' = Ended
  BY <1>3, SumOK DEF Terminals
<1>6. stats'.queries >= Cardinality(Inside)' + Ended'
  BY <1>2, <1>4, <1>5 DEF CountedOnce
<1>7. Paired({"queries"})
  BY DEF Paired
<1> QED
  BY <1>3, <1>6, <1>7, PairsCounted DEF CountedOnce

LEMMA GateCountersOK ==
    ASSUME NEW g \in Gates, NEW n
    PROVE  /\ Paired(GateCounters(g, n)) /\ "queries" \notin GateCounters(g, n)
           /\ GateCounters(g, n) \cap Terminals \subseteq {"gated"}
           /\ ~Stops(g, n) => GateCounters(g, n) \cap Terminals = {}
BY DEF GateCounters, Paired, Terminals

LEMMA GateCounted ==
    ASSUME TypeOK, CountedOnce, NEW t \in Threads, Gate(t)
    PROVE  CountedOnce'
<1>1. PICK i \in thread[t].gate .. 12 :
         \/ i = 12 /\ Goto(t, "lookup") /\ UNCHANGED stats
         \/ /\ i # 12 /\ Count(GateCounters(GateOrder[i], thread[t].name))
            /\ \/ /\ Stops(GateOrder[i], thread[t].name)
                  /\ Finish(t, GateOutcome(GateOrder[i]))
               \/ /\ ~Stops(GateOrder[i], thread[t].name)
                  /\ thread' = [thread EXCEPT ![t].gate = i + 1] /\ UNCHANGED history
  BY DEF Gate
<1>2. thread[t].pc = "gate" /\ thread[t] \in Call /\ thread[t].pc \in InsidePCs
  BY DEF Gate, TypeOK, InsidePCs
<1>3. CASE i = 12 /\ Goto(t, "lookup") /\ UNCHANGED stats
  <2>1. Inside' = Inside
    BY <1>2, <1>3, GotoStays DEF InsidePCs
  <2> QED
    BY <1>3, <2>1, UncountedStay
<1> DEFINE g == GateOrder[i]  n == thread[t].name
<1>4. ASSUME i # 12 PROVE g \in Gates
  <2>1. i \in 1 .. 11
    BY <1>2, <1>4 DEF Call
  <2> QED
    BY <2>1, GateOrderOK
<1>5. CASE i # 12 /\ Count(GateCounters(g, n)) /\ Stops(g, n) /\ Finish(t, GateOutcome(g))
  <2>1. /\ Paired(GateCounters(g, n)) /\ "queries" \notin GateCounters(g, n)
        /\ GateCounters(g, n) \cap Terminals \subseteq {"gated"} /\ "gated" \in Terminals
    BY <1>4, <1>5, GateCountersOK, Zenon DEF Terminals
  <2>2. t \in Inside /\ Inside' = Inside \ {t}
    BY <1>2, <1>5, FinishLeaves, Zenon
  <2> QED
    BY <1>5, <2>1, <2>2, CountedLeave, Zenon
<1>6. CASE /\ i # 12 /\ Count(GateCounters(g, n)) /\ ~Stops(g, n)
           /\ thread' = [thread EXCEPT ![t].gate = i + 1] /\ UNCHANGED history
  <2>1. /\ \A u \in Threads \ {t} : thread'[u] = thread[u]
        /\ thread'[t].pc = thread[t].pc
    BY <1>2, <1>6 DEF TypeOK, Call
  <2>2. Inside' = Inside
    BY <2>1, Stays
  <2>3. /\ Paired(GateCounters(g, n)) /\ "queries" \notin GateCounters(g, n)
        /\ GateCounters(g, n) \cap Terminals = {}
    BY <1>4, <1>6, GateCountersOK
  <2> QED
    BY <1>6, <2>2, <2>3, CountedStay
<1> QED
  BY <1>1, <1>3, <1>5, <1>6

\* The steps that count one outcome, or none, and leave resolve_inner.
LEMMA FinishCounted ==
    ASSUME TypeOK, CountedOnce, NEW t \in Threads, thread[t].pc \in InsidePCs, NEW o,
           Finish(t, o), NEW k \in Terminals \ {"rebindRejected"}, UNCHANGED stats \/ Count({k})
    PROVE  CountedOnce'
<1>1. t \in Inside /\ Inside' = Inside \ {t}
  BY FinishLeaves
<1>2. Paired({k}) /\ "queries" \notin {k} /\ {k} \cap Terminals \subseteq {k}
  BY DEF Paired, Terminals
<1>3. CASE UNCHANGED stats
  BY <1>1, <1>3, UncountedLeave
<1>4. CASE Count({k})
  BY <1>1, <1>2, <1>4, CountedLeave
<1> QED
  BY <1>3, <1>4

LEMMA GotoCounted ==
    ASSUME TypeOK, CountedOnce, NEW t \in Threads, thread[t].pc \in InsidePCs,
           NEW pc \in InsidePCs, Goto(t, pc), UNCHANGED stats
    PROVE  CountedOnce'
BY GotoStays, UncountedStay

LEMMA LookupCounted ==
    ASSUME TypeOK, CountedOnce, NEW t \in Threads, Lookup(t)
    PROVE  CountedOnce'
<1>1. thread[t].pc \in InsidePCs /\ "pool" \in InsidePCs
  BY DEF Lookup, InsidePCs
<1>2. {"cacheHits", "literal"} \subseteq Terminals \ {"rebindRejected"}
  BY DEF Terminals
<1>3. \/ \E o \in {"Miss", "CacheHit", "LocalAnswer"}, k \in {"cacheHits", "literal"} :
            Finish(t, o) /\ (UNCHANGED stats \/ Count({k}))
      \/ Goto(t, "pool") /\ UNCHANGED stats
  BY DEF Lookup
<1> QED
  BY <1>1, <1>2, <1>3, FinishCounted, GotoCounted

LEMMA TakePoolCounted ==
    ASSUME TypeOK, CountedOnce, NEW t \in Threads, TakePool(t)
    PROVE  CountedOnce'
<1>1. thread[t].pc = "pool" /\ thread[t].pc \in InsidePCs /\ UNCHANGED stats
  BY DEF TakePool, InsidePCs
<1>2. CASE Finish(t, "Miss")
  BY <1>1, <1>2, FinishLeaves, UncountedLeave
<1>3. CASE thread' = [thread EXCEPT ![t] = [@ EXCEPT !.pc = "exchange", !.pool = config]]
  <2>1. /\ \A u \in Threads \ {t} : thread'[u] = thread[u]
        /\ thread'[t] = [thread[t] EXCEPT !.pc = "exchange", !.pool = config]
    BY <1>3 DEF TypeOK
  <2>2. thread'[t].pc = "exchange"
    BY <2>1 DEF TypeOK, Call
  <2>3. Inside' = Inside
    BY Zenon, <1>1, <2>1, <2>2, Stays DEF InsidePCs
  <2> QED
    BY <1>1, <2>3, UncountedStay
<1> QED
  BY <1>2, <1>3 DEF TakePool

LEMMA AnswerCounted ==
    ASSUME TypeOK, CountedOnce, NEW t \in Threads, NEW by, NEW kind, Answer(t, by, kind)
    PROVE  CountedOnce'
<1>1. /\ thread[t].pc \in InsidePCs /\ "validate" \in InsidePCs /\ UNCHANGED stats
      /\ Won(t, by, "validate", kind, thread[t].outcome)
  BY DEF Answer, InsidePCs
<1> QED
  BY <1>1, WonGoes, UncountedStay, Zenon

LEMMA FailCounted ==
    ASSUME TypeOK, CountedOnce, NEW t \in Threads, NEW how \in {"transportMiss", "panics"},
           Fail(t, how)
    PROVE  CountedOnce'
<1>1. /\ thread[t].pc \in InsidePCs /\ how \in Terminals \ {"rebindRejected"}
      /\ Finish(t, "Miss") /\ Count({how})
  BY DEF Fail, InsidePCs, Terminals
<1> QED
  BY <1>1, FinishCounted

LEMMA ValidateCounted ==
    ASSUME TypeOK, CountedOnce, NEW t \in Threads, Validate(t)
    PROVE  CountedOnce'
<1>1. /\ thread[t].pc \in InsidePCs /\ {"dns64", "rebind"} \subseteq InsidePCs
      /\ "rejected" \in Terminals \ {"rebindRejected"}
  BY DEF Validate, InsidePCs, Terminals
<1>2. \/ Finish(t, "Rejected") /\ Count({"rejected"})
      \/ \E pc \in {"dns64", "rebind"} : Goto(t, pc) /\ UNCHANGED stats
  BY DEF Validate
<1> QED
  BY <1>1, <1>2, FinishCounted, GotoCounted, Zenon

LEMMA SynthesizeCounted ==
    ASSUME TypeOK, CountedOnce, NEW t \in Threads, NEW by, Synthesize(t, by)
    PROVE  CountedOnce'
<1>1. /\ thread[t].pc \in InsidePCs /\ "family" \notin InsidePCs /\ Count({"dns64Synth"})
      /\ Won(t, by, "family", thread[t].reply, "Solved")
  BY DEF Synthesize, InsidePCs
<1>2. t \in Inside /\ Inside' = Inside \ {t}
  BY <1>1, WonGoes
<1>3. Paired({"dns64Synth"}) /\ "queries" \notin {"dns64Synth"} /\ "dns64Synth" \in Terminals
  BY Zenon DEF Paired, Terminals
<1> QED
  BY <1>1, <1>2, <1>3, CountedLeave

LEMMA NothingToSynthesizeCounted ==
    ASSUME TypeOK, CountedOnce, NEW t \in Threads, NEW by, NothingToSynthesize(t, by)
    PROVE  CountedOnce'
<1>1. thread[t].pc \in InsidePCs /\ "rebind" \in InsidePCs /\ UNCHANGED stats
  BY DEF NothingToSynthesize, InsidePCs
<1>2. \/ Won(t, by, "rebind", thread[t].reply, thread[t].outcome)
      \/ Goto(t, "rebind")
  BY Zenon DEF NothingToSynthesize
<1> QED
  BY <1>1, <1>2, WonGoes, GotoStays, UncountedStay

LEMMA RebindCounted ==
    ASSUME TypeOK, CountedOnce, NEW t \in Threads, Rebind(t)
    PROVE  CountedOnce'
<1>1. thread[t].pc \in InsidePCs /\ "store" \in InsidePCs
  BY DEF Rebind, InsidePCs
<1>2. CASE Finish(t, "RebindReject") /\ Count({"rebindObserved", "rebindRejected"})
  <2>1. /\ Paired({"rebindObserved", "rebindRejected"})
        /\ "queries" \notin {"rebindObserved", "rebindRejected"}
        /\ {"rebindObserved", "rebindRejected"} \cap Terminals \subseteq {"rebindRejected"}
        /\ "rebindRejected" \in Terminals
    BY DEF Paired, Terminals
  <2>2. t \in Inside /\ Inside' = Inside \ {t}
    BY <1>1, <1>2, FinishLeaves
  <2> QED
    BY <1>2, <2>1, <2>2, CountedLeave
<1>3. CASE Passed(t) /\ (Count({"rebindObserved"}) \/ UNCHANGED stats)
  <2>1. \A u \in Threads \ {t} : thread'[u] = thread[u]
    BY <1>3 DEF Passed, TypeOK
  <2>2. thread'[t].pc = "store"
    BY <1>3 DEF Passed, TypeOK, Call
  <2>3. Inside' = Inside
    BY <1>1, <2>1, <2>2, Stays
  <2>4. /\ Paired({"rebindObserved"}) /\ "queries" \notin {"rebindObserved"}
        /\ {"rebindObserved"} \cap Terminals = {}
    BY DEF Paired, Terminals
  <2> QED
    BY <1>3, <2>3, <2>4, CountedStay, UncountedStay
<1> QED
  BY <1>2, <1>3 DEF Rebind

LEMMA StoreCounted ==
    ASSUME TypeOK, CountedOnce, NEW t \in Threads, Store(t)
    PROVE  CountedOnce'
<1> DEFINE ks == {"answered"} \cup (IF thread[t].reply \in Negative THEN {"negCacheGauge"} ELSE {})
           o  == IF thread[t].reply = "nxdomain" THEN "SolvedNegative" ELSE "Solved"
<1>1. thread[t].pc \in InsidePCs /\ Count(ks) /\ Finish(t, o)
  BY DEF Store, InsidePCs
<1>2. t \in Inside /\ Inside' = Inside \ {t}
  BY <1>1, FinishLeaves
<1>3. /\ Paired(ks) /\ "queries" \notin ks /\ ks \cap Terminals \subseteq {"answered"}
      /\ "answered" \in Terminals
  BY DEF Paired, Terminals
<1> QED
  BY <1>1, <1>2, <1>3, CountedLeave, Zenon

\* The three reads of resolve_with_outcome, after the call has left.
LEMMA ReadsCounted ==
    ASSUME TypeOK, CountedOnce, NEW t \in Threads,
           ReadFamily(t) \/ ReadName(t) \/ ReadRelay(t)
    PROVE  CountedOnce'
<1>1. /\ \A u \in Threads \ {t} : thread'[u] = thread[u]
      /\ thread[t].pc \in {"family", "name", "relay"} /\ UNCHANGED stats
  BY DEF ReadFamily, ReadName, ReadRelay, Return, TypeOK
<1>2. thread'[t].pc \in {"name", "relay", "idle"}
  <2>1. CASE ReadFamily(t)
    BY <2>1 DEF ReadFamily, TypeOK, Call
  <2>2. CASE ReadName(t)
    BY <2>2 DEF ReadName, TypeOK, Call
  <2>3. CASE ReadRelay(t)
    BY <2>3 DEF ReadRelay, Return, Returned, TypeOK
  <2> QED
    BY <2>1, <2>2, <2>3
<1>3. Inside' = Inside
  BY <1>1, <1>2, Stays DEF InsidePCs
<1> QED
  BY <1>1, <1>3, UncountedStay

\* The steps of the control plane count nothing and move no call.
LEMMA IdleCounted ==
    ASSUME TypeOK, CountedOnce, Control \/ UNCHANGED vars
    PROVE  CountedOnce'
<1>1. thread' = thread /\ stats' = stats
  BY DEF Control, Configure, Shutdown, PurgeOnArm, Expire, Switch, SwapEnforce, Replaced, vars
<1>2. Inside' = Inside
  BY <1>1 DEF Inside
<1> QED
  BY <1>1, <1>2, UncountedStay

LEMMA NextCounted == TypeOK /\ CountedOnce /\ [Next]_vars => CountedOnce'
<1> SUFFICES ASSUME TypeOK, CountedOnce, [Next]_vars PROVE CountedOnce'
  OBVIOUS
<1>1. ASSUME NEW t \in Threads, Step(t) PROVE CountedOnce'
  BY Zenon, <1>1, GateCounted, LookupCounted, TakePoolCounted, AnswerCounted, FailCounted,
     ValidateCounted, SynthesizeCounted, NothingToSynthesizeCounted, RebindCounted,
     StoreCounted, ReadsCounted DEF Step
<1> QED
  BY Zenon, <1>1, AskCounted, IdleCounted DEF Next

\* Stats counts a query at most once among its outcomes, whatever the number
\* of threads that count at the same time.
THEOREM OutcomesCountedOnce == Spec => []CountedOnce
BY InitCounted, NextCounted, ResolverTypeCorrect, PTL DEF Spec
=============================================================================
