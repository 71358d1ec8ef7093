------------------------------- MODULE Resolver -------------------------------
(***************************************************************************)
(* The resolve path of the DNS engine (resolver/mod.rs): several threads   *)
(* run resolve_datapath at once against one global Resolver, while a host  *)
(* thread reconfigures it, stops it and flips its switches.  A thread      *)
(* takes the lock on `inner` for each access and drops it in between, so   *)
(* every access is a step of its own.                                      *)
(*                                                                         *)
(* The answer cache is the function from names to the answer they would be *)
(* served; its lifetime rules are the subject of AnswerCache.              *)
(***************************************************************************)
EXTENDS Integers, FiniteSets

CONSTANTS
    Threads,        \* the threads that call resolve_datapath
    Names,          \* the questions they ask
    LocalNames,     \* names exempt from the rebind gate (.local, .lan, ...)
    SixNames,       \* questions for an AAAA record
    LiteralNames,   \* questions a conditional route answers with a literal address
    Catches,        \* gate -> the names it stops when it is armed
    InitGates,      \* the gates armed at start
    LiveSwitches,   \* the switches the host flips while queries run
    Transports,     \* upstream transports
    PoolOf,         \* configuration -> the transports of its pool
    IsUdp,          \* transport -> it belongs to the UDP family
    RelayOf,        \* transport -> the relay it is reached through
    Kinds,          \* the replies an upstream gives
    MaxQueries,     \* bound: questions asked in a run
    MaxConfig       \* bound: configurations installed in a run

Positive == {"public", "private"}
Negative == {"nodata", "nxdomain"}
AllKinds == Positive \cup Negative \cup {"servfail", "invalid"}

\* The gates of resolve_inner in the order it consults them.
GateOrder == <<"parse", "blocklist", "dohBypass", "warden", "underground",
               "homograph", "localPin", "cloak", "bogusPriv", "neverForward",
               "v6Withheld">>
Gates     == {GateOrder[i] : i \in DOMAIN GateOrder}
DenyGates == {"blocklist", "dohBypass", "warden", "underground", "homograph"}

NoOne     == "noone"
NoReply   == "none"
NoFamily  == "nofamily"
Families  == {"udp", "tcp", NoFamily}
Relays    == {RelayOf[t] : t \in Transports} \cup {NoOne}
Configs   == 1 .. MaxConfig

\* What a gate makes of a question it stops.
GateOutcome(g) == CASE g = "parse"                          -> "Miss"
                    [] g \in DenyGates                      -> "Blocked"
                    [] g \in {"localPin", "cloak"}          -> "LocalAnswer"
                    [] g \in {"bogusPriv", "neverForward"}  -> "Guarded"
                    [] g = "v6Withheld"                     -> "SolvedNegative"

Forwarded == {"Solved", "SolvedNegative"}
Outcomes  == Forwarded \cup {"Miss", "Blocked", "LocalAnswer", "Guarded",
                             "CacheHit", "RebindReject", "Rejected"}

\* Of these a query may end in one of the first nine, and in one at most.
Counters  == {"gated", "cacheHits", "literal", "transportMiss", "panics", "rejected",
              "rebindRejected", "dns64Synth", "answered",
              "queries", "rebindObserved", "negCacheGauge", "homographObserved",
              "homographRejected"}

ASSUME ResolverAssumption ==
    /\ IsFiniteSet(Threads) /\ Names # {}
    /\ LocalNames \subseteq Names /\ SixNames \subseteq Names
    /\ LiteralNames \subseteq Names
    /\ Catches \in [Gates -> SUBSET Names]
    /\ InitGates \subseteq Gates \ {"parse"}
    /\ LiveSwitches \subseteq (Gates \cup {"dns64", "rebind"}) \ {"parse"}
    /\ MaxQueries \in Nat /\ MaxConfig \in Nat
    /\ PoolOf \in [Configs -> SUBSET Transports]
    /\ \A n \in Configs : PoolOf[n] # {}
    /\ IsUdp \in [Transports -> BOOLEAN]
    /\ Kinds \subseteq AllKinds
    /\ NoOne \notin Transports

VARIABLES
    config,         \* the configuration `inner` holds, 0 when it is None
    installed,      \* configurations installed so far
    cache,          \* inner.cache: name -> the answer held for it
    winner,         \* configuration -> Pool::last_winner
    armed,          \* the gates switched on (and "dns64")
    enforce,        \* REBIND_ENFORCE
    host,           \* where set_rebind_enforce is: "idle" or "clear"
    stats,          \* Resolver::stats
    thread,         \* thread -> its resolve call
    swapped,        \* history: the threads since whose TakePool the configuration
                    \* was replaced,
    overtaken,      \* since whose rebind gate enforcement was armed,
    crossed         \* since whose exchange another one or a configuration came

history == <<swapped, overtaken, crossed>>
vars == <<config, installed, cache, winner, armed, enforce, host, stats, thread, history>>

\* `by` is the transport whose reply the thread holds.
Call == [pc : {"idle", "gate", "lookup", "pool", "exchange", "validate",
               "dns64", "rebind", "store", "family", "name", "relay"},
         name : Names, gate : 1 .. 12, pool : 0 .. MaxConfig,
         reply : AllKinds \cup {NoReply}, by : Transports \cup {NoOne},
         outcome : Outcomes,
         row : [family : Families, name : Transports \cup {NoOne}, relay : Relays]]

\* `late` is history: what had become of the call that brought the entry.
Held == [kind : Positive \cup Negative, config : Configs,
         late : SUBSET {"swapped", "overtaken"}]

NoEntry    == [kind |-> NoReply, config |-> 0, late |-> {}]
EmptyRow   == [family |-> NoFamily, name |-> NoOne, relay |-> NoOne]
EmptyCache == [n \in Names |-> NoEntry]

\* A call of resolve_datapath that has just counted its query.
NewCall(n) == [pc |-> "gate", name |-> n, gate |-> 1, pool |-> 0,
               reply |-> NoReply, by |-> NoOne, outcome |-> "Miss", row |-> EmptyRow]

\* A call that has returned: its locals are gone, its row is written.
AnyName == CHOOSE n \in Names : TRUE
Returned(o, by, row) == [pc |-> "idle", name |-> AnyName, gate |-> 1, pool |-> 0,
                         reply |-> NoReply, by |-> by, outcome |-> o, row |-> row]

Init == /\ config = 0
        /\ installed = 0
        /\ cache = EmptyCache
        /\ winner = [n \in Configs |-> NoOne]
        /\ armed = InitGates
        /\ enforce = FALSE
        /\ host = "idle"
        /\ stats = [k \in Counters |-> 0]
        /\ thread = [t \in Threads |-> Returned("Miss", NoOne, EmptyRow)]
        /\ swapped = {} /\ overtaken = {} /\ crossed = {}

Count(ks) == stats' = [k \in Counters |-> stats[k] + (IF k \in ks THEN 1 ELSE 0)]

Goto(t, pc) == thread' = [thread EXCEPT ![t].pc = pc] /\ UNCHANGED history

Return(t, o, row) ==
    /\ thread' = [thread EXCEPT ![t] = Returned(o, thread[t].by, row)]
    /\ swapped' = swapped \ {t} /\ overtaken' = overtaken \ {t}
    /\ UNCHANGED crossed

\* The call leaves resolve_inner.  Only a forwarded outcome has its winner
\* read back (resolve_with_outcome).
Finish(t, o) ==
    \/ /\ o \in Forwarded
       /\ thread' = [thread EXCEPT ![t] = [@ EXCEPT !.pc = "family", !.outcome = o]]
       /\ UNCHANGED history
    \/ o \notin Forwarded /\ Return(t, o, thread[t].row)

Ask(t, n) ==
    /\ thread[t].pc = "idle"
    /\ stats.queries < MaxQueries
    /\ thread' = [thread EXCEPT ![t] = NewCall(n)]
    /\ crossed' = crossed \ {t}
    /\ Count({"queries"})
    /\ UNCHANGED <<config, installed, cache, winner, armed, enforce, host,
                   swapped, overtaken>>

(***************************************************************************)
(* One gate.  Each gate reads its own switch when the walk reaches it; a   *)
(* gate that catches none of the names is passed without a step.           *)
(***************************************************************************)
Stops(g, n) == n \in Catches[g] /\ (g = "parse" \/ g \in armed)

NextGate(i, j) == /\ j # 12 => Catches[GateOrder[j]] # {}
                  /\ \A k \in i .. j - 1 : Catches[GateOrder[k]] = {}

GateCounters(g, n) ==
    (IF Stops(g, n) /\ g # "parse" THEN {"gated"} ELSE {})
      \cup (IF g = "homograph" /\ n \in Catches[g]
            THEN {"homographObserved"}
                   \cup (IF g \in armed THEN {"homographRejected"} ELSE {})
            ELSE {})

Gate(t) ==
    /\ thread[t].pc = "gate"
    /\ \E i \in thread[t].gate .. 12 :
          /\ NextGate(thread[t].gate, i)
          /\ \/ i = 12 /\ Goto(t, "lookup") /\ UNCHANGED stats
             \/ LET g == GateOrder[i]  n == thread[t].name IN
                /\ i # 12 /\ Count(GateCounters(g, n))
                /\ \/ Stops(g, n) /\ Finish(t, GateOutcome(g))
                   \/ /\ ~Stops(g, n)
                      /\ thread' = [thread EXCEPT ![t].gate = i + 1] /\ UNCHANGED history
    /\ UNCHANGED <<config, installed, cache, winner, armed, enforce, host>>

\* The first lock: router and cache.  A literal route answers after a miss.
Lookup(t) ==
    LET n == thread[t].name IN
    /\ thread[t].pc = "lookup"
    /\ \/ /\ config = 0
          /\ Finish(t, "Miss") /\ UNCHANGED stats
       \/ /\ config # 0 /\ cache[n] # NoEntry
          /\ Finish(t, "CacheHit") /\ Count({"cacheHits"})
       \/ /\ config # 0 /\ cache[n] = NoEntry /\ n \in LiteralNames
          /\ Finish(t, "LocalAnswer") /\ Count({"literal"})
       \/ /\ config # 0 /\ cache[n] = NoEntry /\ n \notin LiteralNames
          /\ Goto(t, "pool") /\ UNCHANGED stats
    /\ UNCHANGED <<config, installed, cache, winner, armed, enforce, host>>

\* The second lock: the pool is cloned out of `inner` and used unlocked.
TakePool(t) ==
    /\ thread[t].pc = "pool"
    /\ \/ config = 0 /\ Finish(t, "Miss")
       \/ /\ config # 0
          /\ thread' = [thread EXCEPT ![t] = [@ EXCEPT !.pc = "exchange", !.pool = config]]
          /\ swapped' = swapped \ {t} /\ UNCHANGED <<overtaken, crossed>>
    /\ UNCHANGED <<config, installed, cache, winner, armed, enforce, host, stats>>

Busy(t) == thread[t].pc # "idle"

\* The exchange of thread t is the pool's latest: every other thread that has
\* had its answer from that pool and not yet reported it is crossed.
Won(t, by, pc, reply, outcome) ==
    /\ by \in PoolOf[thread[t].pool]
    /\ thread' = [thread EXCEPT ![t] = [@ EXCEPT !.by = by, !.pc = pc, !.reply = reply,
                                                 !.outcome = outcome]]
    /\ crossed' = (crossed \ {t}) \cup (swapped \cap {t})
                    \cup {u \in Threads \ {t} : Busy(u) /\ thread[u].by # NoOne
                                                /\ thread[u].pool = thread[t].pool}
    /\ UNCHANGED <<swapped, overtaken>>

\* Slip: the exchange does not store the index of its winner.
AnswerUnrecorded(t, by, kind) ==
    /\ thread[t].pc = "exchange"
    /\ Won(t, by, "validate", kind, thread[t].outcome)
    /\ UNCHANGED <<config, installed, cache, winner, armed, enforce, host, stats>>

Answer(t, by, kind) ==
    /\ thread[t].pc = "exchange"
    /\ winner' = [winner EXCEPT ![thread[t].pool] = by]
    /\ Won(t, by, "validate", kind, thread[t].outcome)
    /\ UNCHANGED <<config, installed, cache, armed, enforce, host, stats>>

\* Every transport failed, the deadline passed, or the exchange panicked.
Fail(t, how) ==
    /\ thread[t].pc = "exchange"
    /\ Finish(t, "Miss")
    /\ Count({how})
    /\ UNCHANGED <<config, installed, cache, winner, armed, enforce, host>>

Validate(t) ==
    /\ thread[t].pc = "validate"
    /\ \/ /\ thread[t].reply = "invalid"
          /\ Finish(t, "Rejected") /\ Count({"rejected"})
       \/ /\ thread[t].reply # "invalid"
          /\ Goto(t, IF "dns64" \in armed /\ thread[t].name \in SixNames
                        /\ thread[t].reply \notin Positive
                     THEN "dns64" ELSE "rebind")
          /\ UNCHANGED stats
    /\ UNCHANGED <<config, installed, cache, winner, armed, enforce, host>>

(***************************************************************************)
(* try_dns64_synth asks the same pool for the A record.  With one, the     *)
(* synthesised answer is returned there and then; without, the walk goes   *)
(* on with the reply it had.                                               *)
(***************************************************************************)
Synthesize(t, by) ==
    /\ thread[t].pc = "dns64"
    /\ winner' = [winner EXCEPT ![thread[t].pool] = by]
    /\ Won(t, by, "family", thread[t].reply, "Solved")
    /\ Count({"dns64Synth"})
    /\ UNCHANGED <<config, installed, cache, armed, enforce, host>>

\* Slip: without an A record the original question is asked again.
SynthesizeRetry(t, by) ==
    /\ thread[t].pc = "dns64"
    /\ Goto(t, "exchange")
    /\ UNCHANGED <<config, installed, cache, winner, armed, enforce, host, stats>>

NothingToSynthesize(t, by) ==
    /\ thread[t].pc = "dns64"
    /\ \/ /\ winner' = [winner EXCEPT ![thread[t].pool] = by]
          /\ Won(t, by, "rebind", thread[t].reply, thread[t].outcome)
       \/ Goto(t, "rebind") /\ UNCHANGED winner
    /\ UNCHANGED <<config, installed, cache, armed, enforce, host, stats>>

\* rebind_reject: observe always, drop while enforcement is on.
IsRebind(t) == thread[t].reply = "private" /\ thread[t].name \notin LocalNames

Passed(t) == /\ thread' = [thread EXCEPT ![t].pc = "store"]
             /\ overtaken' = overtaken \ {t} /\ UNCHANGED <<swapped, crossed>>

\* Slip: a dropped answer is counted as answered too.
RebindDropAnswered(t) ==
    /\ thread[t].pc = "rebind"
    /\ \/ /\ IsRebind(t) /\ enforce
          /\ Finish(t, "RebindReject")
          /\ Count({"rebindObserved", "rebindRejected", "answered"})
       \/ /\ ~(IsRebind(t) /\ enforce)
          /\ Passed(t) /\ UNCHANGED stats
    /\ UNCHANGED <<config, installed, cache, winner, armed, enforce, host>>

Rebind(t) ==
    /\ thread[t].pc = "rebind"
    /\ \/ /\ IsRebind(t) /\ enforce
          /\ Finish(t, "RebindReject")
          /\ Count({"rebindObserved", "rebindRejected"})
       \/ /\ IsRebind(t) /\ ~enforce
          /\ Passed(t) /\ Count({"rebindObserved"})
       \/ /\ ~IsRebind(t)
          /\ Passed(t) /\ UNCHANGED stats
    /\ UNCHANGED <<config, installed, cache, winner, armed, enforce, host>>

\* The third lock: the answer goes into whatever cache `inner` holds now.
Storing(t) == config # 0 /\ thread[t].reply \in Positive \cup Negative

Lateness(t) == (IF t \in swapped THEN {"swapped"} ELSE {})
                 \cup (IF t \in overtaken THEN {"overtaken"} ELSE {})

Store(t) ==
    LET c == thread[t] IN
    /\ c.pc = "store"
    /\ \/ /\ Storing(t)
          /\ cache' = [cache EXCEPT ![c.name] =
                          [kind |-> c.reply, config |-> c.pool, late |-> Lateness(t)]]
       \/ ~Storing(t) /\ UNCHANGED cache
    /\ Count({"answered"} \cup (IF c.reply \in Negative THEN {"negCacheGauge"} ELSE {}))
    /\ Finish(t, IF c.reply = "nxdomain" THEN "SolvedNegative" ELSE "Solved")
    /\ UNCHANGED <<config, installed, winner, armed, enforce, host>>

\* resolve_with_outcome reads the winner of the pool installed now, with a
\* lock for each of the three attributes.
LiveWinner == IF config = 0 THEN NoOne ELSE winner[config]

FamilyOf(w) == IF w = NoOne THEN NoFamily ELSE IF IsUdp[w] THEN "udp" ELSE "tcp"
RelayVia(w) == IF w = NoOne THEN NoOne ELSE RelayOf[w]

ReadFamily(t) ==
    /\ thread[t].pc = "family"
    /\ thread' = [thread EXCEPT ![t] = [@ EXCEPT !.pc = "name",
                                                 !.row.family = FamilyOf(LiveWinner)]]
    /\ UNCHANGED <<config, installed, cache, winner, armed, enforce, host, stats, history>>

ReadName(t) ==
    /\ thread[t].pc = "name"
    /\ thread' = [thread EXCEPT ![t] = [@ EXCEPT !.pc = "relay", !.row.name = LiveWinner]]
    /\ UNCHANGED <<config, installed, cache, winner, armed, enforce, host, stats, history>>

ReadRelay(t) ==
    /\ thread[t].pc = "relay"
    /\ Return(t, thread[t].outcome, [thread[t].row EXCEPT !.relay = RelayVia(LiveWinner)])
    /\ UNCHANGED <<config, installed, cache, winner, armed, enforce, host, stats>>

(***************************************************************************)
(* The control plane.                                                      *)
(***************************************************************************)
Replaced == /\ swapped' = swapped \cup {t \in Threads : Busy(t)}
            /\ crossed' = crossed \cup {t \in Threads : Busy(t)}
            /\ UNCHANGED <<thread, overtaken>>

\* Slip: a reconfiguration keeps the cache it found.
ConfigureKeepsCache ==
    /\ installed < MaxConfig
    /\ installed' = installed + 1
    /\ config' = installed'
    /\ Replaced
    /\ UNCHANGED <<cache, winner, armed, enforce, host, stats>>

\* configure swaps pool, router and an empty cache in under one lock.
Configure ==
    /\ installed < MaxConfig
    /\ installed' = installed + 1
    /\ config' = installed'
    /\ cache' = EmptyCache
    /\ Replaced
    /\ UNCHANGED <<winner, armed, enforce, host, stats>>

Shutdown ==
    /\ config # 0
    /\ config' = 0
    /\ cache' = EmptyCache
    /\ Replaced
    /\ UNCHANGED <<installed, winner, armed, enforce, host, stats>>

\* An entry leaves the cache by expiry or eviction.
Expire(n) ==
    /\ cache[n] # NoEntry
    /\ cache' = [cache EXCEPT ![n] = NoEntry]
    /\ UNCHANGED <<config, installed, winner, armed, enforce, host, stats, thread, history>>

Switch(g) ==
    /\ armed' = IF g \in armed THEN armed \ {g} ELSE armed \cup {g}
    /\ UNCHANGED <<config, installed, cache, winner, enforce, host, stats, thread, history>>

\* set_rebind_enforce swaps the flag first and takes the lock to purge after.
SwapEnforce(on) ==
    /\ host = "idle"
    /\ enforce' = on
    /\ host' = IF on /\ ~enforce THEN "clear" ELSE "idle"
    /\ overtaken' = IF on /\ ~enforce THEN {t \in Threads : Busy(t)} ELSE overtaken
    /\ UNCHANGED <<config, installed, cache, winner, armed, stats, thread, swapped, crossed>>

\* Slip: arming does not purge.
PurgeForgotten ==
    /\ host = "clear"
    /\ host' = "idle"
    /\ UNCHANGED <<config, installed, cache, winner, armed, enforce, stats, thread, history>>

PurgeOnArm ==
    /\ host = "clear"
    /\ host' = "idle"
    /\ cache' = EmptyCache
    /\ UNCHANGED <<config, installed, winner, armed, enforce, stats, thread, history>>

Step(t) ==
    \/ Gate(t) \/ Lookup(t) \/ TakePool(t)
    \/ \E by \in Transports, kind \in Kinds : Answer(t, by, kind)
    \/ \E how \in {"transportMiss", "panics"} : Fail(t, how)
    \/ Validate(t)
    \/ \E by \in Transports : Synthesize(t, by) \/ NothingToSynthesize(t, by)
    \/ Rebind(t) \/ Store(t) \/ ReadFamily(t) \/ ReadName(t) \/ ReadRelay(t)

Control ==
    \/ Configure \/ Shutdown \/ PurgeOnArm
    \/ \E n \in Names : Expire(n)
    \/ \E g \in LiveSwitches \ {"rebind"} : Switch(g)
    \/ "rebind" \in LiveSwitches /\ \E on \in BOOLEAN : SwapEnforce(on)

Next == \/ \E t \in Threads : Step(t) \/ \E n \in Names : Ask(t, n)
        \/ Control

\* A thread inside resolve is scheduled, and its exchange ends: the whole
\* exchange runs under tokio::time::timeout(deadline).
Fairness == \A t \in Threads : WF_vars(Step(t))

Spec == Init /\ [][Next]_vars /\ Fairness

-----------------------------------------------------------------------------
\* Every variable keeps its type.
TypeOK == /\ config \in 0 .. MaxConfig
          /\ installed \in 0 .. MaxConfig
          /\ cache \in [Names -> Held \cup {NoEntry}]
          /\ winner \in [Configs -> Transports \cup {NoOne}]
          /\ armed \subseteq Gates \cup {"dns64"}
          /\ enforce \in BOOLEAN
          /\ host \in {"idle", "clear"}
          /\ stats \in [Counters -> Nat]
          /\ thread \in [Threads -> Call]
          /\ swapped \subseteq Threads /\ overtaken \subseteq Threads /\ crossed \subseteq Threads

\* While rebind enforcement is on and its purge has run, a private address
\* for a public name is in the cache only if the query that brought it was
\* between rebind_reject and its put when the switch was armed.
PrivateOnlyIfOvertaken ==
    enforce /\ host = "idle" =>
        \A n \in Names \ LocalNames :
            cache[n] # NoEntry /\ cache[n].kind = "private" => "overtaken" \in cache[n].late

\* An answer of another configuration's pool is in the cache only if
\* configure replaced `inner` while the query that brought it was in flight.
ForeignOnlyIfSwapped ==
    \A n \in Names :
        cache[n] # NoEntry /\ cache[n].config # config => "swapped" \in cache[n].late

\* The row a forwarded query reports names the transport that answered it,
\* with its family and its relay, unless another exchange of the same pool or
\* a new configuration came between the answer and the three reads.
RowTrueUnlessCrossed ==
    \A t \in Threads :
        ~Busy(t) /\ thread[t].by # NoOne /\ thread[t].outcome \in Forwarded
          /\ t \notin crossed
        => thread[t].row = [family |-> FamilyOf(thread[t].by), name |-> thread[t].by,
                            relay |-> RelayVia(thread[t].by)]

Inside == {t \in Threads : thread[t].pc \in {"gate", "lookup", "pool", "exchange",
                                             "validate", "dns64", "rebind", "store"}}
Ended  == stats.gated + stats.cacheHits + stats.literal + stats.transportMiss + stats.panics
          + stats.rejected + stats.rebindRejected + stats.dns64Synth + stats.answered

\* A query ends in one counter at most, and what the rebind and homograph
\* gates dropped never exceeds what they saw, however the threads interleave.
CountedOnce ==
    /\ stats.queries >= Cardinality(Inside) + Ended
    /\ stats.rebindRejected <= stats.rebindObserved
    /\ stats.homographRejected <= stats.homographObserved

\* Every call of resolve_datapath returns.
EveryQueryReturns == \A t \in Threads : Busy(t) ~> ~Busy(t)

\* What set_rebind_enforce says of arming: no answer the switch exists to stop
\* is left in the cache once it is armed and purged.
NoPrivateWhileEnforced ==
    enforce /\ host = "idle" =>
        \A n \in Names \ LocalNames :
            cache[n] # NoEntry => cache[n].kind # "private"

\* What configure says of its swap: a swapped upstream set never serves the
\* previous resolver's answers.
OnlyLivePoolAnswers ==
    \A n \in Names : cache[n] # NoEntry => cache[n].config = config

\* What resolve_with_outcome says of its reads: server name, family and relay
\* agree on one winner.
RowNamesOneWinner ==
    \A t \in Threads :
        ~Busy(t) /\ thread[t].outcome \in Forwarded =>
            /\ thread[t].row.family = FamilyOf(thread[t].row.name)
            /\ thread[t].row.relay = RelayVia(thread[t].row.name)

\* What resolve_with_outcome says of its capture: a winner is reported only
\* for a query that was forwarded.
NoServerWithoutForward ==
    \A t \in Threads : ~Busy(t) /\ thread[t].by = NoOne => thread[t].row.name = NoOne

\* What Stats says of neg_cache_gauge: it is the live count of negative
\* entries and not an accumulator.
GaugeIsLiveCount ==
    stats.negCacheGauge = Cardinality({n \in Names : cache[n] # NoEntry
                                          /\ cache[n].kind \in Negative})
=============================================================================
