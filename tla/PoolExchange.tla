---------------------------- MODULE PoolExchange ----------------------------
(***************************************************************************)
(* The transport pool of resolver/pool.rs: how one query is put to the      *)
(* upstreams under each strategy (in order, round robin, routed, raced, or  *)
(* the solve ladder ranked by health), with the bound on every leg, the     *)
(* wall-clock deadline the resolver puts around the whole exchange, and the *)
(* loss and round-trip averages the ranking reads.                          *)
(*                                                                          *)
(* Time is counted in ticks, per query. Timers are prompt: a query's clock  *)
(* does not pass a moment at which one of its timers or answers is due. Two *)
(* events due at the same tick happen in either order.                      *)
(***************************************************************************)
EXTENDS Integers, FiniteSets

CONSTANTS
    Calls,       \* the queries; each runs through the pool once
    N,           \* number of transports, numbered from 0 as in the pool
    Servers,     \* what an upstream may be: [reply, after, cold]
    Strategies,  \* subset of {"strict", "robin", "via", "solve", "all"}
    Timeout,     \* the pool's configured timeout, in ticks
    Overrides,   \* values of QUERY_TIMEOUT_MS_OVERRIDE, 0 for none
    Deadlines,   \* values of the resolver's wall-clock deadline
    MaxSamples   \* bound on the exchanges one transport sees

ASSUME PoolAssumption ==
    /\ N \in Nat \ {0} /\ Timeout \in Nat \ {0}
    /\ MaxSamples \in Nat /\ IsFiniteSet(Calls) /\ Cardinality(Calls) <= MaxSamples
    /\ Strategies \subseteq {"strict", "robin", "via", "solve", "all"}
    /\ Overrides \subseteq Nat /\ 0 \in Overrides /\ Deadlines \subseteq Nat \ {0}
    /\ \A s \in Servers :
          /\ s.reply \in {"through", "negative", "soft", "error", "silence"}
          /\ s.after \in Nat \ {0} /\ s.cold \in BOOLEAN

VARIABLES
    server,     \* the upstream behind each transport; it does not change
    cert,       \* transports with no set-up left to do
    override,   \* QUERY_TIMEOUT_MS_OVERRIDE
    rr_cursor,  \* Pool::rr_cursor
    stats,      \* Pool::stats: loss and round trip, both times Scale
    solve,      \* the solve counters of the resolver's Stats
    call        \* the exchange of each query

vars == <<server, cert, override, rr_cursor, stats, solve, call>>

Transports == 0..(N - 1)

\* 5^MaxSamples: with ALPHA = 1/5 the averages of at most MaxSamples
\* samples are whole multiples of 1/Scale.
Power[n \in 0..MaxSamples] == IF n = 0 THEN 1 ELSE 5 * Power[n - 1]
Scale == Power[MaxSamples]
Unseen == -1

\* A leg is one transport's part in an exchange: not begun, in warm_setup,
\* in exchange, answered, or failed.
NoLeg == [pc |-> "todo", spent |-> 0, bound |-> 0]
NotStarted == [pc |-> "idle", how |-> "none", order |-> <<>>, at |-> 1,
               leg |-> [i \in Transports |-> NoLeg],
               elapsed |-> 0, deadline |-> 0, result |-> "none"]

Init ==
    /\ server \in [Transports -> Servers]
    /\ cert = {i \in Transports : ~server[i].cold}
    /\ override = 0
    /\ rr_cursor = 0
    /\ stats = [i \in Transports |-> [loss |-> 0, rtt |-> Unseen, samples |-> 0]]
    /\ solve = [retries |-> 0, soft_fails |-> 0, hard_negatives |-> 0,
                exhausted |-> 0, promotions |-> 0]
    /\ call = [c \in Calls |-> NotStarted]

-----------------------------------------------------------------------------
effective_timeout == IF override > 0 THEN override ELSE Timeout

\* Transports in configured order, starting at s and wrapping round.
Ring(s) == [k \in 1..N |-> (s + k - 1) % N]

\* The preferred transport, then the others in configured order.
Preferring(i) == [k \in 1..N |-> IF k = 1 THEN i ELSE IF k - 2 < i THEN k - 2 ELSE k - 1]

\* A slip: the ranking forgets the loss.
FastestFirst(i, j) ==
    LET a == stats[i]
        b == stats[j]
    IN  \/ a.rtt # Unseen /\ (b.rtt = Unseen \/ a.rtt < b.rtt)
        \/ a.rtt = b.rtt /\ i < j

\* (loss, rtt) ascending, then configured position; a transport that has
\* never answered has an infinite round trip.
Healthier(i, j) ==
    LET a == stats[i]
        b == stats[j]
    IN  \/ a.loss < b.loss
        \/ /\ a.loss = b.loss
           /\ \/ a.rtt # Unseen /\ (b.rtt = Unseen \/ a.rtt < b.rtt)
              \/ a.rtt = b.rtt /\ i < j

solve_ranked_order ==
    CHOOSE order \in [1..N -> Transports] :
        \A k, l \in 1..N : k < l => Healthier(order[k], order[l])

\* TransportStats::observe with ALPHA = 1/5; rtt is Unseen for a loss.
observe(st, rtt) ==
    [samples |-> st.samples + 1,
     loss |-> ((IF rtt = Unseen THEN Scale ELSE 0) + 4 * st.loss) \div 5,
     rtt |-> IF rtt = Unseen THEN st.rtt
             ELSE IF st.rtt = Unseen THEN rtt * Scale
             ELSE (rtt * Scale + 4 * st.rtt) \div 5]

record(i, rtt) == stats' = [stats EXCEPT ![i] = observe(@, rtt)]

-----------------------------------------------------------------------------
NewLeg == [pc |-> "setup", spent |-> 0, bound |-> effective_timeout]

\* The strategy's order is fixed when the exchange begins. A race begins
\* every leg at once, a ladder only the first.
Begin(c, how, order, deadline) ==
    /\ call[c].pc = "idle"
    /\ call' = [call EXCEPT ![c] =
          [@ EXCEPT !.pc = "run", !.how = how, !.order = order,
             !.deadline = deadline,
             !.leg = [i \in Transports |->
                        IF how = "all" \/ i = order[1] THEN NewLeg ELSE NoLeg]]]
    /\ UNCHANGED <<server, cert, override, stats>>

\* Pool::exchange.
Exchange(c, deadline) ==
    /\ Begin(c, "strict", Ring(0), deadline)
    /\ UNCHANGED <<rr_cursor, solve>>

\* Pool::exchange_round_robin: the cursor moves once per query.
RoundRobin(c, deadline) ==
    /\ Begin(c, "robin", Ring(rr_cursor % N), deadline)
    /\ rr_cursor' = rr_cursor + 1
    /\ UNCHANGED solve

\* Pool::exchange_via: the routed upstream first, then every other one.
ExchangeVia(c, i, deadline) ==
    /\ Begin(c, "via", Preferring(i), deadline)
    /\ UNCHANGED <<rr_cursor, solve>>

\* Resolver::solve_ladder_exchange: rank by health, then climb.
Solve(c, deadline) ==
    LET order == solve_ranked_order
    IN  /\ Begin(c, "solve", order, deadline)
        /\ solve' = [solve EXCEPT
                       !.promotions = @ + (IF order[1] # 0 THEN 1 ELSE 0)]
        /\ UNCHANGED rr_cursor

\* Pool::exchange_all: every transport at once.
Race(c, deadline) ==
    /\ Begin(c, "all", Ring(0), deadline)
    /\ UNCHANGED <<rr_cursor, solve>>

Start(c) ==
    \E deadline \in Deadlines :
       \/ "strict" \in Strategies /\ Exchange(c, deadline)
       \/ "robin" \in Strategies /\ RoundRobin(c, deadline)
       \/ "via" \in Strategies /\ \E i \in Transports : ExchangeVia(c, i, deadline)
       \/ "solve" \in Strategies /\ Solve(c, deadline)
       \/ "all" \in Strategies /\ Race(c, deadline)

-----------------------------------------------------------------------------
Running(c) == call[c].pc = "run"
At(c, i, pc) == Running(c) /\ call[c].leg[i].pc = pc

\* warm_setup has nothing to do, or has fetched the certificate.
SetupDue(c, i) ==
    /\ At(c, i, "setup")
    /\ \/ i \in cert
       \/ server[i].reply # "silence" /\ call[c].leg[i].spent >= 1

\* The exchange proper begins: its own bound, its own stopwatch.
ToWait(c, i) ==
    call' = [call EXCEPT ![c] = [@ EXCEPT !.leg = [call[c].leg EXCEPT ![i] =
                [pc |-> "wait", spent |-> 0, bound |-> effective_timeout]]]]

SetupDone(c, i) ==
    /\ SetupDue(c, i)
    /\ ToWait(c, i)
    /\ cert' = cert \cup {i}
    /\ UNCHANGED <<server, override, rr_cursor, stats, solve>>

\* A set-up that runs out of time is ignored; the exchange is tried anyway.
SetupTimeout(c, i) ==
    /\ At(c, i, "setup")
    /\ call[c].leg[i].spent >= call[c].leg[i].bound
    /\ ToWait(c, i)
    /\ UNCHANGED <<server, cert, override, rr_cursor, stats, solve>>

ReplyDue(c, i) ==
    /\ At(c, i, "wait")
    /\ server[i].reply # "silence"
    /\ call[c].leg[i].spent >= server[i].after

\* A slip: the ladder takes a SERVFAIL for an answer.
WinsAnyBytes(c, i) == server[i].reply \in {"through", "negative", "soft"}

\* The solve ladder asks for a verdict; the others take any bytes.
Wins(c, i) ==
    server[i].reply \in IF call[c].how = "solve" THEN {"through", "negative"}
                        ELSE {"through", "negative", "soft"}

Laddered(c) == call[c].at > 1

SolveCounts(c, i) ==
    solve' = IF call[c].how # "solve" THEN solve
             ELSE [solve EXCEPT
                     !.retries = @ + (IF Laddered(c) THEN 1 ELSE 0),
                     !.hard_negatives =
                        @ + (IF server[i].reply = "negative" THEN 1 ELSE 0)]

\* The first answer ends the exchange; legs still open are dropped with it.
Answered(c, i) ==
    /\ ReplyDue(c, i)
    /\ Wins(c, i)
    /\ record(i, call[c].leg[i].spent)
    /\ SolveCounts(c, i)
    /\ call' = [call EXCEPT ![c] =
          [@ EXCEPT !.pc = "done", !.result = "answer",
                    !.leg = [call[c].leg EXCEPT ![i] = [@ EXCEPT !.pc = "answered"]]]]
    /\ UNCHANGED <<server, cert, override, rr_cursor>>

\* A slip: the race is given up as soon as one racer has failed.
FirstLoserEnds(c, i) == call[c].how = "all" \/ call[c].at = N

\* A slip: the ladder stops one rung early.
StopsEarly(c, i) ==
    IF call[c].how = "all"
    THEN \A j \in Transports \ {i} : call[c].leg[j].pc = "failed"
    ELSE call[c].at >= N - 1

\* No leg is left to run once i has failed.
LastLeg(c, i) ==
    IF call[c].how = "all"
    THEN \A j \in Transports \ {i} : call[c].leg[j].pc = "failed"
    ELSE call[c].at = N

\* A failed leg is a loss sample; a ladder moves to its next transport, and
\* the last failure exhausts the pool.
Fails(c, i) ==
    LET failed == [call[c].leg EXCEPT ![i] = [@ EXCEPT !.pc = "failed"]]
        next == call[c].order[call[c].at + 1]
        counted == IF call[c].how = "solve" THEN 1 ELSE 0
    IN  /\ record(i, Unseen)
        /\ solve' = [solve EXCEPT
                       !.soft_fails = @ + counted,
                       !.exhausted = @ + (IF LastLeg(c, i) THEN counted ELSE 0)]
        /\ call' = [call EXCEPT ![c] =
              IF LastLeg(c, i)
              THEN [@ EXCEPT !.pc = "done", !.result = "exhausted", !.leg = failed]
              ELSE IF @.how = "all" THEN [@ EXCEPT !.leg = failed]
              ELSE [@ EXCEPT !.at = call[c].at + 1, !.leg = [failed EXCEPT ![next] = NewLeg]]]
        /\ UNCHANGED <<server, cert, override, rr_cursor>>

\* A transport error, or for the solve ladder a reply that did not get
\* through.
Refused(c, i) == ReplyDue(c, i) /\ ~Wins(c, i) /\ Fails(c, i)

LegTimeout(c, i) ==
    /\ At(c, i, "wait")
    /\ call[c].leg[i].spent >= call[c].leg[i].bound
    /\ Fails(c, i)

\* tokio::time::timeout(deadline, exchange): the exchange is dropped as it
\* stands, between two of its steps.
DeadlineHit(c) ==
    /\ Running(c)
    /\ call[c].elapsed >= call[c].deadline
    /\ call' = [call EXCEPT ![c] = [@ EXCEPT !.pc = "done", !.result = "deadline"]]
    /\ UNCHANGED <<server, cert, override, rr_cursor, stats, solve>>

Due(c) ==
    \/ call[c].elapsed >= call[c].deadline
    \/ \E i \in Transports :
          \/ SetupDue(c, i) \/ ReplyDue(c, i)
          \/ /\ call[c].leg[i].pc \in {"setup", "wait"}
             /\ call[c].leg[i].spent >= call[c].leg[i].bound

Ticked(g) ==
    IF g.pc \in {"setup", "wait"} THEN [g EXCEPT !.spent = @ + 1] ELSE g

\* One tick of a query's clock, on the deadline and on every open leg.
Tick(c) ==
    /\ Running(c)
    /\ ~Due(c)
    /\ call' = [call EXCEPT ![c] =
          [@ EXCEPT !.elapsed = call[c].elapsed + 1,
                    !.leg = [i \in Transports |-> Ticked(call[c].leg[i])]]]
    /\ UNCHANGED <<server, cert, override, rr_cursor, stats, solve>>

\* set_query_timeout_ms: a live setting, read again at every leg.
SetQueryTimeout ==
    /\ override' \in Overrides \ {override}
    /\ UNCHANGED <<server, cert, rr_cursor, stats, solve, call>>

Step(c) ==
    \/ DeadlineHit(c)
    \/ Tick(c)
    \/ \E i \in Transports : \/ SetupDone(c, i) \/ SetupTimeout(c, i)
                             \/ Answered(c, i) \/ Refused(c, i)
                             \/ LegTimeout(c, i)

Next == SetQueryTimeout \/ \E c \in Calls : Start(c) \/ Step(c)

Spec == Init /\ [][Next]_vars

-----------------------------------------------------------------------------
LegsIn(c, pcs) == {i \in Transports : call[c].leg[i].pc \in pcs}

\* Exhaustion contract of the five strategies: None is returned if, and
\* only if, every transport of the pool was asked and failed, whichever
\* order they were asked in and whichever setting changed on the way.
NoneMeansAllFailed ==
    \A c \in Calls :
        (call[c].result = "exhausted") <=> (LegsIn(c, {"failed"}) = Transports)

\* First answer wins and nothing is skipped: when a ladder answers, exactly
\* the transports before the winner in its order have failed, and the solve
\* ladder never hands back a reply that did not get through.
FirstAnswerWins ==
    \A c \in Calls : call[c].result = "answer" =>
        \E i \in LegsIn(c, {"answered"}) :
            /\ LegsIn(c, {"answered"}) = {i}
            /\ call[c].how = "solve" => server[i].reply \in {"through", "negative"}
            /\ call[c].how # "all" =>
                  LegsIn(c, {"failed"}) =
                    {call[c].order[k] : k \in 1..(call[c].at - 1)}

\* A transport that answers before the bound of its leg and, set-up
\* included, before the deadline.
Quick(c, i) ==
    LET setup == IF server[i].cold THEN 1 ELSE 0
    IN  /\ server[i].reply \in {"through", "negative", "soft"}
        /\ server[i].after < call[c].leg[i].bound
        /\ setup + server[i].after < call[c].deadline

\* A race of exchange_all is never held up: one quick transport makes it
\* answer, whatever the other transports do.
RaceNotHeldUp ==
    \A c \in Calls :
        call[c].how = "all" /\ call[c].pc = "done"
            /\ (\E i \in Transports : Quick(c, i))
        => call[c].result = "answer"

EverFailed(i) == \E c \in Calls : i \in LegsIn(c, {"failed"})

\* The solve ladder learns who gets through, from the exchanges of every
\* strategy: in the order the next solve would take, a transport that has
\* failed, however fast it has also answered, comes after every transport
\* that has not.
LadderLearns ==
    \A i, j \in Transports :
        EverFailed(i) /\ ~EverFailed(j)
        => LET order == solve_ranked_order
           IN  \E k, l \in 1..N : order[k] = j /\ order[l] = i /\ k < l

\* The doc of exchange_round_robin: a dead upstream at the cursor never
\* strands the query, it falls forward to the next live one.
DeadNeverStrands ==
    \A c \in Calls : call[c].result = "deadline" =>
        ~\E i \in LegsIn(c, {"todo"}) :
            i \in cert /\ server[i].reply = "through"

\* The doc of TransportStats::loss_ewma: a timed-out exchange contributes a
\* loss. A transport that was asked and kept silent to the end of the query
\* has a loss on record.
SilenceIsALoss ==
    \A c \in Calls : call[c].pc = "done" =>
        \A i \in LegsIn(c, {"wait", "failed"}) :
            call[c].how # "all" /\ server[i].reply = "silence"
                => stats[i].loss > 0
=============================================================================
