----------------------------- MODULE AnswerCache -----------------------------
(***************************************************************************)
(* The resolver's answer cache (resolver/cache.rs) with the control-plane  *)
(* calls of resolver/mod.rs that act on it: live setters, configure,       *)
(* shutdown, persist_cache and rehydrate_cache.  Every one of them runs    *)
(* under the `inner` mutex, so each is one atomic action here; the races   *)
(* that arise because a query releases that mutex are in module Resolver.  *)
(*                                                                         *)
(* Time is in whole seconds.  One clock stands for both `Instant` and the  *)
(* wall clock: the code only ever compares differences of the former and   *)
(* re-derives them from the latter across a restart.                       *)
(***************************************************************************)
EXTENDS Integers, FiniteSets

CONSTANTS
    Keys,            \* questions (qname, qtype, qclass)
    Hashes,          \* values of question_hash
    HashOf,          \* [Keys -> Hashes], not necessarily injective
    Lists,           \* blocklist fingerprints (epochs)
    Answers,         \* upstream positives: [ttl, rtype, ad, private]
    Denials,         \* SOA minima of upstream negatives; NoSoa if absent
    Caps, StaleModes, Floors, Ceilings, TypeSets,   \* values a setter may push
    Switches,        \* the on/off knobs the host moves
    ConfigCap,       \* the cache_cap parameter of configure
    FallbackTtl, DefaultCeiling, NegCeiling, DefaultNegTtl,
    U64Max,          \* u64::MAX, the "unbounded" serve-stale sentinel
    InstantMax,      \* the latest representable Instant
    SnapRows,        \* rows that fit in the snapshot budget
    MaxTime, MaxSeq  \* bounds of the model

NoType   == "none"     \* an answer section the skimmer cannot read
Service  == "HTTPS"    \* SVCB and HTTPS, the types set_cache_rr governs
AllTypes == UNION TypeSets \cup {Service}

ASSUME CacheAssumption ==
    /\ IsFiniteSet(Hashes)
    /\ HashOf \in [Keys -> Hashes]
    /\ Answers \subseteq [ttl : Nat, rtype : AllTypes \cup {NoType},
                          ad : BOOLEAN, private : BOOLEAN]
    /\ Denials \subseteq Int /\ Caps \subseteq Nat /\ StaleModes \subseteq Nat
    /\ Floors \subseteq Nat /\ Ceilings \subseteq Nat
    /\ {ConfigCap, FallbackTtl, DefaultCeiling, NegCeiling, DefaultNegTtl} \subseteq Nat
    /\ {U64Max, InstantMax, SnapRows, MaxTime, MaxSeq} \subseteq Nat

NoSoa      == -1
NoDeadline == -1

VARIABLES
    clock,      \* now
    list,       \* blocklist::installed_fingerprint()
    policy,     \* the durable intents, mirrored by the live fields of Cache
    enforce,    \* REBIND_ENFORCE
    up,         \* resolver.inner is Some
    cap,        \* Cache::cap
    cache,      \* [map : hash -> slot, recency : seq -> hash, seq]
    nand,       \* rows of the durable snapshot
    served,     \* what the last step answered from the cache, if it did
    panicked    \* restore_with panicked

vars == <<clock, list, policy, enforce, up, cap, cache, nand, served, panicked>>

\* `list` and `life` in a wire are history: the blocklist in force and the TTL
\* derived when the answer was stored.  The code does not carry them.
Wire  == [q : Keys, born : Nat, life : Nat, list : Lists, ad : BOOLEAN, private : BOOLEAN]
Entry == [wire : Wire, stored : Nat, ttl : Nat, kind : {"pos", "neg"},
          epoch : Lists, deadline : Nat \cup {NoDeadline}]
Slot  == [key : Keys, entry : Entry, seq : Nat]
Row   == [pos : Nat, key : Keys, kind : {"pos", "neg"}, expiry : Nat,
          staleUntil : Nat, epoch : Lists, wire : Wire]
Policy == [cap : Nat, stale : Nat, floor : Nat, ceiling : Nat,
           types : SUBSET AllTypes, zero : BOOLEAN, rr : BOOLEAN]
Reply == [key : Keys, wire : Wire, kind : {"pos", "neg"}, fresh : BOOLEAN]
NoReply == [fresh |-> "no reply"]

DefaultPolicy == [cap |-> 0, stale |-> 0, floor |-> 0, ceiling |-> 0,
                  types |-> AllTypes, zero |-> FALSE, rr |-> TRUE]

EmptyFcn   == [x \in {} |-> x]
EmptyCache == [map |-> EmptyFcn, recency |-> EmptyFcn, seq |-> 0]

MinOf(a, b) == IF a <= b THEN a ELSE b
MaxOf(a, b) == IF a >= b THEN a ELSE b
Monus(a, b) == IF a >= b THEN a - b ELSE 0      \* saturating_sub

-----------------------------------------------------------------------------
(* Entries *)

Age(e) == Monus(clock, e.stored)

IsFresh(e) == e.deadline = NoDeadline /\ Age(e) <= e.ttl

\* `mode` is the serve_stale_secs knob: 0 off, U64Max unbounded, else a window.
IsUsableStale(e, mode) ==
    IF e.deadline # NoDeadline
    THEN clock < e.deadline
    ELSE /\ Age(e) > e.ttl
         /\ mode # 0
         /\ mode = U64Max \/ Age(e) <= e.ttl + mode

ClampPositive(ttl) ==
    MinOf(MaxOf(ttl, policy.floor),
          IF policy.ceiling = 0 THEN DefaultCeiling ELSE policy.ceiling)

PositiveTtl(a) ==
    ClampPositive(IF a.rtype = NoType \/ a.ttl = 0 THEN FallbackTtl ELSE a.ttl)

NegativeTtl(soa) ==
    MaxOf(MinOf(IF soa = NoSoa THEN DefaultNegTtl ELSE soa, NegCeiling), 1)

IsTypeCacheable(a) ==
    /\ policy.rr \/ a.rtype # Service
    /\ a.rtype = NoType \/ a.rtype \in policy.types

IsExplicitZeroTtl(a) == a.rtype # NoType /\ a.ttl = 0

-----------------------------------------------------------------------------
(* The map and its recency index *)

Restricted(f, S) == [x \in S |-> f[x]]

\* Slip: the loop stops one entry late.
EvictToCapLate(c, n) ==
    LET keep == {s \in DOMAIN c.recency :
                    Cardinality({t \in DOMAIN c.recency : t > s}) <= n}
    IN  [map     |-> Restricted(c.map, {c.recency[s] : s \in keep}),
         recency |-> Restricted(c.recency, keep),
         seq     |-> c.seq]

\* Oldest-first eviction.  The while loop removes the entry with the smallest
\* seq until map.len() <= cap, so what stays is the `n` youngest.  No entry is
\* immortal outside the tests.
EvictToCap(c, n) ==
    LET keep == {s \in DOMAIN c.recency :
                    Cardinality({t \in DOMAIN c.recency : t > s}) < n}
    IN  [map     |-> Restricted(c.map, {c.recency[s] : s \in keep}),
         recency |-> Restricted(c.recency, keep),
         seq     |-> c.seq]

\* The recency index once the slot of `h` has left or changed its seq.
RecencyWithout(c, h) ==
    Restricted(c.recency, {s \in DOMAIN c.recency : c.recency[s] # h})

Extended(f, x, v) == [y \in DOMAIN f \cup {x} |-> IF y = x THEN v ELSE f[y]]

InsertEntry(c, k, e) ==
    LET h == HashOf[k]
        n == c.seq + 1
    IN  EvictToCap(
          [map     |-> Extended(c.map, h, [key |-> k, entry |-> e, seq |-> n]),
           recency |-> Extended(RecencyWithout(c, h), n, h),
           seq     |-> n], cap)

\* Slip: a hit leaves the recency index alone.
TouchForgotten(c, h) == [c EXCEPT !.seq = c.seq + 1]

Touch(c, h) ==
    LET n == c.seq + 1
    IN  [map     |-> [c.map EXCEPT ![h].seq = n],
         recency |-> Extended(RecencyWithout(c, h), n, h),
         seq     |-> n]

\* Slip: the slot leaves the map but not the recency index.
RemoveHashFromMap(c, h) == [c EXCEPT !.map = Restricted(c.map, DOMAIN c.map \ {h})]

RemoveHash(c, h) ==
    [map     |-> Restricted(c.map, DOMAIN c.map \ {h}),
     recency |-> RecencyWithout(c, h),
     seq     |-> c.seq]

Clear(c) == [map |-> EmptyFcn, recency |-> EmptyFcn, seq |-> c.seq]

-----------------------------------------------------------------------------
(* Snapshot and restore *)

Carried(s) ==
    LET e == cache.map[cache.recency[s]].entry
    IN  IsFresh(e) \/ IsUsableStale(e, policy.stale)

\* How many carried entries are younger: snapshot() walks recency in reverse.
RankFromMru(s) == Cardinality({t \in DOMAIN cache.recency : t > s /\ Carried(t)})

\* Slip: the age is not subtracted from the persisted lifetime.
ExpiryFullTtl(e) == clock + e.ttl

Expiry(e) == clock + Monus(e.ttl, Age(e))

StaleUntil(e) ==
    CASE policy.stale = 0      -> Expiry(e)
      [] policy.stale = U64Max -> U64Max
      [] OTHER                 -> clock + Monus(e.ttl + policy.stale, Age(e))

RowOf(s) ==
    LET slot == cache.map[cache.recency[s]]
        e    == slot.entry
    IN  [pos |-> RankFromMru(s), key |-> slot.key, kind |-> e.kind,
         expiry |-> Expiry(e), staleUntil |-> StaleUntil(e),
         epoch |-> e.epoch, wire |-> e.wire]

Snapshot == {RowOf(s) : s \in {t \in DOMAIN cache.recency :
                                  Carried(t) /\ RankFromMru(t) < SnapRows}}

RestoresFresh(r) == clock < r.expiry
RestoresStale(r) == ~RestoresFresh(r) /\ policy.stale # 0 /\ clock < r.staleUntil

\* `now + Duration::from_secs(grace)` panics past the last Instant; it is
\* evaluated before the admit gate.  The grace is staleUntil - clock.
Overflows(r) == RestoresStale(r) /\ r.staleUntil > InstantMax

\* Slip: the unconditional restore.
AdmitAll(r) == TRUE

\* The re-gate closure rehydrate_cache passes to restore_gated.
Admit(r) == ~enforce \/ ~r.wire.private

\* The rows that reach insert_entry: a panic abandons the ones that follow.
Restored ==
    {r \in nand : /\ RestoresFresh(r) \/ RestoresStale(r)
                  /\ Admit(r)
                  /\ \A p \in nand : p.pos <= r.pos => ~Overflows(p)}

\* Slip: a restored entry is stamped with the live blocklist.
RestoredEntryLive(r) ==
    [wire |-> r.wire, stored |-> clock,
     ttl |-> IF RestoresFresh(r) THEN r.expiry - clock ELSE 0,
     kind |-> r.kind, epoch |-> list,
     deadline |-> IF RestoresFresh(r) THEN NoDeadline ELSE r.staleUntil]

RestoredEntry(r) ==
    [wire |-> r.wire, stored |-> clock,
     ttl |-> IF RestoresFresh(r) THEN r.expiry - clock ELSE 0,
     kind |-> r.kind, epoch |-> r.epoch,
     deadline |-> IF RestoresFresh(r) THEN NoDeadline ELSE r.staleUntil]

\* Rows are inserted in snapshot order, each at the next seq.
RestoredSeq(r) == cache.seq + Cardinality({p \in Restored : p.pos <= r.pos})

RestoredHashes == {HashOf[r.key] : r \in Restored}
RestoredSeqs   == {RestoredSeq(r) : r \in Restored}
RowAt(h)       == CHOOSE r \in Restored : HashOf[r.key] = h
RowNumbered(n) == CHOOSE r \in Restored : RestoredSeq(r) = n

\* The cache after the inserts of restore_with, before eviction.
Merged ==
    LET kept == {s \in DOMAIN cache.recency : cache.recency[s] \notin RestoredHashes}
    IN  [map |-> [h \in DOMAIN cache.map \cup RestoredHashes |->
                    IF h \in RestoredHashes
                    THEN [key |-> RowAt(h).key, entry |-> RestoredEntry(RowAt(h)),
                          seq |-> RestoredSeq(RowAt(h))]
                    ELSE cache.map[h]],
         recency |-> [n \in kept \cup RestoredSeqs |->
                        IF n \in RestoredSeqs THEN HashOf[RowNumbered(n).key]
                                              ELSE cache.recency[n]],
         seq |-> cache.seq + Cardinality(Restored)]

\* Evicting after every insert, as the code does, or once at the end leaves the
\* same entries: the `cap` youngest.
RestoreCache == EvictToCap(Merged, cap)

-----------------------------------------------------------------------------
(* Actions *)

Init ==
    /\ clock = 0
    /\ list \in Lists
    /\ policy = DefaultPolicy
    /\ enforce = FALSE
    /\ up = FALSE
    /\ cap = 1
    /\ cache = EmptyCache
    /\ nand = {}
    /\ served = NoReply
    /\ panicked = FALSE

\* Slip: equal hashes are taken for equal questions.
MatchesHash(slot, k) == TRUE

\* Key::matches: the stored question, not only its hash, is the one asked.
Matches(slot, k) == slot.key = k

\* get_hit_at
Lookup(k) ==
    LET h    == HashOf[k]
        slot == cache.map[h]
        e    == slot.entry
        hit  == e.epoch = list /\ (IsFresh(e) \/ IsUsableStale(e, policy.stale))
    IN  /\ up /\ cache.seq < MaxSeq
        /\ IF h \notin DOMAIN cache.map \/ ~Matches(slot, k)
           THEN cache' = cache /\ served' = NoReply
           ELSE IF hit
           THEN /\ cache' = Touch(cache, h)
                /\ served' = [key |-> k, wire |-> e.wire, kind |-> e.kind,
                              fresh |-> IsFresh(e)]
           ELSE cache' = RemoveHash(cache, h) /\ served' = NoReply
        /\ UNCHANGED <<clock, list, policy, enforce, up, cap, nand, panicked>>

\* strip_ad_bit: what the cache keeps of the upstream's AD flag.
StripAd(ad) == FALSE

\* insert
Insert(k, ttl, kind, ad, private) ==
    InsertEntry(cache, k,
        [wire |-> [q |-> k, born |-> clock, life |-> ttl, list |-> list,
                   ad |-> StripAd(ad), private |-> private],
         stored |-> clock, ttl |-> ttl, kind |-> kind,
         epoch |-> list, deadline |-> NoDeadline])

\* The positive tail of resolve_inner: rebind_reject, then put.
Put(k, a) ==
    /\ up /\ cache.seq < MaxSeq
    /\ ~(enforce /\ a.private)
    /\ cache' = IF \/ ~IsTypeCacheable(a)
                   \/ policy.zero /\ policy.stale = 0 /\ IsExplicitZeroTtl(a)
                THEN cache
                ELSE Insert(k, PositiveTtl(a), "pos", a.ad, a.private)
    /\ served' = NoReply
    /\ UNCHANGED <<clock, list, policy, enforce, up, cap, nand, panicked>>

\* put_negative_from_response and put_negative
PutNegative(k, soa, ad) ==
    /\ up /\ cache.seq < MaxSeq
    /\ cache' = Insert(k, NegativeTtl(soa), "neg", ad, FALSE)
    /\ served' = NoReply
    /\ UNCHANGED <<clock, list, policy, enforce, up, cap, nand, panicked>>

\* A setter records the durable intent and writes the held cache's field.
Pushed(p) ==
    /\ policy' = p
    /\ served' = NoReply
    /\ UNCHANGED <<clock, list, enforce, up, cap, cache, nand, panicked>>

SetServeStale(m)     == Pushed([policy EXCEPT !.stale = m])
SetTtlFloor(n)       == Pushed([policy EXCEPT !.floor = n])
SetTtlCeiling(n)     == Pushed([policy EXCEPT !.ceiling = n])
SetHonorZeroTtl(on)  == Pushed([policy EXCEPT !.zero = on])
SetCacheableTypes(T) == Pushed([policy EXCEPT !.types = T])
SetCacheRr(on)       == Pushed([policy EXCEPT !.rr = on])

\* set_cache_cap evicts in the held cache at once.
SetCacheCap(n) ==
    /\ policy' = [policy EXCEPT !.cap = n]
    /\ cap' = IF up THEN MaxOf(n, 1) ELSE cap
    /\ cache' = IF up THEN EvictToCap(cache, MaxOf(n, 1)) ELSE cache
    /\ served' = NoReply
    /\ UNCHANGED <<clock, list, enforce, up, nand, panicked>>

\* Arming (off to on) drops what was stored without the gate.
SetRebindEnforce(on) ==
    /\ enforce' = on
    /\ cache' = IF on /\ ~enforce /\ up THEN Clear(cache) ELSE cache
    /\ served' = NoReply
    /\ UNCHANGED <<clock, list, policy, up, cap, nand, panicked>>

\* configure swaps in a new Inner with an empty cache seeded from the intents.
Configure ==
    /\ up' = TRUE
    /\ cap' = IF policy.cap > 0 THEN policy.cap ELSE MaxOf(ConfigCap, 1)
    /\ cache' = EmptyCache
    /\ served' = NoReply
    /\ UNCHANGED <<clock, list, policy, enforce, nand, panicked>>

Shutdown ==
    /\ up' = FALSE
    /\ cache' = EmptyCache
    /\ served' = NoReply
    /\ UNCHANGED <<clock, list, policy, enforce, cap, nand, panicked>>

\* Process death: the statics return to their defaults, the snapshot stays.
Kill ==
    /\ up' = FALSE /\ cache' = EmptyCache /\ policy' = DefaultPolicy
    /\ enforce' = FALSE /\ served' = NoReply /\ panicked' = FALSE
    /\ UNCHANGED <<clock, list, cap, nand>>

PersistCache ==
    /\ up
    /\ nand' = Snapshot
    /\ served' = NoReply
    /\ UNCHANGED <<clock, list, policy, enforce, up, cap, cache, panicked>>

RehydrateCache ==
    /\ up /\ cache.seq + Cardinality(nand) <= MaxSeq
    /\ cache' = RestoreCache
    /\ panicked' = (\E r \in nand : Overflows(r))
    /\ served' = NoReply
    /\ UNCHANGED <<clock, list, policy, enforce, up, cap, nand>>

\* The host installs another blocklist (external to the cache).
Rearm(l) ==
    /\ list' = l
    /\ served' = NoReply
    /\ UNCHANGED <<clock, policy, enforce, up, cap, cache, nand, panicked>>

Tick ==
    /\ clock < MaxTime
    /\ clock' = clock + 1
    /\ served' = NoReply
    /\ UNCHANGED <<list, policy, enforce, up, cap, cache, nand, panicked>>

Next ==
    \/ \E k \in Keys : Lookup(k)
    \/ \E k \in Keys, a \in Answers : Put(k, a)
    \/ \E k \in Keys, soa \in Denials, ad \in BOOLEAN : PutNegative(k, soa, ad)
    \/ \E m \in StaleModes : SetServeStale(m)
    \/ \E n \in Floors : SetTtlFloor(n)
    \/ \E n \in Ceilings : SetTtlCeiling(n)
    \/ "zero" \in Switches /\ \E on \in BOOLEAN : SetHonorZeroTtl(on)
    \/ "rr" \in Switches /\ \E on \in BOOLEAN : SetCacheRr(on)
    \/ "rebind" \in Switches /\ \E on \in BOOLEAN : SetRebindEnforce(on)
    \/ \E T \in TypeSets : SetCacheableTypes(T)
    \/ \E n \in Caps : SetCacheCap(n)
    \/ Configure \/ Shutdown \/ Kill
    \/ PersistCache \/ RehydrateCache
    \/ \E l \in Lists : Rearm(l)
    \/ Tick

Spec == Init /\ [][Next]_vars

-----------------------------------------------------------------------------
(* Properties *)

\* Every entry, row and reply is well formed; lifetimes are never negative
\* (positive_ttl, negative_ttl, snapshot and restore_with all saturate).
TypeOK ==
    /\ clock \in Nat /\ list \in Lists
    /\ policy \in Policy /\ cap \in Nat \ {0}
    /\ enforce \in BOOLEAN /\ up \in BOOLEAN /\ panicked \in BOOLEAN
    /\ cache.seq \in Nat
    /\ DOMAIN cache.map \subseteq Hashes /\ cache.map \in [DOMAIN cache.map -> Slot]
    /\ DOMAIN cache.recency \subseteq 1 .. cache.seq
    /\ cache.recency \in [DOMAIN cache.recency -> Hashes]
    /\ nand \subseteq Row
    /\ served \in Reply \cup {NoReply}

\* The hash map and the recency index name exactly the same entries: no insert,
\* touch, lazy removal, eviction, clear or restore leaves an orphan in either.
\* (An orphan in `recency` would make evict_to_cap drop nothing and the cache
\* outgrow its cap; an orphan in `map` could never be evicted.)
RecencyIndexesMap ==
    /\ \A h \in DOMAIN cache.map :
         LET s == cache.map[h].seq
         IN  s \in DOMAIN cache.recency /\ cache.recency[s] = h
    /\ \A s \in DOMAIN cache.recency :
         LET h == cache.recency[s]
         IN  h \in DOMAIN cache.map /\ cache.map[h].seq = s

\* The cache never holds more entries than its cap, also right after a live
\* set_cache_cap and after a restore of a snapshot taken under a larger cap.
WithinCap == Cardinality(DOMAIN cache.map) <= cap

\* A reply is the stored answer to the question asked, even when two questions
\* share a question_hash and even if the entry went through NAND.
NeverAnotherName == served # NoReply => served.wire.q = served.key

\* A reply marked Fresh is within the lifetime its answer was given when it
\* came from upstream; persisting, restarting and rehydrating, any number of
\* times, never renews it.
FreshWithinTtl ==
    served # NoReply /\ served.fresh => clock <= served.wire.born + served.wire.life

\* Nothing stored under one blocklist is served under another, whichever side
\* of a restart the re-arm happens on (restored entries keep their epoch).
ServedUnderLiveList == served # NoReply => served.wire.list = list

\* The AD flag of an upstream never reaches a client out of the cache.
NoAuthenticatedData == served # NoReply => ~served.wire.ad

\* With rebind enforcement on, no private-address answer is served, although
\* the snapshot may hold some stored before it was armed (set_rebind_enforce
\* clears the cache, restore_gated re-gates the rows).
NoPrivateUnderEnforce == served # NoReply /\ enforce => ~served.wire.private

\* No insert evicts the entry that was served just before it, unless the
\* insert takes its very hash (the hash then stays) or the cache holds a
\* single entry.
RecentlyServedSurvives ==
    [][served # NoReply /\ cap > 1 /\ HashOf[served.key] \notin DOMAIN cache'.map =>
         \A k \in Keys : /\ \A a \in Answers : ~Put(k, a)
                        /\ \A soa \in Denials, ad \in BOOLEAN : ~PutNegative(k, soa, ad)]_vars

\* "Inserted in snapshot order so the LRU ordering is preserved (freshest stays
\* MRU)" (cache.rs:1221): after a restore a row written earlier is younger than
\* a row written later, and is not evicted in its favour.
RestoreKeepsLruOrder ==
    [][RehydrateCache =>
         \A r, p \in Restored :
            LET h == HashOf[r.key]
                g == HashOf[p.key]
            IN  r.pos < p.pos /\ g \in DOMAIN cache'.map
                => h \in DOMAIN cache'.map /\ cache'.map[h].seq > cache'.map[g].seq]_vars

\* "Every field is length-guarded ... never an OOB read, never a panic"
\* (cache.rs:1217).
RestoreNeverPanics == ~panicked

\* A stale reply is within the widest serve-stale window ever configured,
\* counted from the end of the answer's own lifetime: the persisted
\* `stale_until` bounds it across restarts (cache.rs:438).
StaleWithinWindow ==
    served # NoReply /\ ~served.fresh =>
        \E w \in StaleModes : clock <= served.wire.born + served.wire.life + w
=============================================================================
