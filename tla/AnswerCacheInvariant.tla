------------------------ MODULE AnswerCacheInvariant -------------------------
(***************************************************************************)
(* The inductive invariant of module AnswerCache.                          *)
(***************************************************************************)
EXTENDS AnswerCache

\* A cache record whose index and map agree.
WellFormed(c) ==
    /\ c.seq \in Nat
    /\ DOMAIN c.map \subseteq Hashes
    /\ c.map \in [DOMAIN c.map -> Slot]
    /\ DOMAIN c.recency \subseteq 1 .. c.seq
    /\ c.recency \in [DOMAIN c.recency -> Hashes]
    /\ \A h \in DOMAIN c.map : /\ c.map[h].seq \in DOMAIN c.recency
                               /\ c.recency[c.map[h].seq] = h
    /\ \A s \in DOMAIN c.recency : /\ c.recency[s] \in DOMAIN c.map
                                   /\ c.map[c.recency[s]].seq = s

\* What every entry carries about the answer it holds.  An entry that was not
\* restored stale never outlives its answer; under enforcement it is public.
FaithfulEntry(k, e) ==
    /\ e.wire.q = k
    /\ e.epoch = e.wire.list
    /\ ~e.wire.ad
    /\ e.stored <= clock
    /\ IF e.deadline = NoDeadline THEN e.stored + e.ttl <= e.wire.born + e.wire.life
                                  ELSE e.ttl = 0

\* Every entry sits under the hash of its key.
Faithful(c) ==
    \A h \in DOMAIN c.map : /\ HashOf[c.map[h].key] = h
                            /\ FaithfulEntry(c.map[h].key, c.map[h].entry)

\* No entry holds a private address.
Public(c) == \A h \in DOMAIN c.map : ~c.map[h].entry.wire.private

\* A row is either within its answer's life or already expired: the clock
\* never goes back, so an expired row is never restored as fresh.
FaithfulRow(r) ==
    /\ r.wire.q = r.key
    /\ r.epoch = r.wire.list
    /\ ~r.wire.ad
    /\ r.expiry <= r.wire.born + r.wire.life \/ r.expiry <= clock

\* A snapshot has one row per recency position and per question hash.
RowsDistinct ==
    /\ IsFiniteSet(nand)
    /\ \A r, p \in nand : r.pos = p.pos \/ HashOf[r.key] = HashOf[p.key] => r = p

\* What get hands out.
FaithfulReply ==
    served # NoReply =>
        /\ served.wire.q = served.key
        /\ served.wire.list = list
        /\ ~served.wire.ad
        /\ enforce => ~served.wire.private
        /\ served.fresh => clock <= served.wire.born + served.wire.life

\* The inductive invariant: the index agrees with the map, the cap holds, and
\* every entry, every persisted row and the last reply carry an answer to
\* their own question that insert, snapshot, restore and get have neither
\* renewed nor moved to another blocklist.
IInv ==
    /\ TypeOK
    /\ WellFormed(cache)
    /\ WithinCap
    /\ up \/ DOMAIN cache.map = {}
    /\ Faithful(cache)
    /\ enforce => Public(cache)
    /\ RowsDistinct
    /\ \A r \in nand : FaithfulRow(r)
    /\ FaithfulReply

\* The entry a reply came from has just been touched: it is the youngest.
ServedIsYoungest ==
    served # NoReply =>
        LET h == HashOf[served.key]
        IN  h \in DOMAIN cache.map /\ cache.map[h].seq = cache.seq
=============================================================================
