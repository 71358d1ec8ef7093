-------------------------- MODULE AnswerCacheProofs --------------------------
(***************************************************************************)
(* Lemmas about the cache record (what inserting, touching, removing and   *)
(* evicting a slot keep) and about the durable snapshot (the rows written  *)
(* are true to the entries, the entries restored are true to the rows);    *)
(* then the steps of module AnswerCache keep its invariant, for every      *)
(* choice of the constants, and what follows from it.                      *)
(***************************************************************************)
EXTENDS AnswerCacheInvariant, FiniteSetTheorems, WellFoundedInduction, TLAPS

\* The younger of two members of a finite set of seqs has fewer above it.
LEMMA RankDecreases ==
    ASSUME NEW D, IsFiniteSet(D), D \subseteq Int,
           NEW s \in D, NEW t \in D, s < t
    PROVE  /\ Cardinality({u \in D : u > s}) \in Nat
           /\ Cardinality({u \in D : u > t}) \in Nat
           /\ Cardinality({u \in D : u > t}) < Cardinality({u \in D : u > s})
<1> DEFINE A == {u \in D : u > s}
           B == {u \in D : u > t}
<1>1. A \in SUBSET D /\ B \in SUBSET A /\ t \in A /\ t \notin B
  <2>1. s \in Int /\ t \in Int /\ \A u \in D : u \in Int
    OBVIOUS
  <2>2. \A u \in D : u > t => u > s
    BY <2>1
  <2>3. t > s /\ ~(t > t)
    BY <2>1
  <2> QED
    BY Zenon, <2>2, <2>3
<1>2. IsFiniteSet(A)
  BY <1>1, FS_Subset
<1>3. IsFiniteSet(B) /\ Cardinality(B) <= Cardinality(A) /\ Cardinality(A) # Cardinality(B)
  BY <1>1, <1>2, FS_Subset
<1>4. Cardinality(A) \in Nat /\ Cardinality(B) \in Nat
  BY <1>2, <1>3, FS_CardinalityType
<1> QED
  BY <1>3, <1>4

\* At most n members of a finite set of seqs have fewer than n above them.
LEMMA YoungestBounded ==
    ASSUME NEW D, IsFiniteSet(D), D \subseteq Int, NEW n \in Nat
    PROVE  LET keep == {s \in D : Cardinality({t \in D : t > s}) < n}
           IN  IsFiniteSet(keep) /\ Cardinality(keep) <= n
<1> DEFINE rank == [s \in D |-> Cardinality({t \in D : t > s})]
           keep == {s \in D : rank[s] < n}
           f    == [s \in keep |-> rank[s]]
<1>0. keep = {s \in D : Cardinality({t \in D : t > s}) < n}
  OBVIOUS
<1>1. \A s \in D : rank[s] \in Nat
  <2> TAKE s \in D
  <2>1. IsFiniteSet({t \in D : t > s})
    BY FS_Subset, {t \in D : t > s} \in SUBSET D
  <2> QED
    BY <2>1, FS_CardinalityType
<1>2. \A s, t \in D : s # t => rank[s] # rank[t]
  <2>1. \A s, t \in D : s < t => rank[t] < rank[s]
    BY RankDecreases, Zenon
  <2>2. \A s, t \in D : s # t => s < t \/ t < s
    BY D \subseteq Int
  <2> HIDE DEF rank
  <2> QED
    BY <1>1, <2>1, <2>2
<1> HIDE DEF rank
<1>3. f \in Injection(keep, 0 .. n - 1)
  <2>1. \A s \in keep : rank[s] \in 0 .. n - 1
    BY <1>1
  <2>2. \A s, t \in keep : f[s] = f[t] => s = t
    BY <1>2
  <2> QED
    BY ZenonT(30), <2>1, <2>2 DEF Injection, IsInjective
<1>4. IsFiniteSet(0 .. n - 1) /\ Cardinality(0 .. n - 1) = n
  BY FS_Interval
<1>5. IsFiniteSet(keep) /\ Cardinality(keep) <= Cardinality(0 .. n - 1)
  BY <1>3, <1>4, FS_Injection
<1> QED
  BY Zenon, <1>0, <1>4, <1>5

-----------------------------------------------------------------------------
(* The operations on the map and its index *)

\* evict_to_cap keeps the index in step, leaves at most n entries, and adds or
\* alters none.
LEMMA EvictKeeps ==
    ASSUME NEW c, WellFormed(c), NEW n \in Nat
    PROVE  LET d == EvictToCap(c, n)
           IN  /\ WellFormed(d)
               /\ Cardinality(DOMAIN d.map) <= n
               /\ \A h \in DOMAIN d.map : h \in DOMAIN c.map /\ d.map[h] = c.map[h]
<1> DEFINE D    == DOMAIN c.recency
           keep == {s \in D : Cardinality({t \in D : t > s}) < n}
           left == {c.recency[s] : s \in keep}
           d    == EvictToCap(c, n)
<1>1. IsFiniteSet(D) /\ D \subseteq Int
  <2>1. D \subseteq 1 .. c.seq /\ c.seq \in Int
    BY DEF WellFormed
  <2>2. IsFiniteSet(1 .. c.seq)
    <3>1. 1 \in Int
      OBVIOUS
    <3> QED
      BY <2>1, <3>1, FS_Interval, Zenon
  <2> QED
    BY <2>1, <2>2, FS_Subset
<1>2. IsFiniteSet(keep) /\ Cardinality(keep) <= n /\ keep \subseteq D
  BY Zenon, <1>1, YoungestBounded
<1>3. /\ d.seq = c.seq
      /\ d.map = [h \in left |-> c.map[h]]
      /\ d.recency = [s \in keep |-> c.recency[s]]
  BY DEF EvictToCap, Restricted
<1> HIDE DEF d, keep
<1>4. left \subseteq DOMAIN c.map /\ \A s \in keep : c.map[c.recency[s]].seq = s
  BY <1>2 DEF WellFormed
<1>5. WellFormed(d)
  <2>1. /\ DOMAIN d.map = left /\ DOMAIN d.recency = keep
        /\ \A h \in left : d.map[h] = c.map[h]
        /\ \A s \in keep : d.recency[s] = c.recency[s] /\ c.recency[s] \in left
    BY <1>3
  <2>2. /\ d.seq \in Nat /\ DOMAIN d.map \subseteq Hashes
        /\ DOMAIN d.recency \subseteq 1 .. d.seq
    BY <1>2, <1>3, <1>4, <2>1 DEF WellFormed
  <2>3. d.map \in [DOMAIN d.map -> Slot]
    BY <1>3, <1>4, <2>1 DEF WellFormed
  <2>4. d.recency \in [DOMAIN d.recency -> Hashes]
    BY <1>2, <1>3, <2>1 DEF WellFormed
  <2>5. ASSUME NEW h \in DOMAIN d.map
        PROVE  d.map[h].seq \in DOMAIN d.recency /\ d.recency[d.map[h].seq] = h
    <3>1. PICK s \in keep : h = c.recency[s]
      BY <2>1
    <3>2. d.map[h].seq = s
      BY <1>4, <2>1, <3>1
    <3> QED
      BY <2>1, <3>1, <3>2
  <2>6. ASSUME NEW s \in DOMAIN d.recency
        PROVE  d.recency[s] \in DOMAIN d.map /\ d.map[d.recency[s]].seq = s
    BY <1>4, <2>1
  <2> QED
    BY <2>2, <2>3, <2>4, <2>5, <2>6 DEF WellFormed
<1>6. Cardinality(left) <= n
  <2> DEFINE f == [s \in keep |-> c.recency[s]]
  <2>1. f \in Surjection(keep, left)
    BY DEF Surjection
  <2>2. IsFiniteSet(left) /\ Cardinality(left) <= Cardinality(keep)
    BY <1>2, <2>1, FS_Surjection
  <2> QED
    BY <1>2, <2>2, FS_CardinalityType
<1>7. DOMAIN d.map = left /\ \A h \in left : d.map[h] = c.map[h]
  BY <1>3
<1> QED
  BY <1>4, <1>5, <1>6, <1>7 DEF d

\* insert_entry, before it evicts.
Inserted(c, k, e) ==
    [map     |-> Extended(c.map, HashOf[k], [key |-> k, entry |-> e, seq |-> c.seq + 1]),
     recency |-> Extended(RecencyWithout(c, HashOf[k]), c.seq + 1, HashOf[k]),
     seq     |-> c.seq + 1]

\* Writing one slot under the next seq keeps map and index a bijection.
LEMMA InsertKeeps ==
    ASSUME NEW c, WellFormed(c), NEW k \in Keys, NEW e \in Entry
    PROVE  WellFormed(Inserted(c, k, e))
<1> DEFINE h == HashOf[k]
           n == c.seq + 1
           d == Inserted(c, k, e)
           R == {s \in DOMAIN c.recency : c.recency[s] # h}
<1>1. h \in Hashes /\ n \in Nat /\ n > c.seq
  BY CacheAssumption DEF WellFormed
<1>2. [key |-> k, entry |-> e, seq |-> n] \in Slot
  BY Zenon, <1>1 DEF Slot
<1>3. /\ d.seq = n
      /\ DOMAIN d.map = DOMAIN c.map \cup {h}
      /\ d.map = [g \in DOMAIN c.map \cup {h} |->
                    IF g = h THEN [key |-> k, entry |-> e, seq |-> n] ELSE c.map[g]]
      /\ DOMAIN d.recency = R \cup {n}
      /\ d.recency = [s \in R \cup {n} |-> IF s = n THEN h ELSE c.recency[s]]
  BY Zenon DEF Inserted, Extended, RecencyWithout, Restricted
<1>10. /\ h \in DOMAIN d.map /\ d.map[h].seq = n
       /\ \A g \in DOMAIN d.map : g # h => g \in DOMAIN c.map /\ d.map[g] = c.map[g]
  BY <1>3
<1>11. /\ n \in DOMAIN d.recency /\ d.recency[n] = h
       /\ \A s \in R : s # n => s \in DOMAIN d.recency /\ d.recency[s] = c.recency[s]
  BY <1>3
<1>4. \A s \in R : s \in 1 .. c.seq /\ s # n
  BY <1>1 DEF WellFormed
<1> HIDE DEF d, h, n
<1>5. \A g \in DOMAIN c.map : g # h => c.map[g].seq \in R
  BY DEF WellFormed
<1>6. DOMAIN d.map \subseteq Hashes /\ d.map \in [DOMAIN d.map -> Slot]
  BY <1>1, <1>2, <1>3 DEF WellFormed
<1>7. DOMAIN d.recency \subseteq 1 .. d.seq /\ d.recency \in [DOMAIN d.recency -> Hashes]
  <2>1. \A s \in R : c.recency[s] \in Hashes
    BY DEF WellFormed
  <2>2. d.recency \in [R \cup {n} -> Hashes]
    BY <1>1, <1>3, <2>1
  <2>3. c.seq \in Nat
    BY DEF WellFormed
  <2>4. R \cup {n} \subseteq 1 .. n
    BY <1>1, <1>4, <2>3
  <2>5. DOMAIN d.recency = R \cup {n} /\ d.seq = n
    BY <1>3
  <2> QED
    BY <2>2, <2>4, <2>5
<1>8. ASSUME NEW g \in DOMAIN d.map
      PROVE  d.map[g].seq \in DOMAIN d.recency /\ d.recency[d.map[g].seq] = g
  <2>1. CASE g = h
    BY <1>10, <1>11, <2>1
  <2>2. CASE g # h
    <3>1. g \in DOMAIN c.map /\ d.map[g] = c.map[g]
      BY <1>10, <2>2
    <3>2. c.map[g].seq \in R /\ c.map[g].seq # n
      BY <1>4, <1>5, <2>2, <3>1
    <3>3. c.recency[c.map[g].seq] = g
      BY Zenon, <3>1 DEF WellFormed
    <3> QED
      BY <1>11, <3>1, <3>2, <3>3
  <2> QED
    BY <2>1, <2>2
<1>9. ASSUME NEW s \in DOMAIN d.recency
      PROVE  d.recency[s] \in DOMAIN d.map /\ d.map[d.recency[s]].seq = s
  <2>1. CASE s = n
    BY Zenon, <1>10, <1>11, <2>1
  <2>2. CASE s # n
    <3>1. s \in R
      BY Zenon, <1>3, <2>2
    <3>2. d.recency[s] = c.recency[s] /\ c.recency[s] # h
      BY Zenon, <1>11, <2>2, <3>1
    <3>3. c.recency[s] \in DOMAIN c.map /\ c.map[c.recency[s]].seq = s
      BY Zenon, <3>1 DEF WellFormed
    <3>4. c.recency[s] \in DOMAIN d.map
      BY Zenon, <1>3, <3>3
    <3> QED
      BY Zenon, <1>10, <3>2, <3>3, <3>4
  <2> QED
    BY Zenon, <2>1, <2>2
<1> QED
  <2>1. d.seq \in Nat
    BY Zenon, <1>1, <1>3
  <2>2. WellFormed(d)
    BY <2>1, <1>6, <1>7, <1>8, <1>9 DEF WellFormed
  <2> QED
    BY <2>2 DEF d

\* touch renumbers one slot and alters nothing else.
LEMMA TouchKeeps ==
    ASSUME NEW c, WellFormed(c), NEW h \in DOMAIN c.map
    PROVE  LET d == Touch(c, h)
           IN  /\ WellFormed(d)
               /\ DOMAIN d.map = DOMAIN c.map
               /\ \A g \in DOMAIN c.map : /\ d.map[g].key = c.map[g].key
                                          /\ d.map[g].entry = c.map[g].entry
<1> DEFINE n == c.seq + 1
           d == Touch(c, h)
           R == {s \in DOMAIN c.recency : c.recency[s] # h}
<1>1. h \in Hashes /\ n \in Nat /\ n > c.seq
  BY DEF WellFormed
<1>2. /\ d.seq = n
      /\ d.map = [c.map EXCEPT ![h].seq = n]
      /\ DOMAIN d.recency = R \cup {n}
      /\ d.recency = [s \in R \cup {n} |-> IF s = n THEN h ELSE c.recency[s]]
  BY DEF Touch, Extended, RecencyWithout, Restricted
<1>3. /\ DOMAIN d.map = DOMAIN c.map
      /\ \A g \in DOMAIN c.map : g # h => d.map[g] = c.map[g]
      /\ d.map[h] = [c.map[h] EXCEPT !.seq = n]
  BY <1>2 DEF WellFormed
<1>4. \A s \in R : s \in 1 .. c.seq /\ s # n
  BY <1>1 DEF WellFormed
<1> HIDE DEF d, n
<1>5. \A g \in DOMAIN c.map : g # h => c.map[g].seq \in R
  BY DEF WellFormed
<1>6. c.map[h] \in Slot
  BY DEF WellFormed
<1>7. /\ d.map[h] \in Slot /\ d.map[h].seq = n
      /\ d.map[h].key = c.map[h].key /\ d.map[h].entry = c.map[h].entry
  BY <1>1, <1>3, <1>6 DEF Slot
<1>8. d.map \in [DOMAIN d.map -> Slot]
  BY <1>2, <1>3, <1>7 DEF WellFormed
<1>9. DOMAIN d.recency \subseteq 1 .. d.seq /\ d.recency \in [DOMAIN d.recency -> Hashes]
  <2>1. \A s \in R : c.recency[s] \in Hashes
    BY DEF WellFormed
  <2>2. d.recency \in [R \cup {n} -> Hashes]
    BY <1>1, <1>2, <2>1
  <2>3. c.seq \in Nat
    BY DEF WellFormed
  <2>4. R \cup {n} \subseteq 1 .. n
    BY <1>1, <1>4, <2>3
  <2>5. DOMAIN d.recency = R \cup {n} /\ d.seq = n
    BY <1>2
  <2> QED
    BY <2>2, <2>4, <2>5
<1>10. ASSUME NEW g \in DOMAIN d.map
       PROVE  d.map[g].seq \in DOMAIN d.recency /\ d.recency[d.map[g].seq] = g
  <2>1. CASE g = h
    BY Zenon, <1>2, <1>7, <2>1
  <2>2. CASE g # h
    <3>1. g \in DOMAIN c.map /\ d.map[g] = c.map[g]
      BY <1>3, <2>2
    <3>2. c.map[g].seq \in R /\ c.map[g].seq # n
      BY <1>4, <1>5, <2>2, <3>1
    <3>3. c.recency[c.map[g].seq] = g
      BY Zenon, <3>1 DEF WellFormed
    <3> QED
      BY <1>2, <3>1, <3>2, <3>3
  <2> QED
    BY <2>1, <2>2
<1>11. \A s \in DOMAIN d.recency : d.recency[s] \in DOMAIN d.map /\ d.map[d.recency[s]].seq = s
  BY <1>2, <1>3, <1>4, <1>7 DEF WellFormed
<1>12. d.seq \in Nat /\ DOMAIN d.map \subseteq Hashes
  BY Zenon, <1>1, <1>2, <1>3 DEF WellFormed
<1>13. WellFormed(d)
  BY Zenon, <1>8, <1>9, <1>10, <1>11, <1>12 DEF WellFormed
<1>14. \A g \in DOMAIN c.map : d.map[g].key = c.map[g].key /\ d.map[g].entry = c.map[g].entry
  BY Zenon, <1>3, <1>7
<1> QED
  BY <1>3, <1>13, <1>14 DEF d

\* remove_hash drops one entry and alters nothing else.
LEMMA RemoveKeeps ==
    ASSUME NEW c, WellFormed(c), NEW h
    PROVE  LET d == RemoveHash(c, h)
           IN  /\ WellFormed(d)
               /\ DOMAIN d.map = DOMAIN c.map \ {h}
               /\ \A g \in DOMAIN d.map : d.map[g] = c.map[g]
<1> DEFINE d == RemoveHash(c, h)
           R == {s \in DOMAIN c.recency : c.recency[s] # h}
<1>1. /\ d.seq = c.seq
      /\ d.map = [g \in DOMAIN c.map \ {h} |-> c.map[g]]
      /\ d.recency = [s \in R |-> c.recency[s]]
  BY DEF RemoveHash, RecencyWithout, Restricted
<1> HIDE DEF d
<1>2. \A g \in DOMAIN c.map : g # h => c.map[g].seq \in R
  BY DEF WellFormed
<1>3. /\ DOMAIN d.map = DOMAIN c.map \ {h} /\ DOMAIN d.recency = R
      /\ \A g \in DOMAIN c.map \ {h} : d.map[g] = c.map[g]
      /\ \A s \in R : d.recency[s] = c.recency[s]
  BY Zenon, <1>1
<1>4. d.seq \in Nat /\ DOMAIN d.map \subseteq Hashes
  BY Zenon, <1>1, <1>3 DEF WellFormed
<1>5. DOMAIN d.recency \subseteq 1 .. d.seq
  BY <1>1, <1>3 DEF WellFormed
<1>6. d.map \in [DOMAIN d.map -> Slot]
  <2>1. \A g \in DOMAIN c.map \ {h} : c.map[g] \in Slot
    BY DEF WellFormed
  <2> QED
    BY <1>1, <2>1
<1>7. d.recency \in [DOMAIN d.recency -> Hashes]
  <2>1. \A s \in R : c.recency[s] \in Hashes
    BY Zenon DEF WellFormed
  <2> QED
    BY <1>1, <2>1
<1>8. ASSUME NEW g \in DOMAIN d.map
      PROVE  d.map[g].seq \in DOMAIN d.recency /\ d.recency[d.map[g].seq] = g
  <2>1. g \in DOMAIN c.map /\ g # h /\ d.map[g] = c.map[g]
    BY <1>3
  <2>2. c.recency[c.map[g].seq] = g
    BY <2>1 DEF WellFormed
  <2> QED
    BY <1>2, <1>3, <2>1, <2>2
<1>9. ASSUME NEW s \in DOMAIN d.recency
      PROVE  d.recency[s] \in DOMAIN d.map /\ d.map[d.recency[s]].seq = s
  <2>1. s \in DOMAIN c.recency /\ c.recency[s] # h /\ d.recency[s] = c.recency[s]
    BY <1>3
  <2>2. c.recency[s] \in DOMAIN c.map /\ c.map[c.recency[s]].seq = s
    BY Zenon, <2>1 DEF WellFormed
  <2> QED
    BY <1>3, <2>1, <2>2
<1>10. WellFormed(d)
  BY <1>4, <1>5, <1>6, <1>7, <1>8, <1>9 DEF WellFormed
<1> QED
  BY <1>3, <1>10 DEF d

\* clear, and the cache of a new Inner, are empty and well formed.
LEMMA EmptyKeeps ==
    ASSUME NEW c, c.map = EmptyFcn, c.recency = EmptyFcn, c.seq \in Nat
    PROVE  WellFormed(c) /\ DOMAIN c.map = {}
BY DEF WellFormed, EmptyFcn

-----------------------------------------------------------------------------
\* The rows a restore inserts are numbered one by one after the current seq.
LEMMA RestoredNumbers ==
    ASSUME TypeOK, RowsDistinct
    PROVE  /\ IsFiniteSet(Restored) /\ Cardinality(Restored) \in Nat
           /\ \A r \in Restored :
                /\ RestoredSeq(r) \in Nat
                /\ cache.seq < RestoredSeq(r)
                /\ RestoredSeq(r) <= cache.seq + Cardinality(Restored)
           /\ \A r, p \in Restored : RestoredSeq(r) = RestoredSeq(p) => r = p
<1> DEFINE Upto(r) == {p \in Restored : p.pos <= r.pos}
<1>1. Restored \in SUBSET nand
  BY DEF Restored
<1>2. IsFiniteSet(Restored)
  BY <1>1, FS_Subset DEF RowsDistinct
<1>3. Cardinality(Restored) \in Nat
  BY <1>2, FS_CardinalityType
<1>4. \A r \in Restored : r.pos \in Nat
  BY <1>1 DEF TypeOK, Row
<1>5. \A r \in Restored : RestoredSeq(r) = cache.seq + Cardinality(Upto(r))
  BY DEF RestoredSeq
<1>6. ASSUME NEW r \in Restored
      PROVE  /\ IsFiniteSet(Upto(r)) /\ Cardinality(Upto(r)) \in Nat
             /\ Cardinality(Upto(r)) <= Cardinality(Restored)
             /\ Cardinality(Upto(r)) # 0
  <2>1. Upto(r) \in SUBSET Restored /\ r \in Upto(r)
    BY <1>4
  <2> HIDE DEF Upto
  <2>2. IsFiniteSet(Upto(r)) /\ Cardinality(Upto(r)) <= Cardinality(Restored)
    BY <1>2, <2>1, FS_Subset
  <2> QED
    BY <2>1, <2>2, FS_CardinalityType, FS_EmptySet
<1>7. ASSUME NEW r \in Restored, NEW p \in Restored, r.pos < p.pos
      PROVE  Cardinality(Upto(r)) # Cardinality(Upto(p))
  <2>1. Upto(r) \in SUBSET Upto(p) /\ p \in Upto(p) /\ p \notin Upto(r)
    BY <1>4, <1>7
  <2> HIDE DEF Upto
  <2> QED
    BY <1>6, <2>1, FS_Subset
<1>8. cache.seq \in Nat
  BY DEF TypeOK
<1> HIDE DEF Upto
<1>9. ASSUME NEW r \in Restored
      PROVE  /\ RestoredSeq(r) \in Nat /\ cache.seq < RestoredSeq(r)
             /\ RestoredSeq(r) <= cache.seq + Cardinality(Restored)
  BY <1>3, <1>5, <1>6, <1>8
<1>10. ASSUME NEW r \in Restored, NEW p \in Restored, RestoredSeq(r) = RestoredSeq(p)
       PROVE  r = p
  <2>1. Cardinality(Upto(r)) = Cardinality(Upto(p))
    BY <1>5, <1>6, <1>8, <1>10
  <2>2. r.pos = p.pos
    BY <1>4, <1>7, <2>1
  <2> QED
    BY <1>1, <2>2 DEF RowsDistinct
<1> QED
  BY <1>2, <1>3, <1>9, <1>10

\* An entry rebuilt from a row is well typed and true to the row's answer.
LEMMA RestoredFaithful ==
    ASSUME TypeOK, \A r \in nand : FaithfulRow(r), NEW r \in Restored
    PROVE  /\ r \in Row
           /\ RestoredEntry(r) \in Entry
           /\ FaithfulEntry(r.key, RestoredEntry(r))
           /\ enforce => ~RestoredEntry(r).wire.private
<1>1. r \in Row /\ FaithfulRow(r) /\ clock \in Nat /\ Admit(r)
  BY DEF TypeOK, Restored
<1>2. CASE RestoresFresh(r)
  <2>1. RestoredEntry(r) = [wire |-> r.wire, stored |-> clock, ttl |-> r.expiry - clock,
                            kind |-> r.kind, epoch |-> r.epoch, deadline |-> NoDeadline]
    BY <1>2 DEF RestoredEntry
  <2>2. r.expiry \in Nat /\ clock < r.expiry /\ r.expiry - clock \in Nat
    BY <1>1, <1>2 DEF Row, RestoresFresh
  <2>3. r.expiry <= r.wire.born + r.wire.life
    BY <1>1, <2>2 DEF FaithfulRow
  <2> QED
    BY <1>1, <2>1, <2>2, <2>3 DEF Row, Entry, FaithfulRow, FaithfulEntry, Admit
<1>3. CASE ~RestoresFresh(r)
  <2>1. RestoredEntry(r) = [wire |-> r.wire, stored |-> clock, ttl |-> 0,
                            kind |-> r.kind, epoch |-> r.epoch, deadline |-> r.staleUntil]
    BY <1>3 DEF RestoredEntry
  <2>2. r.staleUntil \in Nat /\ r.staleUntil # NoDeadline
    BY <1>1 DEF Row, NoDeadline
  <2> QED
    BY <1>1, <2>1, <2>2 DEF Row, Entry, FaithfulRow, FaithfulEntry, Admit
<1> QED
  BY <1>2, <1>3

\* The inserts of a restore keep the map and its index in step, and every slot
\* of the result is an old slot or one rebuilt from a row.
LEMMA MergedKeeps ==
    ASSUME TypeOK, WellFormed(cache), RowsDistinct, \A r \in nand : FaithfulRow(r)
    PROVE  /\ WellFormed(Merged)
           /\ \A h \in DOMAIN Merged.map :
                \/ h \in DOMAIN cache.map /\ Merged.map[h] = cache.map[h]
                \/ \E r \in Restored : /\ HashOf[r.key] = h
                                       /\ Merged.map[h].key = r.key
                                       /\ Merged.map[h].entry = RestoredEntry(r)
<1> DEFINE kept == {s \in DOMAIN cache.recency : cache.recency[s] \notin RestoredHashes}
           new(r) == [key |-> r.key, entry |-> RestoredEntry(r), seq |-> RestoredSeq(r)]
           d == Merged
<1>1. \A r \in Restored : r \in nand /\ r \in Row /\ RestoredEntry(r) \in Entry
  BY RestoredFaithful DEF Restored
<1>2. \A r, p \in Restored : HashOf[r.key] = HashOf[p.key] => r = p
  BY <1>1 DEF RowsDistinct
<1>3. ASSUME NEW r \in Restored
      PROVE  RowAt(HashOf[r.key]) = r /\ RowNumbered(RestoredSeq(r)) = r
  BY Zenon, <1>2, RestoredNumbers DEF RowAt, RowNumbered
<1>4. /\ d.seq = cache.seq + Cardinality(Restored)
      /\ DOMAIN d.map = DOMAIN cache.map \cup RestoredHashes
      /\ DOMAIN d.recency = kept \cup RestoredSeqs
      /\ d.map = [h \in DOMAIN d.map |-> d.map[h]]
      /\ d.recency = [s \in DOMAIN d.recency |-> d.recency[s]]
      /\ \A h \in DOMAIN cache.map : h \notin RestoredHashes => d.map[h] = cache.map[h]
      /\ \A s \in kept : s \notin RestoredSeqs => d.recency[s] = cache.recency[s]
  <2>1. /\ d.seq = cache.seq + Cardinality(Restored)
        /\ DOMAIN d.map = DOMAIN cache.map \cup RestoredHashes
        /\ DOMAIN d.recency = kept \cup RestoredSeqs
    BY Zenon DEF Merged
  <2>2. /\ d.map = [h \in DOMAIN d.map |-> d.map[h]]
        /\ d.recency = [s \in DOMAIN d.recency |-> d.recency[s]]
    BY Zenon DEF Merged
  <2>3. /\ \A h \in DOMAIN cache.map : h \notin RestoredHashes => d.map[h] = cache.map[h]
        /\ \A s \in kept : s \notin RestoredSeqs => d.recency[s] = cache.recency[s]
    BY Zenon DEF Merged
  <2> QED
    BY Zenon, <2>1, <2>2, <2>3
<1>5. ASSUME NEW r \in Restored
      PROVE  /\ HashOf[r.key] \in RestoredHashes /\ RestoredSeq(r) \in RestoredSeqs
             /\ d.map[HashOf[r.key]] = new(r)
             /\ d.map[HashOf[r.key]].key = r.key
             /\ d.map[HashOf[r.key]].entry = RestoredEntry(r)
             /\ d.map[HashOf[r.key]].seq = RestoredSeq(r)
             /\ d.recency[RestoredSeq(r)] = HashOf[r.key]
  BY Zenon, <1>3 DEF Merged, RestoredHashes, RestoredSeqs
<1>6. ASSUME NEW r \in Restored PROVE new(r) \in Slot /\ HashOf[r.key] \in Hashes
  BY <1>1, RestoredNumbers, CacheAssumption DEF Slot, Row
<1>7. /\ \A h \in RestoredHashes : \E r \in Restored : h = HashOf[r.key]
      /\ \A n \in RestoredSeqs : \E r \in Restored : n = RestoredSeq(r)
  BY DEF RestoredHashes, RestoredSeqs
<1>8. /\ cache.seq \in Nat /\ Cardinality(Restored) \in Nat
      /\ \A s \in kept : s \in 1 .. cache.seq /\ s \notin RestoredSeqs
  BY RestoredNumbers, <1>7 DEF WellFormed
<1>9. \A g \in DOMAIN cache.map : g \notin RestoredHashes => cache.map[g].seq \in kept
  BY Zenon DEF WellFormed
<1> HIDE DEF d, new
<1>10. d.seq \in Nat /\ DOMAIN d.map \subseteq Hashes
  <2>1. d.seq \in Nat
    BY <1>4, <1>8
  <2>2. DOMAIN cache.map \subseteq Hashes
    BY Zenon DEF WellFormed
  <2>3. RestoredHashes \subseteq Hashes
    BY Zenon, <1>6, <1>7
  <2> QED
    BY Zenon, <1>4, <2>1, <2>2, <2>3
<1>11. ASSUME NEW h \in DOMAIN d.map PROVE d.map[h] \in Slot
  <2>1. CASE h \in RestoredHashes
    <3>1. PICK r \in Restored : h = HashOf[r.key]
      BY Zenon, <1>7, <2>1
    <3> QED
      BY Zenon, <1>5, <1>6, <3>1
  <2>2. CASE h \notin RestoredHashes
    <3>1. h \in DOMAIN cache.map /\ d.map[h] = cache.map[h]
      BY Zenon, <1>4, <2>2
    <3>2. cache.map[h] \in Slot
      BY Zenon, <3>1 DEF WellFormed
    <3> QED
      BY Zenon, <3>1, <3>2
  <2> QED
    BY Zenon, <2>1, <2>2
<1>12. DOMAIN d.recency \subseteq 1 .. d.seq
  <2>1. PICK m : m = Cardinality(Restored)
    OBVIOUS
  <2>2. cache.seq \in Nat /\ m \in Nat /\ d.seq = cache.seq + m
    BY Zenon, <1>4, <1>8, <2>1
  <2>3. ASSUME NEW r \in Restored
        PROVE  RestoredSeq(r) \in Nat /\ cache.seq < RestoredSeq(r) /\ RestoredSeq(r) <= cache.seq + m
    BY Zenon, <2>1, RestoredNumbers
  <2>4. ASSUME NEW s \in DOMAIN d.recency PROVE s \in 1 .. d.seq
    <3>1. CASE s \in RestoredSeqs
      <4>1. PICK r \in Restored : s = RestoredSeq(r)
        BY Zenon, <1>7, <3>1
      <4>2. s \in Nat /\ cache.seq < s /\ s <= cache.seq + m
        BY Zenon, <2>3, <4>1
      <4> QED
        BY <2>2, <4>2
    <3>2. CASE s \notin RestoredSeqs
      <4>1. s \in 1 .. cache.seq
        BY Zenon, <1>4, <1>8, <3>2
      <4> QED
        BY <2>2, <4>1
    <3> QED
      BY Zenon, <3>1, <3>2
  <2> QED
    BY Zenon, <2>4
<1>13. ASSUME NEW s \in DOMAIN d.recency PROVE d.recency[s] \in Hashes
  <2>1. CASE s \in RestoredSeqs
    <3>1. PICK r \in Restored : s = RestoredSeq(r)
      BY Zenon, <1>7, <2>1
    <3> QED
      BY Zenon, <1>5, <1>6, <3>1
  <2>2. CASE s \notin RestoredSeqs
    <3>1. s \in DOMAIN cache.recency /\ d.recency[s] = cache.recency[s]
      BY Zenon, <1>4, <2>2
    <3>2. cache.recency[s] \in Hashes
      BY Zenon, <3>1 DEF WellFormed
    <3> QED
      BY Zenon, <3>1, <3>2
  <2> QED
    BY Zenon, <2>1, <2>2
<1>14. \A g \in DOMAIN d.map : d.map[g].seq \in DOMAIN d.recency /\ d.recency[d.map[g].seq] = g
  <2> TAKE g \in DOMAIN d.map
  <2>1. CASE g \in RestoredHashes
    <3>1. PICK r \in Restored : g = HashOf[r.key]
      BY Zenon, <1>7, <2>1
    <3>2. d.map[g].seq = RestoredSeq(r)
      BY Zenon, <1>5, <3>1
    <3>3. RestoredSeq(r) \in DOMAIN d.recency /\ d.recency[RestoredSeq(r)] = g
      BY Zenon, <1>4, <1>5, <3>1
    <3> QED
      BY Zenon, <3>2, <3>3
  <2>2. CASE g \notin RestoredHashes
    <3>1. g \in DOMAIN cache.map /\ d.map[g] = cache.map[g]
      BY Zenon, <1>4, <2>2
    <3>2. cache.map[g].seq \in kept /\ cache.map[g].seq \notin RestoredSeqs
      BY Zenon, <1>8, <1>9, <2>2, <3>1
    <3>3. cache.recency[cache.map[g].seq] = g
      BY Zenon, <3>1 DEF WellFormed
    <3>4. d.recency[cache.map[g].seq] = g /\ cache.map[g].seq \in DOMAIN d.recency
      BY Zenon, <1>4, <3>2, <3>3
    <3> QED
      BY Zenon, <3>1, <3>4
  <2> QED
    BY <2>1, <2>2
<1>15. \A s \in DOMAIN d.recency : d.recency[s] \in DOMAIN d.map /\ d.map[d.recency[s]].seq = s
  <2> TAKE s \in DOMAIN d.recency
  <2>1. CASE s \in RestoredSeqs
    <3>1. PICK r \in Restored : s = RestoredSeq(r)
      BY Zenon, <1>7, <2>1
    <3>2. d.recency[s] = HashOf[r.key] /\ d.map[HashOf[r.key]].seq = s
      BY Zenon, <1>5, <3>1
    <3> QED
      BY Zenon, <1>4, <1>5, <3>2
  <2>2. CASE s \notin RestoredSeqs
    <3>1. s \in kept /\ d.recency[s] = cache.recency[s]
      BY Zenon, <1>4, <2>2
    <3>2. /\ cache.recency[s] \in DOMAIN cache.map /\ cache.map[cache.recency[s]].seq = s
          /\ cache.recency[s] \notin RestoredHashes
      BY Zenon, <3>1 DEF WellFormed
    <3>3. cache.recency[s] \in DOMAIN d.map /\ d.map[cache.recency[s]] = cache.map[cache.recency[s]]
      BY Zenon, <1>4, <3>2
    <3> QED
      BY Zenon, <3>1, <3>2, <3>3
  <2> QED
    BY <2>1, <2>2
<1>16. WellFormed(d)
  BY Zenon, <1>4, <1>10, <1>11, <1>12, <1>13, <1>14, <1>15 DEF WellFormed
<1>17. \A h \in DOMAIN d.map :
          \/ h \in DOMAIN cache.map /\ d.map[h] = cache.map[h]
          \/ \E r \in Restored : /\ HashOf[r.key] = h
                                 /\ d.map[h].key = r.key
                                 /\ d.map[h].entry = RestoredEntry(r)
  <2> TAKE h \in DOMAIN d.map
  <2>1. CASE h \in RestoredHashes
    <3>1. PICK r \in Restored : h = HashOf[r.key]
      BY Zenon, <1>7, <2>1
    <3> QED
      BY Zenon, <1>5, <3>1
  <2> QED
    BY <1>4, <2>1
<1> QED
  BY <1>16, <1>17 DEF d

-----------------------------------------------------------------------------
(* Snapshot *)

\* The row written from a faithful entry is well typed and faithful.
LEMMA RowFaithful ==
    ASSUME clock \in Nat, policy.stale \in Nat,
           NEW pos \in Nat, NEW k \in Keys, NEW e \in Entry, FaithfulEntry(k, e), NEW r,
           r = [pos |-> pos, key |-> k, kind |-> e.kind, expiry |-> Expiry(e),
                staleUntil |-> StaleUntil(e), epoch |-> e.epoch, wire |-> e.wire]
    PROVE  r.pos = pos /\ r.key = k /\ r \in Row /\ FaithfulRow(r)
<1>1. /\ e.stored \in Nat /\ e.ttl \in Nat /\ e.wire \in Wire /\ e.epoch \in Lists
      /\ e.kind \in {"pos", "neg"} /\ e.deadline \in Nat \cup {NoDeadline}
  BY Zenon DEF Entry
<1>2. e.wire.born \in Nat /\ e.wire.life \in Nat
  BY Zenon, <1>1 DEF Wire
<1>3. Age(e) \in Nat /\ Age(e) = IF clock >= e.stored THEN clock - e.stored ELSE 0
  BY <1>1 DEF Age, Monus
<1>4. Expiry(e) \in Nat /\ StaleUntil(e) \in Nat
  BY <1>1, <1>3, CacheAssumption DEF Expiry, StaleUntil, Monus
<1>5. Expiry(e) <= e.wire.born + e.wire.life \/ Expiry(e) <= clock
  <2>1. CASE Age(e) < e.ttl
    BY SMTT(30), <1>1, <1>2, <1>3, <2>1 DEF Expiry, Monus, FaithfulEntry, NoDeadline
  <2>2. CASE Age(e) >= e.ttl
    BY <1>1, <1>3, <2>2 DEF Expiry, Monus
  <2> QED
    BY <1>1, <1>3, <2>1, <2>2
<1>6. /\ r.pos = pos /\ r.key = k /\ r.epoch = e.epoch /\ r.wire = e.wire
      /\ r.expiry = Expiry(e)
  BY Zenon
<1>7. r \in Row
  BY <1>1, <1>4 DEF Row
<1>8. FaithfulRow(r)
  BY Zenon, <1>5, <1>6 DEF FaithfulRow, FaithfulEntry
<1> QED
  BY Zenon, <1>6, <1>7, <1>8

\* The rows of a snapshot are finitely many, well typed, told apart by position
\* and by hash, and true to the entries they were written from.
LEMMA SnapshotFaithful ==
    ASSUME TypeOK, WellFormed(cache), Faithful(cache)
    PROVE  /\ Snapshot \subseteq Row
           /\ IsFiniteSet(Snapshot)
           /\ \A r, p \in Snapshot : r.pos = p.pos \/ HashOf[r.key] = HashOf[p.key] => r = p
           /\ \A r \in Snapshot : FaithfulRow(r)
<1> DEFINE D == {s \in DOMAIN cache.recency : Carried(s)}
           T == {s \in DOMAIN cache.recency : Carried(s) /\ RankFromMru(s) < SnapRows}
           slot(s) == cache.map[cache.recency[s]]
<1>1. IsFiniteSet(D) /\ D \subseteq Int /\ T \subseteq D
  <2>1. D \subseteq 1 .. cache.seq /\ cache.seq \in Int
    BY DEF WellFormed
  <2> QED
    BY <2>1, FS_Interval, FS_Subset
<1>2. \A s \in D : RankFromMru(s) = Cardinality({u \in D : u > s})
  <2> TAKE s \in D
  <2>1. {u \in D : u > s} = {t \in DOMAIN cache.recency : t > s /\ Carried(t)}
    OBVIOUS
  <2> QED
    BY <2>1 DEF RankFromMru
<1>3. \A s \in D : RankFromMru(s) \in Nat
  <2> TAKE s \in D
  <2>1. IsFiniteSet({u \in D : u > s})
    BY <1>1, FS_Subset, {u \in D : u > s} \in SUBSET D
  <2> QED
    BY <1>2, <2>1, FS_CardinalityType
<1>4. \A s, t \in D : RankFromMru(s) = RankFromMru(t) => s = t
  <2> HIDE DEF D
  <2>1. ASSUME NEW s \in D, NEW t \in D, s < t
        PROVE  RankFromMru(t) < RankFromMru(s)
    <3>1. Cardinality({u \in D : u > t}) < Cardinality({u \in D : u > s})
      BY ZenonT(30), <1>1, <2>1, RankDecreases
    <3> QED
      BY <1>2, <3>1
  <2>2. \A s, t \in D : s # t => s < t \/ t < s
    BY <1>1
  <2> QED
    BY <1>3, <2>1, <2>2
<1>5. ASSUME NEW s \in D
      PROVE  /\ cache.recency[s] \in DOMAIN cache.map /\ slot(s).seq = s
             /\ slot(s) \in Slot
             /\ HashOf[slot(s).key] = cache.recency[s]
             /\ FaithfulEntry(slot(s).key, slot(s).entry)
  BY Zenon DEF WellFormed, Faithful
<1>6. ASSUME NEW s \in D
      PROVE  /\ RowOf(s).pos = RankFromMru(s) /\ RowOf(s).key = slot(s).key
             /\ RowOf(s) \in Row /\ FaithfulRow(RowOf(s))
  <2> DEFINE e == slot(s).entry
  <2>1. e \in Entry /\ slot(s).key \in Keys
    BY Zenon, <1>5 DEF Slot
  <2>2. clock \in Nat /\ policy.stale \in Nat
    BY DEF TypeOK, Policy
  <2>3. RowOf(s) = [pos |-> RankFromMru(s), key |-> slot(s).key, kind |-> e.kind,
                    expiry |-> Expiry(e), staleUntil |-> StaleUntil(e),
                    epoch |-> e.epoch, wire |-> e.wire]
    BY Zenon DEF RowOf
  <2>4. FaithfulEntry(slot(s).key, e) /\ RankFromMru(s) \in Nat
    BY Zenon, <1>3, <1>5
  <2> HIDE DEF e, slot, D, T
  <2> QED
    BY <2>1, <2>2, <2>3, <2>4, RowFaithful
<1>7. Snapshot = {RowOf(s) : s \in T}
  BY DEF Snapshot
<1> DEFINE f == [s \in T |-> RowOf(s)]
<1>8. IsFiniteSet(Snapshot)
  <2>1. f \in Surjection(T, Snapshot)
    BY <1>7 DEF Surjection
  <2>2. IsFiniteSet(T)
    BY <1>1, FS_Subset
  <2> QED
    BY <2>1, <2>2, FS_Surjection
<1>9. \A r \in Snapshot : \E s \in D : r = RowOf(s)
  BY <1>1, <1>7
<1> HIDE DEF D, T
<1>10. ASSUME NEW r \in Snapshot, NEW p \in Snapshot,
              r.pos = p.pos \/ HashOf[r.key] = HashOf[p.key]
       PROVE  r = p
  <2>1. PICK s \in D : r = RowOf(s)
    BY <1>9
  <2>2. PICK t \in D : p = RowOf(t)
    BY <1>9
  <2>3. CASE r.pos = p.pos
    BY <1>4, <1>6, <2>1, <2>2, <2>3
  <2>4. CASE HashOf[r.key] = HashOf[p.key]
    <3>1. cache.recency[s] = cache.recency[t]
      BY Zenon, <1>5, <1>6, <2>1, <2>2, <2>4
    <3>2. s = t
      BY <1>5, <3>1
    <3> QED
      BY Zenon, <2>1, <2>2, <3>2
  <2> QED
    BY <1>10, <2>3, <2>4
<1> QED
  BY Zenon, <1>6, <1>8, <1>9, <1>10

------------------------------------------------------------------------------
(* The steps *)

\* What a step that answers nothing and writes no row has to preserve.
LEMMA SilentStep ==
    ASSUME IInv,
           WellFormed(cache'), Cardinality(DOMAIN cache'.map) <= cap',
           Faithful(cache'), enforce' => Public(cache'), up' \/ DOMAIN cache'.map = {},
           clock' = clock, nand' = nand, served' = NoReply,
           list' \in Lists, policy' \in Policy, cap' \in Nat \ {0},
           enforce' \in BOOLEAN, up' \in BOOLEAN, panicked' \in BOOLEAN
    PROVE  IInv'
<1>1. TypeOK'
  BY Zenon DEF IInv, TypeOK, WellFormed
<1>2. WellFormed(cache)' /\ WithinCap' /\ (enforce => Public(cache))'
  BY Zenon DEF WellFormed, WithinCap, Public
<1>3. Faithful(cache)'
  BY Zenon DEF Faithful, FaithfulEntry
<1>4. RowsDistinct' /\ (\A r \in nand : FaithfulRow(r))'
  BY DEF IInv, RowsDistinct, FaithfulRow
<1>5. FaithfulReply'
  BY DEF FaithfulReply
<1> QED
  BY Zenon, <1>1, <1>2, <1>3, <1>4, <1>5 DEF IInv

\* A subset of a well-formed, bounded, faithful cache's slots.
LEMMA EvictStep ==
    ASSUME NEW c, WellFormed(c), Faithful(c), enforce => Public(c), NEW n \in Nat
    PROVE  LET d == EvictToCap(c, n)
           IN  /\ WellFormed(d) /\ Cardinality(DOMAIN d.map) <= n
               /\ Faithful(d) /\ (enforce => Public(d))
<1> DEFINE d == EvictToCap(c, n)
<1>1. /\ WellFormed(d) /\ Cardinality(DOMAIN d.map) <= n
      /\ \A h \in DOMAIN d.map : h \in DOMAIN c.map /\ d.map[h] = c.map[h]
  BY EvictKeeps
<1> HIDE DEF d
<1>2. Faithful(d) /\ (enforce => Public(d))
  BY <1>1 DEF Faithful, Public
<1> QED
  BY <1>1, <1>2 DEF d

\* insert: the positive and the negative put.
LEMMA InsertStep ==
    ASSUME IInv, NEW k \in Keys, NEW ttl \in Nat, NEW kind \in {"pos", "neg"},
           NEW ad \in BOOLEAN, NEW private \in BOOLEAN, ~(enforce /\ private)
    PROVE  LET d == Insert(k, ttl, kind, ad, private)
           IN  /\ WellFormed(d) /\ Cardinality(DOMAIN d.map) <= cap
               /\ Faithful(d) /\ (enforce => Public(d))
<1> DEFINE e == [wire |-> [q |-> k, born |-> clock, life |-> ttl, list |-> list,
                           ad |-> StripAd(ad), private |-> private],
                 stored |-> clock, ttl |-> ttl, kind |-> kind,
                 epoch |-> list, deadline |-> NoDeadline]
           c == Inserted(cache, k, e)
<1>1. clock \in Nat /\ list \in Lists /\ cap \in Nat
  BY Zenon DEF IInv, TypeOK
<1>2. e \in Entry
  BY Zenon, <1>1 DEF Entry, Wire, StripAd
<1>3. FaithfulEntry(k, e) /\ (enforce => ~e.wire.private)
  BY <1>1 DEF FaithfulEntry, StripAd
<1> HIDE DEF e
<1>4. WellFormed(c)
  BY Zenon, <1>2, InsertKeeps DEF IInv
<1>5. c.map = [g \in DOMAIN cache.map \cup {HashOf[k]} |->
                 IF g = HashOf[k] THEN [key |-> k, entry |-> e, seq |-> cache.seq + 1]
                                  ELSE cache.map[g]]
  BY Zenon DEF Inserted, Extended
<1>7. Insert(k, ttl, kind, ad, private) = EvictToCap(c, cap)
  BY DEF Insert, InsertEntry, Inserted, e
<1> HIDE DEF c
<1>6. Faithful(c) /\ (enforce => Public(c))
  <2>1. Faithful(cache) /\ (enforce => Public(cache))
    BY DEF IInv
  <2>2. DOMAIN c.map = DOMAIN cache.map \cup {HashOf[k]}
    BY <1>5
  <2>3. ASSUME NEW h \in DOMAIN c.map
        PROVE  /\ HashOf[c.map[h].key] = h
               /\ FaithfulEntry(c.map[h].key, c.map[h].entry)
               /\ enforce => ~c.map[h].entry.wire.private
    <3>1. CASE h = HashOf[k]
      <4>1. c.map[h].key = k /\ c.map[h].entry = e
        BY <1>5, <2>2, <3>1
      <4> QED
        BY <1>3, <3>1, <4>1
    <3>2. CASE h # HashOf[k]
      <4>1. h \in DOMAIN cache.map /\ c.map[h] = cache.map[h]
        BY <1>5, <2>2, <3>2
      <4> QED
        BY <2>1, <4>1 DEF Faithful, Public
    <3> QED
      BY <3>1, <3>2
  <2> QED
    BY <2>3, Zenon DEF Faithful, Public
<1> QED
  BY Zenon, <1>1, <1>4, <1>6, <1>7, EvictStep

\* The knobs of a fresh process.
LEMMA DefaultPolicyOK == DefaultPolicy \in Policy
BY DEF DefaultPolicy, Policy

\* The initial state satisfies the invariant.
LEMMA InitIInv == Init => IInv
<1> SUFFICES ASSUME Init PROVE IInv
  OBVIOUS
<1>1. WellFormed(cache) /\ DOMAIN cache.map = {}
  BY Zenon, EmptyKeeps DEF Init, EmptyCache
<1>2. DefaultPolicy \in Policy
  BY DefaultPolicyOK
<1>3. TypeOK
  <2>1. policy \in Policy /\ list \in Lists /\ served \in Reply \cup {NoReply}
    BY <1>2 DEF Init
  <2>2. clock \in Nat /\ cap \in Nat \ {0} /\ nand \subseteq Row
    BY DEF Init
  <2>3. enforce \in BOOLEAN /\ up \in BOOLEAN /\ panicked \in BOOLEAN
    BY Zenon DEF Init
  <2> QED
    BY <1>1, <2>1, <2>2, <2>3 DEF TypeOK, WellFormed
<1>4. WithinCap
  BY <1>1, FS_EmptySet DEF Init, WithinCap
<1>5. RowsDistinct /\ (\A r \in nand : FaithfulRow(r)) /\ FaithfulReply
  BY Zenon, FS_EmptySet DEF Init, RowsDistinct, FaithfulReply
<1> QED
  BY <1>1, <1>3, <1>4, <1>5 DEF IInv, Faithful, Public

\* get_hit_at: the only step that answers.
LEMMA LookupStep ==
    ASSUME IInv, NEW k \in Keys, Lookup(k)
    PROVE  IInv'
<1> DEFINE h == HashOf[k]
           slot == cache.map[h]
           e == slot.entry
<1>1. /\ clock' = clock /\ list' = list /\ policy' = policy /\ enforce' = enforce
      /\ up' = up /\ up /\ cap' = cap /\ nand' = nand /\ panicked' = panicked
  BY Zenon DEF Lookup
<1>2. TypeOK /\ WellFormed(cache) /\ Faithful(cache) /\ (enforce => Public(cache))
      /\ Cardinality(DOMAIN cache.map) <= cap
  BY DEF IInv, WithinCap
<1>3. CASE served' = NoReply /\ cache' = cache
  BY Zenon, <1>1, <1>2, <1>3, SilentStep DEF TypeOK
<1>4. CASE served' = NoReply /\ h \in DOMAIN cache.map /\ cache' = RemoveHash(cache, h)
  <2>1. /\ WellFormed(cache') /\ DOMAIN cache'.map \in SUBSET DOMAIN cache.map
        /\ \A g \in DOMAIN cache'.map : cache'.map[g] = cache.map[g]
    BY SMTT(30), <1>2, <1>4, RemoveKeeps
  <2>2. Faithful(cache') /\ (enforce => Public(cache'))
    BY Zenon, <1>2, <2>1 DEF Faithful, Public
  <2>3. IsFiniteSet(DOMAIN cache.map)
    BY <1>2, CacheAssumption, FS_Subset DEF WellFormed
  <2>4. Cardinality(DOMAIN cache'.map) <= cap
    <3>1. Cardinality(DOMAIN cache'.map) <= Cardinality(DOMAIN cache.map)
      BY Zenon, <2>1, <2>3, FS_Subset
    <3>2. IsFiniteSet(DOMAIN cache'.map)
      BY Zenon, <2>1, <2>3, FS_Subset
    <3>3. Cardinality(DOMAIN cache.map) \in Nat /\ Cardinality(DOMAIN cache'.map) \in Nat
      BY Zenon, <2>3, <3>2, FS_CardinalityType
    <3>4. cap \in Nat /\ Cardinality(DOMAIN cache.map) <= cap
      BY Zenon, <1>2 DEF TypeOK
    <3> QED
      BY <3>1, <3>3, <3>4
  <2> QED
    BY Zenon, <1>1, <1>2, <1>4, <2>1, <2>2, <2>4, SilentStep DEF TypeOK
<1>5. CASE /\ h \in DOMAIN cache.map /\ slot.key = k /\ e.epoch = list
           /\ cache' = Touch(cache, h)
           /\ served' = [key |-> k, wire |-> e.wire, kind |-> e.kind, fresh |-> IsFresh(e)]
  <2>1. /\ WellFormed(cache') /\ DOMAIN cache'.map = DOMAIN cache.map
        /\ \A g \in DOMAIN cache.map : /\ cache'.map[g].key = cache.map[g].key
                                       /\ cache'.map[g].entry = cache.map[g].entry
    BY Zenon, <1>2, <1>5, TouchKeeps
  <2>2. Faithful(cache)' /\ (enforce => Public(cache))' /\ WithinCap'
    <3>1. WithinCap'
      BY Zenon, <1>1, <1>2, <2>1 DEF WithinCap
    <3>2. (enforce => Public(cache))'
      BY Zenon, <1>1, <1>2, <2>1 DEF Public
    <3>3. ASSUME NEW g \in DOMAIN cache'.map
          PROVE  /\ HashOf[cache'.map[g].key] = g
                 /\ FaithfulEntry(cache.map[g].key, cache.map[g].entry)'
      <4>1. HashOf[cache.map[g].key] = g /\ FaithfulEntry(cache.map[g].key, cache.map[g].entry)
        BY Zenon, <1>2, <2>1 DEF Faithful
      <4>2. cache'.map[g].key = cache.map[g].key /\ cache'.map[g].entry = cache.map[g].entry
        BY Zenon, <2>1
      <4> QED
        BY Zenon, <1>1, <4>1, <4>2 DEF FaithfulEntry
    <3> QED
      BY Zenon, <3>1, <3>2, <3>3 DEF Faithful
  <2>3. slot \in Slot /\ FaithfulEntry(k, e) /\ (enforce => ~e.wire.private)
    <3>1. slot \in Slot
      BY Zenon, <1>2, <1>5 DEF WellFormed
    <3>2. FaithfulEntry(k, e)
      BY Zenon, <1>2, <1>5 DEF Faithful
    <3>3. enforce => ~e.wire.private
      BY Zenon, <1>2, <1>5 DEF Public
    <3> QED
      BY Zenon, <3>1, <3>2, <3>3
  <2>4. e \in Entry
    BY Zenon, <2>3 DEF Slot
  <2>5. served' \in Reply
    BY Zenon, <1>5, <2>4 DEF Reply, Entry, IsFresh
  <2>6. TypeOK'
    <3>1. (clock \in Nat /\ list \in Lists /\ policy \in Policy /\ cap \in Nat \ {0})'
      BY Zenon, <1>1, <1>2 DEF TypeOK
    <3>2. (enforce \in BOOLEAN /\ up \in BOOLEAN /\ panicked \in BOOLEAN /\ nand \subseteq Row)'
      BY Zenon, <1>1, <1>2 DEF TypeOK
    <3>3. (/\ cache.seq \in Nat
           /\ DOMAIN cache.map \subseteq Hashes /\ cache.map \in [DOMAIN cache.map -> Slot]
           /\ DOMAIN cache.recency \subseteq 1 .. cache.seq
           /\ cache.recency \in [DOMAIN cache.recency -> Hashes])'
      BY Zenon, <2>1 DEF WellFormed
    <3>4. (served \in Reply \cup {NoReply})'
      BY Zenon, <2>5
    <3> QED
      BY Zenon, <3>1, <3>2, <3>3, <3>4 DEF TypeOK
  <2>7. /\ e.stored \in Nat /\ e.ttl \in Nat /\ e.wire.born \in Nat /\ e.wire.life \in Nat
        /\ clock \in Nat
    BY Zenon, <1>2, <2>4 DEF Entry, Wire, TypeOK
  <2>8. IsFresh(e) => clock <= e.wire.born + e.wire.life
    <3> HIDE DEF e
    <3> QED
      BY <2>3, <2>7 DEF IsFresh, Age, Monus, FaithfulEntry
  <2>9. FaithfulReply'
    BY ZenonT(30), <1>1, <1>5, <2>3, <2>8 DEF FaithfulReply, FaithfulEntry
  <2>10. RowsDistinct' /\ (\A r \in nand : FaithfulRow(r))'
    BY Zenon, <1>1 DEF IInv, RowsDistinct, FaithfulRow
  <2> QED
    BY Zenon, <1>1, <2>1, <2>2, <2>6, <2>9, <2>10 DEF IInv, WellFormed
<1>6. \/ served' = NoReply /\ cache' = cache
      \/ /\ h \in DOMAIN cache.map
         /\ served' = NoReply /\ cache' = RemoveHash(cache, h)
      \/ /\ h \in DOMAIN cache.map /\ Matches(slot, k) /\ e.epoch = list
         /\ cache' = Touch(cache, h)
         /\ served' = [key |-> k, wire |-> e.wire, kind |-> e.kind, fresh |-> IsFresh(e)]
  BY Zenon DEF Lookup
<1>7. Matches(slot, k) => slot.key = k
  BY Zenon DEF Matches
<1> QED
  BY ZenonT(30), <1>3, <1>4, <1>5, <1>6, <1>7

\* put and put_negative_from_response.
LEMMA PutStep ==
    ASSUME IInv, NEW k \in Keys, NEW a \in Answers, Put(k, a)
    PROVE  IInv'
<1>1. /\ clock' = clock /\ list' = list /\ policy' = policy /\ enforce' = enforce
      /\ up' = up /\ up /\ cap' = cap /\ nand' = nand /\ panicked' = panicked
      /\ served' = NoReply /\ ~(enforce /\ a.private)
  BY DEF Put
<1>2. TypeOK /\ WellFormed(cache) /\ Faithful(cache) /\ (enforce => Public(cache))
      /\ Cardinality(DOMAIN cache.map) <= cap
  BY DEF IInv, WithinCap
<1>3. a.ttl \in Nat /\ a.ad \in BOOLEAN /\ a.private \in BOOLEAN
  BY Zenon, CacheAssumption
<1>4. PositiveTtl(a) \in Nat
  BY Zenon, <1>2, <1>3, CacheAssumption DEF PositiveTtl, ClampPositive, MinOf, MaxOf, TypeOK, Policy
<1>5. CASE cache' = cache
  BY Zenon, <1>1, <1>2, <1>5, SilentStep DEF TypeOK
<1>6. CASE cache' = Insert(k, PositiveTtl(a), "pos", a.ad, a.private)
  <2>1. /\ WellFormed(cache') /\ Cardinality(DOMAIN cache'.map) <= cap
        /\ Faithful(cache') /\ (enforce => Public(cache'))
    BY <1>1, <1>3, <1>4, <1>6, InsertStep
  <2> QED
    BY SMTT(30), <1>1, <1>2, <2>1, SilentStep DEF TypeOK
<1> QED
  BY <1>5, <1>6 DEF Put

\* put_negative_from_response: the insert of a denial, or nothing.
LEMMA PutNegativeStep ==
    ASSUME IInv, NEW k \in Keys, NEW soa \in Denials, NEW ad \in BOOLEAN,
           PutNegative(k, soa, ad)
    PROVE  IInv'
<1>1. /\ clock' = clock /\ list' = list /\ policy' = policy /\ enforce' = enforce
      /\ up' = up /\ up /\ cap' = cap /\ nand' = nand /\ panicked' = panicked
      /\ served' = NoReply
      /\ cache' = Insert(k, NegativeTtl(soa), "neg", ad, FALSE)
  BY DEF PutNegative
<1>2. NegativeTtl(soa) \in Nat
  <2>1. soa \in Int /\ NegCeiling \in Nat /\ DefaultNegTtl \in Nat
    BY CacheAssumption
  <2> QED
    BY <2>1 DEF NegativeTtl, MinOf, MaxOf
<1>3. /\ WellFormed(cache') /\ Cardinality(DOMAIN cache'.map) <= cap
      /\ Faithful(cache') /\ (enforce => Public(cache'))
  BY Zenon, <1>1, <1>2, InsertStep
<1> QED
  BY Zenon, <1>1, <1>3, SilentStep DEF IInv, TypeOK

\* The setters that only change a knob, and a blocklist re-arm.
LEMMA KnobStep ==
    ASSUME IInv, policy' \in Policy, list' \in Lists, served' = NoReply,
           UNCHANGED <<clock, enforce, up, cap, cache, nand, panicked>>
    PROVE  IInv'
BY Zenon, SilentStep DEF IInv, TypeOK, WithinCap

\* Every live setter of the cache policy.
LEMMA SetterStep ==
    ASSUME IInv,
           \/ \E m \in StaleModes : SetServeStale(m)
           \/ \E n \in Floors : SetTtlFloor(n)
           \/ \E n \in Ceilings : SetTtlCeiling(n)
           \/ \E on \in BOOLEAN : SetHonorZeroTtl(on)
           \/ \E on \in BOOLEAN : SetCacheRr(on)
           \/ \E T \in TypeSets : SetCacheableTypes(T)
    PROVE  IInv'
<1>1. policy \in Policy /\ list \in Lists
  BY Zenon DEF IInv, TypeOK
<1>2. policy' \in Policy
  <2>1. ASSUME NEW m \in StaleModes, SetServeStale(m) PROVE policy' \in Policy
    BY <1>1, <2>1, CacheAssumption DEF SetServeStale, Pushed, Policy
  <2>2. ASSUME NEW n \in Floors, SetTtlFloor(n) PROVE policy' \in Policy
    BY <1>1, <2>2, CacheAssumption DEF SetTtlFloor, Pushed, Policy
  <2>3. ASSUME NEW n \in Ceilings, SetTtlCeiling(n) PROVE policy' \in Policy
    BY <1>1, <2>3, CacheAssumption DEF SetTtlCeiling, Pushed, Policy
  <2>4. ASSUME NEW on \in BOOLEAN, SetHonorZeroTtl(on) PROVE policy' \in Policy
    BY <1>1, <2>4 DEF SetHonorZeroTtl, Pushed, Policy
  <2>5. ASSUME NEW on \in BOOLEAN, SetCacheRr(on) PROVE policy' \in Policy
    BY <1>1, <2>5 DEF SetCacheRr, Pushed, Policy
  <2>6. ASSUME NEW T \in TypeSets, SetCacheableTypes(T) PROVE policy' \in Policy
    <3>1. T \subseteq AllTypes
      BY DEF AllTypes
    <3> QED
      BY <1>1, <2>6, <3>1 DEF SetCacheableTypes, Pushed, Policy
  <2> QED
    BY <2>1, <2>2, <2>3, <2>4, <2>5, <2>6
<1>3. served' = NoReply /\ UNCHANGED <<clock, list, enforce, up, cap, cache, nand, panicked>>
  BY DEF SetServeStale, SetTtlFloor, SetTtlCeiling, SetHonorZeroTtl, SetCacheRr,
         SetCacheableTypes, Pushed
<1> QED
  BY Zenon, <1>1, <1>2, <1>3, KnobStep

\* set_cache_cap: a new cap, and evictions down to it.
LEMMA SetCacheCapStep ==
    ASSUME IInv, NEW n \in Caps, SetCacheCap(n)
    PROVE  IInv'
<1>1. n \in Nat /\ MaxOf(n, 1) \in Nat \ {0}
  BY CacheAssumption DEF MaxOf
<1>2. policy' \in Policy
  BY Zenon, <1>1 DEF IInv, TypeOK, SetCacheCap, Policy
<1>3. CASE up
  <2>1. /\ WellFormed(cache') /\ Cardinality(DOMAIN cache'.map) <= cap'
        /\ Faithful(cache') /\ (enforce => Public(cache')) /\ cap' \in Nat \ {0}
    BY <1>1, <1>3, EvictStep DEF IInv, SetCacheCap
  <2> QED
    BY <1>2, <2>1, SilentStep DEF IInv, TypeOK, SetCacheCap
<1>4. CASE ~up
  BY Zenon, <1>2, <1>4, KnobStep DEF IInv, TypeOK, SetCacheCap
<1> QED
  BY <1>3, <1>4

\* Steps that empty the cache: arming, configure, shutdown, process death.
LEMMA EmptyingStep ==
    ASSUME IInv, cache'.map = EmptyFcn, cache'.recency = EmptyFcn, cache'.seq \in Nat,
           clock' = clock, nand' = nand, served' = NoReply,
           list' \in Lists, policy' \in Policy, cap' \in Nat \ {0},
           enforce' \in BOOLEAN, up' \in BOOLEAN, panicked' \in BOOLEAN
    PROVE  IInv'
<1>1. WellFormed(cache') /\ DOMAIN cache'.map = {}
  BY Zenon, EmptyKeeps
<1>2. Faithful(cache') /\ Public(cache') /\ Cardinality(DOMAIN cache'.map) <= cap'
  BY <1>1, FS_EmptySet DEF Faithful, Public
<1> QED
  BY <1>1, <1>2, SilentStep

\* configure, shutdown, process death and rebind arming.
LEMMA ControlStep ==
    ASSUME IInv,
           \/ \E on \in BOOLEAN : SetRebindEnforce(on)
           \/ Configure \/ Shutdown \/ Kill
    PROVE  IInv'
<1>1. TypeOK /\ DefaultPolicy \in Policy
  BY Zenon, DefaultPolicyOK DEF IInv
<1>2. CASE Configure
  <2>1. cap' \in Nat \ {0}
    BY <1>1, <1>2, CacheAssumption DEF Configure, TypeOK, Policy, MaxOf
  <2> QED
    BY Zenon, <1>1, <1>2, <2>1, EmptyingStep DEF Configure, TypeOK, EmptyCache
<1>3. CASE Shutdown
  BY Zenon, <1>1, <1>3, EmptyingStep DEF Shutdown, TypeOK, EmptyCache
<1>4. CASE Kill
  BY Zenon, <1>1, <1>4, EmptyingStep DEF Kill, TypeOK, EmptyCache
<1>5. ASSUME NEW on \in BOOLEAN, SetRebindEnforce(on) PROVE IInv'
  <2>1. CASE on /\ ~enforce /\ up
    BY <1>1, <1>5, <2>1, EmptyingStep DEF SetRebindEnforce, TypeOK, Clear
  <2>2. CASE cache' = cache /\ (enforce' => enforce)
    BY ZenonT(30), <1>1, <1>5, <2>2, SilentStep DEF SetRebindEnforce, TypeOK, IInv, WithinCap
  <2>3. CASE on /\ ~enforce /\ ~up
    <3>1. cache' = cache /\ DOMAIN cache.map = {}
      BY <1>5, <2>3 DEF SetRebindEnforce, IInv
    <3>2. Public(cache')
      BY <3>1 DEF Public
    <3> QED
      BY Zenon, <1>1, <1>5, <3>1, <3>2, SilentStep DEF SetRebindEnforce, TypeOK, IInv, WithinCap
  <2> QED
    BY Zenon, <1>5, <2>1, <2>2, <2>3 DEF SetRebindEnforce
<1> QED
  BY <1>2, <1>3, <1>4, <1>5

\* persist_cache: the snapshot replaces the rows on disk.
LEMMA PersistStep ==
    ASSUME IInv, PersistCache
    PROVE  IInv'
<1>1. /\ nand' = Snapshot /\ served' = NoReply
      /\ UNCHANGED <<clock, list, policy, enforce, up, cap, cache, panicked>>
  BY Zenon DEF PersistCache
<1>2. /\ Snapshot \subseteq Row /\ IsFiniteSet(Snapshot)
      /\ \A r, p \in Snapshot : r.pos = p.pos \/ HashOf[r.key] = HashOf[p.key] => r = p
      /\ \A r \in Snapshot : FaithfulRow(r)
  BY Zenon, SnapshotFaithful DEF IInv
<1>3. TypeOK'
  BY Zenon, <1>1, <1>2 DEF IInv, TypeOK
<1>4. RowsDistinct' /\ (\A r \in nand : FaithfulRow(r))'
  BY <1>1, <1>2 DEF RowsDistinct, FaithfulRow
<1>5. WellFormed(cache)' /\ WithinCap' /\ Faithful(cache)' /\ (enforce => Public(cache))'
      /\ (up \/ DOMAIN cache.map = {})'
  BY ZenonT(30), <1>1 DEF IInv, WellFormed, WithinCap, Faithful, FaithfulEntry, Public
<1> QED
  BY Zenon, <1>1, <1>3, <1>4, <1>5 DEF IInv, FaithfulReply

\* rehydrate_cache: rows are merged in, then evicted down to the cap.
LEMMA RehydrateStep ==
    ASSUME IInv, RehydrateCache
    PROVE  IInv'
<1>1. /\ cache' = EvictToCap(Merged, cap) /\ served' = NoReply /\ up
      /\ panicked' \in BOOLEAN
      /\ UNCHANGED <<clock, list, policy, enforce, up, cap, nand>>
  BY DEF RehydrateCache, RestoreCache
<1>2. TypeOK /\ WellFormed(cache) /\ Faithful(cache) /\ (enforce => Public(cache))
      /\ RowsDistinct /\ \A r \in nand : FaithfulRow(r)
  BY Zenon DEF IInv
<1>3. /\ WellFormed(Merged)
      /\ \A h \in DOMAIN Merged.map :
           \/ h \in DOMAIN cache.map /\ Merged.map[h] = cache.map[h]
           \/ \E r \in Restored : /\ HashOf[r.key] = h
                                  /\ Merged.map[h].key = r.key
                                  /\ Merged.map[h].entry = RestoredEntry(r)
  BY <1>2, MergedKeeps
<1>4. \A r \in Restored : /\ FaithfulEntry(r.key, RestoredEntry(r))
                          /\ enforce => ~RestoredEntry(r).wire.private
  BY ZenonT(30), <1>2, RestoredFaithful
<1>5. Faithful(Merged) /\ (enforce => Public(Merged))
  BY <1>2, <1>3, <1>4 DEF Faithful, Public
<1>6. /\ WellFormed(cache') /\ Cardinality(DOMAIN cache'.map) <= cap
      /\ Faithful(cache') /\ (enforce => Public(cache'))
  BY Zenon, <1>1, <1>2, <1>3, <1>5, EvictStep DEF TypeOK
<1> QED
  BY Zenon, <1>1, <1>2, <1>6, SilentStep DEF TypeOK

\* Time passes: what was not too old stays so.
LEMMA TickStep ==
    ASSUME IInv, Tick
    PROVE  IInv'
<1>1. /\ clock \in Nat /\ clock' = clock + 1 /\ served' = NoReply
      /\ UNCHANGED <<list, policy, enforce, up, cap, cache, nand, panicked>>
  BY Zenon DEF IInv, TypeOK, Tick
<1>2. TypeOK'
  <2>1. (clock \in Nat)' /\ TypeOK
    BY <1>1 DEF IInv
  <2>2. (served \in Reply \cup {NoReply})'
    BY ZenonT(30), <1>1
  <2> QED
    BY Zenon, <1>1, <2>1, <2>2 DEF TypeOK
<1>3. WellFormed(cache)' /\ WithinCap' /\ (enforce => Public(cache))'
      /\ (up \/ DOMAIN cache.map = {})'
  BY Zenon, <1>1 DEF IInv, WellFormed, WithinCap, Public
<1>4. Faithful(cache)'
  <2>1. WellFormed(cache) /\ Faithful(cache)
    BY DEF IInv
  <2>2. ASSUME NEW h \in DOMAIN cache'.map
        PROVE  /\ HashOf[cache'.map[h].key] = h
               /\ FaithfulEntry(cache.map[h].key, cache.map[h].entry)'
    <3>1. cache' = cache
      BY <1>1
    <3>2. PICK q, e : q = cache.map[h].key /\ e = cache.map[h].entry
      BY Zenon
    <3>3. e.stored \in Nat /\ FaithfulEntry(q, e) /\ HashOf[q] = h
      <4>1. cache.map[h] \in Slot
        BY Zenon, <2>1, <3>1 DEF WellFormed
      <4>2. e \in Entry
        BY <3>2, <4>1 DEF Slot
      <4>3. e.stored \in Nat
        BY Zenon, <4>2 DEF Entry
      <4> QED
        BY Zenon, <2>1, <3>1, <3>2, <4>3 DEF Faithful
    <3>4. FaithfulEntry(q, e)'
      <4>1. e.stored <= clock
        BY Zenon, <3>3 DEF FaithfulEntry
      <4>2. e.stored <= clock'
        BY <1>1, <3>3, <4>1
      <4> QED
        BY Zenon, <3>3, <4>2 DEF FaithfulEntry
    <3> QED
      BY Zenon, <3>1, <3>2, <3>3, <3>4 DEF FaithfulEntry
  <2> QED
    BY <2>2, Zenon DEF Faithful
<1>5. RowsDistinct' /\ (\A r \in nand : FaithfulRow(r))'
  <2>1. /\ \A r \in nand : r.expiry \in Nat
        /\ RowsDistinct
        /\ \A r \in nand : FaithfulRow(r)
    BY Zenon DEF IInv, TypeOK, Row
  <2>2. RowsDistinct'
    BY Zenon, <1>1, <2>1 DEF RowsDistinct
  <2>3. ASSUME NEW r \in nand PROVE FaithfulRow(r)'
    <3>1. r.expiry \in Nat /\ FaithfulRow(r)
      BY <2>1
    <3> QED
      BY <1>1, <3>1 DEF FaithfulRow
  <2> QED
    BY Zenon, <1>1, <2>2, <2>3
<1> QED
  BY Zenon, <1>1, <1>2, <1>3, <1>4, <1>5 DEF IInv, FaithfulReply

\* Every step keeps the invariant.
LEMMA NextIInv == IInv /\ [Next]_vars => IInv'
<1> SUFFICES ASSUME IInv, [Next]_vars PROVE IInv'
  OBVIOUS
<1>1. CASE \E k \in Keys : Lookup(k)
  BY <1>1, LookupStep
<1>2. CASE \E k \in Keys, a \in Answers : Put(k, a)
  BY <1>2, PutStep
<1>3. CASE \E k \in Keys, soa \in Denials, ad \in BOOLEAN : PutNegative(k, soa, ad)
  BY <1>3, PutNegativeStep
<1>4. CASE \/ \E m \in StaleModes : SetServeStale(m)
           \/ \E n \in Floors : SetTtlFloor(n)
           \/ \E n \in Ceilings : SetTtlCeiling(n)
           \/ \E on \in BOOLEAN : SetHonorZeroTtl(on)
           \/ \E on \in BOOLEAN : SetCacheRr(on)
           \/ \E T \in TypeSets : SetCacheableTypes(T)
  BY <1>4, SetterStep
<1>5. CASE \E n \in Caps : SetCacheCap(n)
  BY <1>5, SetCacheCapStep
<1>6. CASE \/ \E on \in BOOLEAN : SetRebindEnforce(on)
           \/ Configure \/ Shutdown \/ Kill
  BY <1>6, ControlStep
<1>7. CASE PersistCache
  BY <1>7, PersistStep
<1>8. CASE RehydrateCache
  BY <1>8, RehydrateStep
<1>9. CASE \E l \in Lists : Rearm(l)
  <2>1. policy \in Policy
    BY DEF IInv, TypeOK
  <2>2. PICK l \in Lists : Rearm(l)
    BY <1>9
  <2>3. /\ list' \in Lists /\ served' = NoReply /\ policy' = policy
        /\ UNCHANGED <<clock, enforce, up, cap, cache, nand, panicked>>
    BY Zenon, <2>2 DEF Rearm
  <2> QED
    BY Zenon, <2>1, <2>3, KnobStep
<1>10. CASE Tick
  BY <1>10, TickStep
<1>11. CASE UNCHANGED vars
  <2>1. UNCHANGED <<clock, list, policy, enforce, up, cap, cache, nand, served, panicked>>
    BY <1>11 DEF vars
  <2>2. TypeOK' /\ WithinCap' /\ (up \/ DOMAIN cache.map = {})'
    BY Zenon, <2>1 DEF IInv, TypeOK, WithinCap
  <2>3. WellFormed(cache)' /\ Faithful(cache)' /\ (enforce => Public(cache))'
    BY Zenon, <2>1 DEF IInv, WellFormed, Faithful, FaithfulEntry, Public
  <2>4. RowsDistinct' /\ (\A r \in nand : FaithfulRow(r))' /\ FaithfulReply'
    BY Zenon, <2>1 DEF IInv, RowsDistinct, FaithfulRow, FaithfulReply
  <2> QED
    BY Zenon, <2>2, <2>3, <2>4 DEF IInv
<1> QED
  BY Zenon, <1>1, <1>2, <1>3, <1>4, <1>5, <1>6, <1>7, <1>8, <1>9, <1>10, <1>11 DEF Next

-----------------------------------------------------------------------------
(* Theorems *)

\* The inductive invariant holds in every reachable state of the cache.
THEOREM CacheInvariant == Spec => []IInv
BY InitIInv, NextIInv, PTL DEF Spec

\* Every entry, row and reply the cache code builds is well formed.
THEOREM CacheTypeCorrect == Spec => []TypeOK
<1>1. IInv => TypeOK
  BY DEF IInv
<1> QED
  BY <1>1, CacheInvariant, PTL

\* insert_entry, touch, remove_hash, evict_to_cap, clear and restore_with never
\* leave the hash map and the recency index in disagreement.
THEOREM IndexAgrees == Spec => []RecencyIndexesMap
<1>1. IInv => RecencyIndexesMap
  BY Zenon DEF IInv, WellFormed, RecencyIndexesMap
<1> QED
  BY <1>1, CacheInvariant, PTL

\* The cache never outgrows its cap, whatever the cap, the collisions and the
\* snapshots restored.
THEOREM CacheBounded == Spec => []WithinCap
<1>1. IInv => WithinCap
  BY Zenon DEF IInv
<1> QED
  BY <1>1, CacheInvariant, PTL

\* A fresh reply is never older than the lifetime its answer was given, however
\* often it went through the durable snapshot.
THEOREM NeverRenewed == Spec => []FreshWithinTtl
<1>1. IInv => FreshWithinTtl
  BY DEF IInv, FaithfulReply, FreshWithinTtl
<1> QED
  BY <1>1, CacheInvariant, PTL

\* What get hands out answers the question asked, not one with the same hash.
THEOREM RepliesAnswerTheQuestion == Spec => []NeverAnotherName
<1>1. IInv => NeverAnotherName
  BY Zenon DEF IInv, FaithfulReply, NeverAnotherName
<1> QED
  BY <1>1, CacheInvariant, PTL

\* A reply was stored under the blocklist in force, across re-arms and restores.
THEOREM RepliesUnderLiveList == Spec => []ServedUnderLiveList
<1>1. IInv => ServedUnderLiveList
  BY Zenon DEF IInv, FaithfulReply, ServedUnderLiveList
<1> QED
  BY <1>1, CacheInvariant, PTL

\* No reply carries the upstream's AD flag.
THEOREM RepliesUnauthenticated == Spec => []NoAuthenticatedData
<1>1. IInv => NoAuthenticatedData
  BY Zenon DEF IInv, FaithfulReply, NoAuthenticatedData
<1> QED
  BY <1>1, CacheInvariant, PTL

\* Under enforcement no reply is a private address, whatever was cached before
\* the gate was armed and whatever the durable rows hold.
THEOREM RepliesPublicUnderEnforce == Spec => []NoPrivateUnderEnforce
<1>1. IInv => NoPrivateUnderEnforce
  BY Zenon DEF IInv, FaithfulReply, NoPrivateUnderEnforce
<1> QED
  BY <1>1, CacheInvariant, PTL

\* Only get hands out a reply, and it touches the entry it answers from.
LEMMA ServedStep == IInv /\ ServedIsYoungest /\ [Next]_vars => ServedIsYoungest'
<1> SUFFICES ASSUME IInv, ServedIsYoungest, [Next]_vars, served' # NoReply
             PROVE  LET h == HashOf[served'.key]
                    IN  h \in DOMAIN cache'.map /\ cache'.map[h].seq = cache'.seq
  BY DEF ServedIsYoungest
<1>1. CASE UNCHANGED vars
  BY Zenon, <1>1 DEF ServedIsYoungest, vars
<1>2. CASE \E k \in Keys : Lookup(k)
  <2>1. PICK k \in Keys : Lookup(k)
    BY <1>2
  <2> DEFINE h == HashOf[k]
  <2>2. /\ h \in DOMAIN cache.map /\ cache' = Touch(cache, h)
        /\ served' = [key |-> k, wire |-> cache.map[h].entry.wire,
                      kind |-> cache.map[h].entry.kind, fresh |-> IsFresh(cache.map[h].entry)]
    BY Zenon, <2>1 DEF Lookup
  <2>3. cache.map \in [DOMAIN cache.map -> Slot]
    BY DEF IInv, WellFormed
  <2>4. DOMAIN cache'.map = DOMAIN cache.map /\ cache'.map[h].seq = cache'.seq
    BY <2>2, <2>3 DEF Touch, Slot
  <2> QED
    BY Zenon, <2>2, <2>4
<1>3. CASE Next /\ ~\E k \in Keys : Lookup(k)
  <2>1. served' = NoReply
    BY Zenon, <1>3 DEF Next, Put, PutNegative, SetServeStale, SetTtlFloor, SetTtlCeiling,
       SetHonorZeroTtl, SetCacheableTypes, SetCacheRr, Pushed, SetCacheCap,
       SetRebindEnforce, Configure, Shutdown, Kill, PersistCache, RehydrateCache,
       Rearm, Tick
  <2> QED
    BY <2>1
<1> QED
  BY Zenon, <1>1, <1>2, <1>3

\* Whatever insert_entry evicts, the youngest entry stays beside the new one
\* when there is room for two.
LEMMA InsertSparesYoungest ==
    ASSUME NEW c, WellFormed(c), NEW k \in Keys, NEW e, cap \in Nat, cap > 1,
           NEW h \in DOMAIN c.map, c.map[h].seq = c.seq
    PROVE  h \in DOMAIN InsertEntry(c, k, e).map
<1> DEFINE g == HashOf[k]
           n == c.seq + 1
           recency == Extended(RecencyWithout(c, g), n, g)
           keep == {s \in DOMAIN recency :
                      Cardinality({t \in DOMAIN recency : t > s}) < cap}
<1>1. DOMAIN InsertEntry(c, k, e).map = {recency[s] : s \in keep}
  BY ZenonT(30) DEF InsertEntry, EvictToCap, Restricted
<1>2. /\ c.seq \in Nat /\ c.seq \in DOMAIN c.recency /\ c.recency[c.seq] = h
      /\ DOMAIN c.recency \subseteq 1 .. c.seq
  BY ZenonT(30) DEF WellFormed
<1>3. /\ DOMAIN recency = {s \in DOMAIN c.recency : c.recency[s] # g} \cup {n}
      /\ recency[n] = g
      /\ \A s \in DOMAIN c.recency : c.recency[s] # g /\ s # n => recency[s] = c.recency[s]
  BY ZenonT(30) DEF Extended, RecencyWithout, Restricted
<1> HIDE DEF recency
<1>4. CASE h = g
  <2>1. {t \in DOMAIN recency : t > n} = {}
    <3>1. ASSUME NEW t \in DOMAIN recency PROVE ~(t > n)
      <4>1. t \in 1 .. c.seq \/ t = n
        BY Zenon, <1>2, <1>3
      <4> QED
        BY <1>2, <4>1
    <3> QED
      BY Zenon, <3>1
  <2>2. Cardinality({t \in DOMAIN recency : t > n}) = 0
    BY ZenonT(30), <2>1, FS_EmptySet
  <2>3. n \in DOMAIN recency
    BY <1>3
  <2>4. n \in keep
    BY <2>2, <2>3
  <2> QED
    BY Zenon, <1>1, <1>3, <1>4, <2>4
<1>5. CASE h # g
  <2>1. c.seq \in DOMAIN recency /\ recency[c.seq] = h
    BY <1>2, <1>3, <1>5
  <2>2. {t \in DOMAIN recency : t > c.seq} = {n}
    <3>1. ASSUME NEW t \in DOMAIN recency PROVE t > c.seq <=> t = n
      <4>1. t \in 1 .. c.seq \/ t = n
        BY Zenon, <1>2, <1>3
      <4> QED
        BY <1>2, <4>1
    <3>2. n \in DOMAIN recency
      BY Zenon, <1>3
    <3> QED
      BY Zenon, <3>1, <3>2
  <2>3. c.seq \in keep
    BY Zenon, <2>1, <2>2, FS_Singleton
  <2> QED
    BY Zenon, <1>1, <2>1, <2>3
<1> QED
  BY SMTT(30), <1>4, <1>5

\* A put spares the entry that was served just before it: get has made it the
\* youngest, and evict_to_cap starts with the oldest.
THEOREM HitsProtect == Spec => RecentlyServedSurvives
<1> DEFINE Spared == served # NoReply /\ cap > 1 /\ HashOf[served.key] \notin DOMAIN cache'.map =>
              \A k \in Keys : /\ \A a \in Answers : ~Put(k, a)
                             /\ \A soa \in Denials, ad \in BOOLEAN : ~PutNegative(k, soa, ad)
<1>1. Init => ServedIsYoungest
  BY DEF Init, ServedIsYoungest
<1>2. IInv /\ ServedIsYoungest => Spared
  <2> SUFFICES ASSUME IInv, ServedIsYoungest, served # NoReply, cap > 1, NEW k \in Keys,
                      cache' # cache =>
                        \E ttl, kind, ad, private : cache' = Insert(k, ttl, kind, ad, private)
               PROVE  HashOf[served.key] \in DOMAIN cache'.map
    BY Zenon DEF Put, PutNegative
  <2>1. /\ HashOf[served.key] \in DOMAIN cache.map
        /\ cache.map[HashOf[served.key]].seq = cache.seq
    BY SMTT(30) DEF ServedIsYoungest
  <2>2. WellFormed(cache) /\ cap \in Nat
    BY ZenonT(30) DEF IInv, TypeOK
  <2>3. \A e : HashOf[served.key] \in DOMAIN InsertEntry(cache, k, e).map
    BY <2>1, <2>2, InsertSparesYoungest
  <2> QED
    BY Zenon, <2>1, <2>3 DEF Insert
<1> QED
  BY <1>1, <1>2, ServedStep, CacheInvariant, PTL DEF Spec, RecentlyServedSurvives
=============================================================================
