---------------------------- MODULE ControlProofs -----------------------------
(***************************************************************************)
(* Proofs about three parts that decide where a query goes: the bindings   *)
(* the solver remembers for a network, its hysteresis, and the budget of   *)
(* the exchange pool.                                                      *)
(***************************************************************************)
EXTENDS PoolBudget, Hysteresis, SolverBindings,
        FiniteSetTheorems, WellFoundedInduction, TLAPS

-----------------------------------------------------------------------------
(***************************************************************************)
(* The bindings the solver remembers, for any networks, resolvers,         *)
(* capacity and lifetime. The invariant has to speak of the durable record *)
(* too: the next start brings it back into the cache.                      *)
(***************************************************************************)

LEMMA LeastNat ==
    ASSUME NEW T, T \subseteq Nat, T # {}
    PROVE  \E x \in T : \A y \in T : x <= y
<1>1. PICK x \in T : \A y \in T : ~ (<<y, x>> \in OpToRel(<, Nat))
  BY WFMin, NatLessThanWellFounded, Zenon
<1>2. ASSUME NEW y \in T PROVE x <= y
  <2>1. y \in Nat /\ x \in Nat
    OBVIOUS
  <2>2. y < x => <<y, x>> \in OpToRel(<, Nat)
    BY <2>1 DEF OpToRel
  <2>3. ~ (y < x)
    BY <1>1, <2>2, Zenon
  <2> QED
    BY <2>1, <2>3
<1> QED
  BY <1>2

\* A table has one row for a network at most; it is current when each row
\* holds what was observed last under its fingerprint.
AnyBinding == [resolver : Resolvers, at : Nat, on : Networks]
AnyRow     == [fp : Networks, binding : AnyBinding]
OneRowEach(rows) == \A i, j \in 1..Len(rows) : rows[i].fp = rows[j].fp => i = j
Table(rows) == rows \in Seq(AnyRow) /\ OneRowEach(rows)
UpToDate(rows, last) == \A i \in 1..Len(rows) : rows[i].binding = last[rows[i].fp]

\* The durable record obeys what the cache obeys: the next start brings it
\* back.
BindingTypeOK ==
    /\ Table(cache) /\ Table(nand)
    /\ network \in Networks /\ clock \in Nat /\ DOMAIN latest = Networks
    /\ pass.pc = "applied" => pass.resolver \in Resolvers /\ pass.on \in Networks
BindingInv ==
    /\ BindingTypeOK
    /\ unsaved \/ (UpToDate(cache, latest) /\ UpToDate(nand, latest))

\* Every row of w is a row of rows for another network than n.
Others(w, rows, n) ==
    \A k \in 1..Len(w) : \E i \in 1..Len(rows) : w[k] = rows[i] /\ rows[i].fp # n

\* Every row of w is that, or the row of n with binding b.
Replaces(w, rows, n, b) ==
    \A k \in 1..Len(w) : \/ w[k] = [fp |-> n, binding |-> b]
                         \/ \E i \in 1..Len(rows) : w[k] = rows[i] /\ rows[i].fp # n

\* remove, and insert with its eviction: the rows that stay are those of other
\* networks.
LEMMA WithoutFacts ==
    ASSUME NEW rows, NEW n, Table(rows)
    PROVE  Table(Without(rows, n)) /\ Others(Without(rows, n), rows, n)
<1>0. rows \in Seq(AnyRow) /\ DOMAIN rows = 1..Len(rows) /\ Len(rows) \in Nat
  BY DEF Table
<1>1. CASE ~Holds(rows, n)
  <2>1. Without(rows, n) = rows
    BY <1>1, Zenon DEF Without
  <2>2. \A k \in 1..Len(rows) : rows[k].fp # n
    BY <1>0, <1>1, Zenon DEF Holds
  <2> QED BY <2>1, <2>2, Zenon DEF Others
<1>2. CASE Holds(rows, n)
  <2> DEFINE i == CHOOSE i \in DOMAIN rows : rows[i].fp = n
             w == [k \in 1..(Len(rows) - 1) |-> IF k < i THEN rows[k] ELSE rows[k + 1]]
             J(k) == IF k < i THEN k ELSE k + 1
  <2>1. i \in 1..Len(rows) /\ rows[i].fp = n
    BY <1>0, <1>2, Zenon DEF Holds
  <2>2. Without(rows, n) = w
    BY <1>2, Zenon DEF Without
  <2> HIDE DEF i
  <2>3. \A k \in 1..(Len(rows) - 1) : /\ J(k) \in 1..Len(rows) /\ J(k) # i /\ w[k] = rows[J(k)]
    BY <1>0, <2>1
  <2>4. \A k, l \in 1..(Len(rows) - 1) : J(k) = J(l) => k = l
    BY <1>0, <2>1
  <2>5. Len(rows) - 1 \in Nat
    BY <1>0, <2>1
  <2>6. \A k \in 1..Len(rows) : rows[k] \in AnyRow
    BY <1>0
  <2> HIDE DEF J
  <2>7. w \in [1..(Len(rows) - 1) -> AnyRow]
    BY <2>3, <2>6
  <2>7a. w = [k \in 1..(Len(rows) - 1) |-> w[k]]
    BY Zenon
  <2> HIDE DEF w
  <2>8. w \in Seq(AnyRow) /\ Len(w) = Len(rows) - 1
    BY <2>5, <2>7
  <2>9. OneRowEach(w)
    <3> SUFFICES ASSUME NEW k \in 1..Len(w), NEW l \in 1..Len(w), w[k].fp = w[l].fp
                 PROVE  k = l
      BY Zenon DEF OneRowEach
    <3>1. k \in 1..(Len(rows) - 1) /\ l \in 1..(Len(rows) - 1)
      BY <2>8, Zenon
    <3>2. rows[J(k)].fp = rows[J(l)].fp
      BY <3>1, <2>3, Zenon
    <3>3. J(k) = J(l)
      BY <3>1, <3>2, <2>3, Zenon DEF Table, OneRowEach
    <3> QED BY <3>1, <3>3, <2>4, Zenon
  <2>10. Others(w, rows, n)
    <3> SUFFICES ASSUME NEW k \in 1..Len(w)
                 PROVE  \E j \in 1..Len(rows) : w[k] = rows[j] /\ rows[j].fp # n
      BY Zenon DEF Others
    <3>1. J(k) \in 1..Len(rows) /\ J(k) # i /\ w[k] = rows[J(k)]
      BY <2>3, <2>8, Zenon
    <3>2. rows[J(k)].fp # n
      BY <3>1, <2>1, Zenon DEF Table, OneRowEach
    <3> QED BY <3>1, <3>2, Zenon
  <2> QED BY <2>2, <2>8, <2>9, <2>10, Zenon DEF Table
<1> QED BY <1>1, <1>2, Zenon

LEMMA InsertFacts ==
    ASSUME NEW rows, NEW n \in Networks, NEW b \in AnyBinding, Table(rows)
    PROVE  Table(insert(rows, n, b)) /\ Replaces(insert(rows, n, b), rows, n, b)
<1> DEFINE w == Without(rows, n)
           r == [fp |-> n, binding |-> b]
           put == Append(w, r)
<1>1. Table(w) /\ Others(w, rows, n)
  BY WithoutFacts, Zenon
<1>2. r \in AnyRow /\ r.fp = n
  BY DEF AnyRow
<1>3. w \in Seq(AnyRow) /\ Len(w) \in Nat
  BY <1>1 DEF Table
<1>4. insert(rows, n, b) = put \/ insert(rows, n, b) = Tail(put)
  BY Zenon DEF insert
<1> HIDE DEF w, r
<1>5. /\ put \in Seq(AnyRow) /\ Len(put) = Len(w) + 1
      /\ put[Len(w) + 1] = r
      /\ \A k \in 1..Len(w) : put[k] = w[k]
  BY <1>2, <1>3
<1> HIDE DEF put
<1>6. \A k \in 1..Len(put) : put[k] = r \/ (k \in 1..Len(w) /\ put[k] = w[k])
  <2> SUFFICES ASSUME NEW k \in 1..Len(put) PROVE put[k] = r \/ (k \in 1..Len(w) /\ put[k] = w[k])
    OBVIOUS
  <2>1. k = Len(w) + 1 \/ k \in 1..Len(w)
    BY <1>3, <1>5
  <2> QED BY <2>1, <1>5, Zenon
<1>7. Replaces(put, rows, n, b)
  <2> SUFFICES ASSUME NEW k \in 1..Len(put)
               PROVE  \/ put[k] = [fp |-> n, binding |-> b]
                      \/ \E i \in 1..Len(rows) : put[k] = rows[i] /\ rows[i].fp # n
    BY Zenon DEF Replaces
  <2> QED BY <1>6, <1>1, Zenon DEF Others, r
<1>8. \A k \in 1..Len(w) : w[k].fp # n
  BY <1>1, Zenon DEF Others
<1>9. OneRowEach(put)
  <2> SUFFICES ASSUME NEW k \in 1..Len(put), NEW l \in 1..Len(put), put[k].fp = put[l].fp
               PROVE  k = l
    BY Zenon DEF OneRowEach
  <2>1. (k = Len(w) + 1 \/ k \in 1..Len(w)) /\ (l = Len(w) + 1 \/ l \in 1..Len(w))
    BY <1>3, <1>5
  <2>2. CASE k \in 1..Len(w) /\ l \in 1..Len(w)
    BY <2>2, <1>1, <1>5, Zenon DEF Table, OneRowEach
  <2>3. CASE k = Len(w) + 1 /\ l = Len(w) + 1
    BY <2>3, Zenon
  <2>4. CASE k = Len(w) + 1 /\ l \in 1..Len(w)
    BY <2>4, <1>2, <1>5, <1>8, Zenon
  <2>5. CASE l = Len(w) + 1 /\ k \in 1..Len(w)
    BY <2>5, <1>2, <1>5, <1>8, Zenon
  <2> QED BY <2>1, <2>2, <2>3, <2>4, <2>5, Zenon
<1>10. CASE insert(rows, n, b) = put
  BY <1>10, <1>5, <1>7, <1>9, Zenon DEF Table
<1>11. CASE insert(rows, n, b) = Tail(put)
  <2> DEFINE t == Tail(put)
  <2>1. t \in Seq(AnyRow) /\ Len(t) = Len(put) - 1 /\ Len(put) \in Nat
    BY <1>3, <1>5
  <2>2. \A k \in 1..Len(t) : t[k] = put[k + 1] /\ k + 1 \in 1..Len(put) /\ k \in Nat
    BY <1>3, <1>5
  <2> HIDE DEF t
  <2>3. Replaces(t, rows, n, b)
    <3> SUFFICES ASSUME NEW k \in 1..Len(t)
                 PROVE  \/ t[k] = [fp |-> n, binding |-> b]
                        \/ \E i \in 1..Len(rows) : t[k] = rows[i] /\ rows[i].fp # n
      BY Zenon DEF Replaces
    <3>1. t[k] = put[k + 1] /\ k + 1 \in 1..Len(put)
      BY <2>2, Zenon
    <3> QED BY <3>1, <1>7, Zenon DEF Replaces
  <2>4. \A k, l \in 1..Len(t) : k + 1 = l + 1 => k = l
    BY <2>1
  <2>5. OneRowEach(t)
    <3> SUFFICES ASSUME NEW k \in 1..Len(t), NEW l \in 1..Len(t), t[k].fp = t[l].fp
                 PROVE  k = l
      BY Zenon DEF OneRowEach
    <3>1. /\ put[k + 1].fp = put[l + 1].fp
          /\ k + 1 \in 1..Len(put) /\ l + 1 \in 1..Len(put)
      BY <2>2, Zenon
    <3>2. k + 1 = l + 1
      BY <3>1, <1>9, Zenon DEF OneRowEach
    <3> QED BY <3>2, <2>4, Zenon
  <2>6. insert(rows, n, b) = t
    BY <1>11, Zenon DEF t
  <2> QED BY <2>1, <2>3, <2>5, <2>6, Zenon DEF Table
<1> QED BY <1>4, <1>10, <1>11, Zenon

\* A table that a row of the latest binding is put into stays up to date.
LEMMA InsertUpToDate ==
    ASSUME NEW w, NEW rows, NEW n, NEW b, NEW last,
           Replaces(w, rows, n, b), UpToDate(rows, last), b = last[n]
    PROVE  UpToDate(w, last)
<1> SUFFICES ASSUME NEW k \in 1..Len(w) PROVE w[k].binding = last[w[k].fp]
  BY Zenon DEF UpToDate
<1>1. CASE w[k] = [fp |-> n, binding |-> b]
  <2>1. w[k].fp = n /\ w[k].binding = b
    BY <1>1
  <2> QED BY <2>1, Zenon
<1>2. CASE \E i \in 1..Len(rows) : w[k] = rows[i] /\ rows[i].fp # n
  BY <1>2, Zenon DEF UpToDate
<1> QED BY <1>1, <1>2, Zenon DEF Replaces
-----------------------------------------------------------------------------
\* rehydrateFrom: the rows are admitted one by one.
Rehydrates(rows, n, g) ==
    g = [i \in 0..n |-> IF i = 0 THEN rows ELSE admit(g[i - 1], nand[i])]

\* The recursive function of rehydrateFrom is defined.
LEMMA RehydrationExists ==
    ASSUME NEW rows, NEW n \in Nat
    PROVE  \E g : Rehydrates(rows, n, g)
<1> DEFINE Bad == {m \in Nat : ~ \E g : Rehydrates(rows, m, g)}
<1> SUFFICES ASSUME Bad # {} PROVE FALSE
  BY Zenon
<1>1. Bad \subseteq Nat
  BY Zenon
<1>2. PICK m \in Bad : \A y \in Bad : m <= y
  BY <1>1, LeastNat, Zenon
<1>3. m \in Nat /\ ~ \E g : Rehydrates(rows, m, g)
  BY <1>2, Zenon
<1>4. CASE m = 0
  <2> DEFINE g == [i \in 0..0 |-> rows]
  <2>1. Rehydrates(rows, 0, g)
    BY DEF Rehydrates
  <2> QED BY <2>1, <1>3, <1>4, Zenon
<1>5. CASE m # 0
  <2>1. m - 1 \in Nat /\ ~ (m <= m - 1) /\ m \in 0..m /\ m - 1 \in 0..(m - 1)
    BY <1>3, <1>5
  <2>2. PICK g : Rehydrates(rows, m - 1, g)
    BY <2>1, <1>2, Zenon
  <2> DEFINE h == [i \in 0..m |-> IF i = m THEN admit(g[m - 1], nand[m]) ELSE g[i]]
  <2>3. \A i \in 0..(m - 1) : g[i] = IF i = 0 THEN rows ELSE admit(g[i - 1], nand[i])
    BY <2>2, Zenon DEF Rehydrates
  <2>4. \A i \in 0..m : h[i] = IF i = 0 THEN rows ELSE admit(h[i - 1], nand[i])
    <3> SUFFICES ASSUME NEW i \in 0..m
                 PROVE  h[i] = IF i = 0 THEN rows ELSE admit(h[i - 1], nand[i])
      BY Zenon
    <3>1. CASE i = m
      <4>1. i # 0 /\ i - 1 = m - 1 /\ m - 1 \in 0..m /\ m - 1 # m
        BY <3>1, <1>3, <1>5
      <4>2. h[i] = admit(g[m - 1], nand[m]) /\ h[m - 1] = g[m - 1]
        BY <3>1, <4>1, Zenon
      <4> QED BY <3>1, <4>1, <4>2, Zenon
    <3>2. CASE i # m
      <4>1. i \in 0..(m - 1) /\ (i # 0 => i - 1 \in 0..m /\ i - 1 # m)
        BY <3>2, <1>3, <1>5
      <4>2. h[i] = g[i] /\ (i # 0 => h[i - 1] = g[i - 1])
        BY <3>2, <4>1, Zenon
      <4> QED BY <4>1, <4>2, <2>3, Zenon
    <3> QED BY <3>1, <3>2, Zenon
  <2>5. h = [i \in 0..m |-> h[i]]
    BY Zenon
  <2> HIDE DEF h
  <2>6. Rehydrates(rows, m, h)
    BY <2>4, <2>5, Zenon DEF Rehydrates
  <2> QED BY <2>6, <1>3, Zenon
<1> QED BY <1>4, <1>5, Zenon

LEMMA RehydrateFromIs ==
    ASSUME NEW rows, Len(nand) \in Nat
    PROVE  \E g : Rehydrates(rows, Len(nand), g) /\ rehydrateFrom(rows) = g[Len(nand)]
<1> DEFINE F(g) == [i \in 0..Len(nand) |-> IF i = 0 THEN rows ELSE admit(g[i - 1], nand[i])]
           f == CHOOSE g : g = F(g)
<1>1. PICK h : Rehydrates(rows, Len(nand), h)
  BY RehydrationExists, Zenon
<1>2. h = F(h)
  BY <1>1, Zenon DEF Rehydrates
<1>3. f = F(f)
  BY <1>2, Zenon
<1>4. rehydrateFrom(rows) = f[Len(nand)]
  BY DEF rehydrateFrom
<1> HIDE DEF f
<1> QED BY <1>3, <1>4, Zenon DEF Rehydrates

LEMMA AdmitFacts ==
    ASSUME NEW rows, NEW row \in AnyRow, NEW last, Table(rows)
    PROVE  /\ Table(admit(rows, row))
           /\ UpToDate(rows, last) /\ row.binding = last[row.fp]
                => UpToDate(admit(rows, row), last)
<1>1. row.fp \in Networks /\ row.binding \in AnyBinding
  BY DEF AnyRow
<1> DEFINE w == insert(rows, row.fp, row.binding)
<1>2. Table(w) /\ Replaces(w, rows, row.fp, row.binding)
  BY <1>1, InsertFacts, Zenon
<1>3. admit(rows, row) = w \/ admit(rows, row) = rows
  BY Zenon DEF admit
<1> HIDE DEF w
<1>4. UpToDate(rows, last) /\ row.binding = last[row.fp] => UpToDate(w, last)
  BY <1>2, InsertUpToDate, Zenon
<1> QED BY <1>2, <1>3, <1>4, Zenon

\* What a start brings back is a table, up to date if the cache and the
\* record were.
LEMMA RehydrateFacts ==
    ASSUME NEW rows, NEW last, Table(rows), Table(nand)
    PROVE  /\ Table(rehydrateFrom(rows))
           /\ UpToDate(rows, last) /\ UpToDate(nand, last)
                => UpToDate(rehydrateFrom(rows), last)
<1> DEFINE N == Len(nand)
           OK(t) == /\ Table(t)
                    /\ UpToDate(rows, last) /\ UpToDate(nand, last) => UpToDate(t, last)
<1>0. N \in Nat /\ N \in 0..N /\ \A i \in 1..N : nand[i] \in AnyRow
  BY DEF Table
<1>1. PICK g : Rehydrates(rows, N, g) /\ rehydrateFrom(rows) = g[N]
  BY <1>0, RehydrateFromIs, Zenon
<1>2. \A i \in 0..N : g[i] = IF i = 0 THEN rows ELSE admit(g[i - 1], nand[i])
  BY <1>1, Zenon DEF Rehydrates
<1> DEFINE Bad == {i \in Nat : i \in 0..N /\ ~OK(g[i])}
<1>3. ASSUME Bad # {} PROVE FALSE
  <2>1. Bad \subseteq Nat
    BY Zenon
  <2>2. PICK m \in Bad : \A y \in Bad : m <= y
    BY <2>1, <1>3, LeastNat, Zenon
  <2>3. m \in 0..N /\ ~OK(g[m])
    BY <2>2, Zenon
  <2>4. OK(rows)
    BY Zenon
  <2>5. m # 0
    BY <2>3, <2>4, <1>2, Zenon
  <2>6. m \in 1..N /\ m - 1 \in Nat /\ m - 1 \in 0..N /\ ~ (m <= m - 1)
    BY <2>3, <2>5, <1>0
  <2>7. OK(g[m - 1])
    BY <2>6, <2>2, Zenon
  <2>8. g[m] = admit(g[m - 1], nand[m]) /\ nand[m] \in AnyRow
    BY <2>3, <2>5, <2>6, <1>0, <1>2, Zenon
  <2>9. UpToDate(nand, last) => nand[m].binding = last[nand[m].fp]
    BY <2>6, Zenon DEF UpToDate
  <2>10. OK(g[m])
    BY <2>7, <2>8, <2>9, AdmitFacts, Zenon
  <2> QED BY <2>3, <2>10, Zenon
<1>4. OK(g[N])
  BY <1>0, <1>3, Zenon
<1> QED BY <1>1, <1>4, Zenon

-----------------------------------------------------------------------------
LEMMA EmptyTable == Table(<<>>) /\ \A last : UpToDate(<<>>, last)
<1>1. <<>> \in Seq(AnyRow) /\ 1..Len(<<>>) = {}
  OBVIOUS
<1> QED BY <1>1, Zenon DEF Table, OneRowEach, UpToDate

LEMMA InitBinding == ASSUME SolverInit PROVE BindingInv
<1>1. Table(<<>>)
  BY EmptyTable, Zenon
<1>2. pass.pc # "applied"
  BY DEF SolverInit, NoPass
<1>3. \A last : UpToDate(<<>>, last)
  BY DEF UpToDate
<1>4. DOMAIN latest = Networks /\ network \in Networks /\ cache = <<>> /\ nand = <<>> /\ clock \in Nat
  BY DEF SolverInit
<1> QED BY <1>1, <1>2, <1>3, <1>4, Zenon DEF BindingInv, BindingTypeOK

\* A new table, written through or not.
LEMMA WriteThrough ==
    ASSUME BindingInv, NEW written \in BOOLEAN, Table(cache'),
           persistThrough(cache', written),
           unsaved \/ UpToDate(cache', latest')
    PROVE  /\ Table(nand')
           /\ unsaved' \/ (UpToDate(cache', latest') /\ UpToDate(nand', latest'))
<1>1. CASE store /\ written
  <2>1. nand' = cache' /\ (unsaved => unsaved')
    BY <1>1, Zenon DEF persistThrough
  <2> QED BY <2>1, Zenon
<1>2. CASE ~(store /\ written)
  <2>1. nand' = nand /\ unsaved'
    BY <1>2, Zenon DEF persistThrough
  <2> QED BY <2>1, Zenon DEF BindingInv, BindingTypeOK
<1> QED BY <1>1, <1>2, Zenon

LEMMA AppliedBinding ==
    ASSUME BindingInv, NEW written \in BOOLEAN, onPoolApplied(written)
    PROVE  BindingInv'
<1> DEFINE b == [resolver |-> pass.resolver, at |-> clock, on |-> pass.on]
<1>1. /\ network' = network /\ clock' = clock /\ pass' = NoPass
      /\ network \in Networks /\ clock \in Nat
      /\ pass.resolver \in Resolvers /\ pass.on \in Networks
      /\ Table(cache) /\ Table(nand) /\ DOMAIN latest = Networks
  BY Zenon DEF onPoolApplied, BindingInv, BindingTypeOK
<1>2. pass'.pc # "applied"
  BY <1>1 DEF NoPass
<1>3. CASE solver
  <2>1. /\ cache' = insert(cache, network, b)
        /\ latest' = [latest EXCEPT ![network] = b]
        /\ persistThrough(cache', written)
    BY <1>3, Zenon DEF onPoolApplied
  <2>2. b \in AnyBinding
    BY <1>1 DEF AnyBinding
  <2> HIDE DEF b
  <2>3. Table(cache') /\ Replaces(cache', cache, network, b)
    BY <2>1, <2>2, <1>1, InsertFacts, Zenon
  <2>4. DOMAIN latest' = Networks /\ latest'[network] = b
    BY <2>1, <1>1, Zenon
  <2>5. \A n : n # network => latest'[n] = latest[n] \/ n \notin Networks
    BY <2>1, <1>1, Zenon
  <2>6. unsaved \/ UpToDate(cache', latest')
    <3> SUFFICES ASSUME ~unsaved, NEW k \in 1..Len(cache')
                 PROVE  cache'[k].binding = latest'[cache'[k].fp]
      BY Zenon DEF UpToDate
    <3>1. CASE cache'[k] = [fp |-> network, binding |-> b]
      <4>1. cache'[k].fp = network /\ cache'[k].binding = b
        BY <3>1
      <4> QED BY <4>1, <2>4, Zenon
    <3>2. CASE \E i \in 1..Len(cache) : cache'[k] = cache[i] /\ cache[i].fp # network
      <4>1. PICK i \in 1..Len(cache) : cache'[k] = cache[i] /\ cache[i].fp # network
        BY <3>2, Zenon
      <4>2. cache[i] \in AnyRow
        BY <1>1 DEF Table
      <4>3. cache[i].fp \in Networks
        BY <4>2 DEF AnyRow
      <4>4. cache[i].binding = latest[cache[i].fp]
        BY Zenon DEF BindingInv, UpToDate
      <4> QED BY <4>1, <4>3, <4>4, <2>5, Zenon
    <3> QED BY <3>1, <3>2, <2>3, Zenon DEF Replaces
  <2>7. /\ Table(nand')
        /\ unsaved' \/ (UpToDate(cache', latest') /\ UpToDate(nand', latest'))
    BY <2>1, <2>3, <2>6, WriteThrough, Zenon
  <2> QED BY <2>3, <2>4, <2>7, <1>1, <1>2, Zenon DEF BindingInv, BindingTypeOK
<1>4. CASE ~solver
  <2>1. UNCHANGED <<cache, nand, latest, unsaved>>
    BY <1>4, Zenon DEF onPoolApplied
  <2> QED BY <2>1, <1>1, <1>2, Zenon DEF BindingInv, BindingTypeOK
<1> QED BY <1>3, <1>4, Zenon

LEMMA UnreachableBinding ==
    ASSUME BindingInv, NEW written \in BOOLEAN, onPoolUnreachable(written)
    PROVE  BindingInv'
<1>1. /\ network' = network /\ clock' = clock /\ pass' = NoPass
      /\ network \in Networks /\ clock \in Nat
      /\ Table(cache) /\ Table(nand) /\ DOMAIN latest = Networks
  BY Zenon DEF onPoolUnreachable, BindingInv, BindingTypeOK
<1>2. pass'.pc # "applied"
  BY <1>1 DEF NoPass
<1>3. CASE solver /\ Holds(cache, network)
  <2>1. /\ cache' = Without(cache, network)
        /\ latest' = [latest EXCEPT ![network] = None]
        /\ persistThrough(cache', written)
    BY <1>3, Zenon DEF onPoolUnreachable
  <2>3. Table(cache') /\ Others(cache', cache, network)
    BY <2>1, <1>1, WithoutFacts, Zenon
  <2>4. DOMAIN latest' = Networks
    BY <2>1, <1>1, Zenon
  <2>5. \A n : n # network => latest'[n] = latest[n] \/ n \notin Networks
    BY <2>1, <1>1, Zenon
  <2>6. unsaved \/ UpToDate(cache', latest')
    <3> SUFFICES ASSUME ~unsaved, NEW k \in 1..Len(cache')
                 PROVE  cache'[k].binding = latest'[cache'[k].fp]
      BY Zenon DEF UpToDate
    <3>1. PICK i \in 1..Len(cache) : cache'[k] = cache[i] /\ cache[i].fp # network
      BY <2>3, Zenon DEF Others
    <3>2. cache[i] \in AnyRow
      BY <1>1 DEF Table
    <3>3. cache[i].fp \in Networks
      BY <3>2 DEF AnyRow
    <3>4. cache[i].binding = latest[cache[i].fp]
      BY Zenon DEF BindingInv, UpToDate
    <3> QED BY <3>1, <3>3, <3>4, <2>5, Zenon
  <2>7. /\ Table(nand')
        /\ unsaved' \/ (UpToDate(cache', latest') /\ UpToDate(nand', latest'))
    BY <2>1, <2>3, <2>6, WriteThrough, Zenon
  <2> QED BY <2>3, <2>4, <2>7, <1>1, <1>2, Zenon DEF BindingInv, BindingTypeOK
<1>4. CASE ~(solver /\ Holds(cache, network))
  <2>1. UNCHANGED <<cache, nand, latest, unsaved>>
    BY <1>4, Zenon DEF onPoolUnreachable
  <2> QED BY <2>1, <1>1, <1>2, Zenon DEF BindingInv, BindingTypeOK
<1> QED BY <1>3, <1>4, Zenon

LEMMA StartBinding ==
    ASSUME BindingInv, start PROVE BindingInv'
<1>1. /\ cache' = rehydrateFrom(cache)
      /\ UNCHANGED <<nand, solver, network, pass, clock, latest, unsaved>>
  BY Zenon DEF start
<1>2. Table(cache) /\ Table(nand)
  BY Zenon DEF BindingInv, BindingTypeOK
<1>3. /\ Table(cache')
      /\ UpToDate(cache, latest) /\ UpToDate(nand, latest) => UpToDate(cache', latest)
  BY <1>1, <1>2, RehydrateFacts, Zenon
<1> QED BY <1>1, <1>2, <1>3, Zenon DEF BindingInv, BindingTypeOK

LEMMA StepBinding ==
    ASSUME BindingInv, [SolverNext]_bindingVars PROVE BindingInv'
<1>1. CASE UNCHANGED bindingVars
  BY <1>1, Zenon DEF bindingVars, BindingInv, BindingTypeOK
<1>2. CASE start BY <1>2, StartBinding
<1>3. CASE toggleSolver
  BY <1>3, Zenon DEF toggleSolver, BindingInv, BindingTypeOK
<1>4. CASE clockTicks
  <2>1. clock' \in Nat
    <3>1. clock \in Nat
      BY Zenon DEF BindingInv, BindingTypeOK
    <3>2. clock' = clock + 1
      BY <1>4, Zenon DEF clockTicks
    <3> QED BY <3>1, <3>2
  <2> QED BY <1>4, <2>1, Zenon DEF clockTicks, BindingInv, BindingTypeOK
<1>5. CASE processDies
  <2>1. Table(<<>>) /\ \A last : UpToDate(<<>>, last)
    BY EmptyTable, Zenon
  <2>2. cache' = <<>> /\ pass' = NoPass /\ UNCHANGED <<nand, network, clock, latest, unsaved>>
    BY <1>5, Zenon DEF processDies
  <2>3. pass'.pc # "applied"
    BY <2>2 DEF NoPass
  <2> QED BY <2>1, <2>2, <2>3, Zenon DEF BindingInv, BindingTypeOK
<1>6. ASSUME NEW r \in Resolvers, NEW found \in BOOLEAN, probe(r, found) PROVE BindingInv'
  <2>1. pass'.resolver \in Resolvers /\ pass'.on \in Networks
    BY <1>6 DEF probe, BindingInv, BindingTypeOK
  <2>2. UNCHANGED <<cache, nand, network, clock, latest, unsaved>>
    BY <1>6, Zenon DEF probe
  <2> QED BY <2>1, <2>2, Zenon DEF BindingInv, BindingTypeOK
<1>7. ASSUME NEW n \in Networks, roam(n) PROVE BindingInv'
  BY <1>7, Zenon DEF roam, BindingInv, BindingTypeOK
<1> QED
  BY <1>1, <1>2, <1>3, <1>4, <1>5, <1>6, <1>7, AppliedBinding, UnreachableBinding, Zenon
     DEF SolverNext

\* For any networks, resolvers, capacity and lifetime: what is remembered
\* for a network is the last thing observed there, over any number of engine
\* starts and process deaths, unless a write was refused or made without a
\* store (BindingCache, SolverCacheManager).
THEOREM CacheIsLatestAlways == SolverSpec => []CacheIsLatest
<1>1. SolverInit => BindingInv
  BY InitBinding
<1>2. BindingInv /\ [SolverNext]_bindingVars => BindingInv'
  BY StepBinding
<1>3. ASSUME BindingInv PROVE CacheIsLatest
  <2>1. DOMAIN cache = 1..Len(cache)
    <3>1. cache \in Seq(AnyRow)
      BY <1>3, Zenon DEF BindingInv, BindingTypeOK, Table
    <3> QED BY <3>1
  <2> QED BY <1>3, <2>1, Zenon DEF BindingInv, UpToDate, CacheIsLatest
<1> QED
  BY <1>1, <1>2, <1>3, PTL DEF SolverSpec

-----------------------------------------------------------------------------
(***************************************************************************)
(* The laws of the hysteresis for every choice of its dials.  Neither law  *)
(* is inductive: the spacing of commits needs that the two windows always  *)
(* end dwell and cooldown after the last commit and that a race is only on *)
(* when both are over; the confirmation needs that the youngest signals    *)
(* remembered, as many as the run counts, all reach the enter rail.        *)
(***************************************************************************)

\* The windows start at the last commit, and a race is on only when both
\* have passed.
Spacing ==
    /\ committed => /\ dwellUntil = lastCommit + dwell
                    /\ cooldownUntil = lastCommit + cooldown
    /\ racing => windowsOver

\* How many of the remembered signals the run vouches for.
Vouched == IF confirmRun < confirmSamples THEN confirmRun ELSE confirmSamples

\* The youngest of the remembered signals are the run.
Confirmation ==
    /\ Vouched <= Len(recent) /\ Len(recent) <= confirmSamples
    /\ \A i \in 1..Len(recent) : i > Len(recent) - Vouched => recent[i] >= triggerEnter
    /\ racing => confirmRun >= confirmSamples

HInv == HysteresisTypeOK /\ Spacing /\ Confirmation

\* The initial state of the gate satisfies the invariant.
LEMMA InitInv == HysteresisInit => HInv
  <1> SUFFICES ASSUME HysteresisInit PROVE HInv
    OBVIOUS
  <1>1. HysteresisTypeOK
    <2>1. incumbent \in Scores \cup {-1}
      BY DEF HysteresisInit
    <2>2. recent \in Seq(Signals)
      BY DEF HysteresisInit
    <2>3. armed \in BOOLEAN /\ racing \in BOOLEAN /\ committed \in BOOLEAN
      BY Zenon DEF HysteresisInit
    <2>4. /\ confirmRun \in 0..MaxRun /\ dwellUntil \in Nat /\ cooldownUntil \in Nat
          /\ lastCommit \in Nat /\ time \in Nat
      BY HysteresisAssumption DEF HysteresisInit
    <2> QED
      BY <2>1, <2>2, <2>3, <2>4 DEF HysteresisTypeOK
  <1>2. Spacing
    BY DEF HysteresisInit, Spacing
  <1>3. Vouched = 0
    BY HysteresisAssumption DEF HysteresisInit, Vouched
  <1>4. Len(recent) = 0
    BY DEF HysteresisInit
  <1>5. Confirmation
    BY <1>3, <1>4, HysteresisAssumption DEF HysteresisInit, Confirmation
  <1> QED
    BY <1>1, <1>2, <1>5 DEF HInv

\* Observing a signal keeps every variable in its type.
LEMMA ObserveType ==
    ASSUME HInv, NEW s \in Signals, observe(s)
    PROVE  HysteresisTypeOK'
  <1>1. debounce(s) \in 0..MaxRun
    BY HysteresisAssumption DEF HInv, HysteresisTypeOK, debounce, Longer
  <1>2. latch(s) \in BOOLEAN
    BY DEF HInv, HysteresisTypeOK, latch
  <1>3. recent' \in Seq(Signals)
    BY HysteresisAssumption DEF HInv, HysteresisTypeOK, observe, Window
  <1>4. racing' \in BOOLEAN
    BY DEF observe
  <1> QED
    BY <1>1, <1>2, <1>3, <1>4 DEF HInv, HysteresisTypeOK, observe

\* Observing a signal keeps the remembered signals and the run in step.
LEMMA ObserveConfirms ==
    ASSUME HInv, NEW s \in Signals, observe(s)
    PROVE  Confirmation'
  <1> DEFINE longer == Append(recent, s)
  <1>1. /\ recent \in Seq(Signals) /\ confirmRun \in 0..MaxRun
        /\ confirmSamples \in Nat \ {0} /\ MaxRun \in Nat /\ MaxRun >= confirmSamples
        /\ s \in Nat /\ triggerEnter \in Nat
    BY HysteresisAssumption DEF HInv, HysteresisTypeOK
  <1>2. /\ longer \in Seq(Signals) /\ Len(longer) = Len(recent) + 1
        /\ longer[Len(longer)] = s
        /\ \A i \in 1..Len(recent) : longer[i] = recent[i]
    BY <1>1
  <1>3. recent' = IF Len(longer) > confirmSamples THEN Tail(longer) ELSE longer
    BY DEF observe, Window
  <1>4. confirmRun' = IF s >= triggerEnter
                      THEN IF confirmRun < MaxRun THEN confirmRun + 1 ELSE MaxRun
                      ELSE 0
    BY DEF observe, debounce, Longer
  <1>5. /\ Vouched <= Len(recent) /\ Len(recent) <= confirmSamples
        /\ \A i \in 1..Len(recent) : i > Len(recent) - Vouched => recent[i] >= triggerEnter
    BY DEF HInv, Confirmation
  <1>6. racing' => confirmRun' >= confirmSamples
    BY Zenon DEF observe
  <1>7. Vouched' <= Vouched + 1 /\ (s < triggerEnter => Vouched' = 0)
        /\ Vouched' \in Nat /\ Vouched \in Nat /\ Vouched' <= confirmSamples
    BY <1>1, <1>4 DEF Vouched
  <1>8. CASE Len(longer) > confirmSamples
    <2>1. recent' = Tail(longer) /\ Len(recent') = Len(recent)
          /\ \A i \in 1..Len(recent') : recent'[i] = longer[i + 1]
      BY <1>1, <1>2, <1>3, <1>8
    <2>2. Len(recent) = confirmSamples
      BY <1>1, <1>2, <1>5, <1>8
    <2>3. ASSUME NEW i \in 1..Len(recent'), i > Len(recent') - Vouched'
          PROVE  recent'[i] >= triggerEnter
      <3>1. CASE i = Len(recent')
        BY <1>1, <1>2, <1>7, <2>1, <2>3, <3>1
      <3>2. CASE i < Len(recent')
        <4> DEFINE k == i + 1
        <4>1. k \in 1..Len(recent) /\ k > Len(recent) - Vouched
          <5>1. Len(recent) \in Nat /\ Len(recent') = Len(recent)
            BY <1>1, <2>1
          <5> QED  BY <1>7, <2>3, <3>2, <5>1
        <4>2. recent'[i] = recent[k]
          BY <1>2, <2>1, <2>3, <4>1
        <4> HIDE DEF k
        <4> QED  BY <1>5, <4>1, <4>2
      <3> QED  BY <1>1, <2>1, <3>1, <3>2
    <2>4. Vouched' <= Len(recent') /\ Len(recent') <= confirmSamples
      BY <1>1, <1>7, <2>1, <2>2
    <2> QED
      BY <1>6, <2>3, <2>4 DEF Confirmation
  <1>9. CASE ~(Len(longer) > confirmSamples)
    <2> HIDE DEF longer
    <2>1. recent' = longer
      BY <1>3, <1>9
    <2>2. Len(recent') = Len(recent) + 1 /\ Len(recent) \in Nat
      BY <1>1, <1>2, <2>1
    <2>3. ASSUME NEW i \in 1..Len(recent'), i > Len(recent') - Vouched'
          PROVE  recent'[i] >= triggerEnter
      <3>1. CASE i = Len(recent')
        <4>1. recent'[i] = s
          BY <1>2, <2>1, <3>1
        <4>2. Vouched' # 0
          BY <2>2, <2>3, <3>1
        <4> QED  BY <1>1, <1>7, <4>1, <4>2
      <3>2. CASE i < Len(recent')
        <4>1. i \in 1..Len(recent) /\ i > Len(recent) - Vouched
          BY <1>7, <2>2, <2>3, <3>2
        <4>2. recent'[i] = recent[i]
          BY <1>2, <2>1, <4>1
        <4> QED  BY <1>5, <4>1, <4>2
      <3> QED  BY <2>2, <3>1, <3>2
    <2>4. Vouched' <= Len(recent') /\ Len(recent') <= confirmSamples
      BY <1>1, <1>2, <1>5, <1>7, <1>9, <2>1, <2>2
    <2> QED
      BY <1>6, <2>3, <2>4 DEF Confirmation
  <1> QED
    BY <1>8, <1>9

\* Every step of the gate and of its caller keeps the invariant.
LEMMA StepInv == HInv /\ [HysteresisNext]_hysteresisVars => HInv'
  <1> SUFFICES ASSUME HInv, [HysteresisNext]_hysteresisVars PROVE HInv'
    BY Zenon
  <1>1. CASE Tick
    <2>1. /\ time' = time + 1
          /\ UNCHANGED <<armed, confirmRun, dwellUntil, cooldownUntil, lastCommit,
                         racing, incumbent, committed, recent>>
      BY <1>1, Zenon DEF Tick
    <2>2. time \in Nat /\ dwellUntil \in Nat /\ cooldownUntil \in Nat
      BY Zenon DEF HInv, HysteresisTypeOK
    <2>3. time' \in Nat /\ (windowsOver => windowsOver')
      BY <2>1, <2>2 DEF windowsOver
    <2> QED
      BY <2>1, <2>3, Zenon DEF HInv, HysteresisTypeOK, Spacing, Confirmation, Vouched
  <1>2. ASSUME NEW s \in Signals, observe(s) PROVE HInv'
    <2>1. Spacing'
      BY Zenon, <1>2 DEF HInv, observe, Spacing, windowsOver
    <2> QED
      BY <1>2, <2>1, ObserveType, ObserveConfirms DEF HInv
  <1>3. ASSUME NEW c \in Scores, NEW d \in BOOLEAN, applySolve(c, d) PROVE HInv'
    <2>1. HysteresisTypeOK'
      <3>1. incumbent' \in Scores \cup {-1}
        BY <1>3 DEF HInv, HysteresisTypeOK, applySolve
      <3>2. recent' \in Seq(Signals)
        BY <1>3 DEF applySolve
      <3>3. armed' \in BOOLEAN /\ racing' \in BOOLEAN /\ committed' \in BOOLEAN
        BY <1>3, Zenon DEF applySolve
      <3>4. /\ confirmRun' \in 0..MaxRun /\ dwellUntil' \in Nat /\ cooldownUntil' \in Nat
            /\ lastCommit' \in Nat /\ time' \in Nat
        BY <1>3, HysteresisAssumption DEF HInv, HysteresisTypeOK, applySolve
      <3> QED
        BY <3>1, <3>2, <3>3, <3>4 DEF HysteresisTypeOK
    <2>2. Spacing' /\ Confirmation'
      BY <1>3, HysteresisAssumption
         DEF HInv, HysteresisTypeOK, Spacing, Confirmation, Vouched, applySolve
    <2> QED
      BY <2>1, <2>2 DEF HInv
  <1>4. CASE UNCHANGED hysteresisVars
    BY <1>4 DEF hysteresisVars, HInv, HysteresisTypeOK, Spacing, Confirmation, Vouched,
                windowsOver
  <1> QED
    BY <1>1, <1>2, <1>3, <1>4 DEF HysteresisNext, Solve

\* The invariant holds in every reachable state of the gate.
THEOREM HysteresisInvariant == HysteresisSpec => []HInv
  BY InitInv, StepInv, PTL DEF HysteresisSpec

\* The composite law of Hysteresis.kt: no two commits closer together than
\* the dwell and the cooldown, whatever the signals and the dials.
THEOREM CommitsAreSpaced == HysteresisSpec => CommitsSpaced
  <1>1. ASSUME HInv, Solve, committed
        PROVE  time - lastCommit >= dwell /\ time - lastCommit >= cooldown
    BY <1>1, HysteresisAssumption
       DEF HInv, HysteresisTypeOK, Spacing, windowsOver, Solve, applySolve
  <1>2. HInv => [Solve /\ committed
                 => time - lastCommit >= dwell /\ time - lastCommit >= cooldown]_hysteresisVars
    BY <1>1
  <1> QED
    BY <1>2, HysteresisInvariant, PTL DEF CommitsSpaced

\* No race without confirmSamples signals in a row at or above the enter
\* rail since the last commit.
THEOREM RacesAreConfirmed == HysteresisSpec => []RaceConfirmed
  <1>1. HInv => RaceConfirmed
    BY HysteresisAssumption DEF HInv, HysteresisTypeOK, Confirmation, Vouched, RaceConfirmed
  <1> QED
    BY <1>1, HysteresisInvariant, PTL

-----------------------------------------------------------------------------
(***************************************************************************)
(* Theorems about the pool budget, for any number of queries, any windows, *)
(* deadlines and wait bound.                                               *)
(***************************************************************************)

(***************************************************************************)
(* The inductive invariant.  A query about to take its slot without having *)
(* waited, and not raced, still sees a window with room.  A release pushes *)
(* zeroes.  As long as no push has crossed another push or a configure,    *)
(* one of the three writers runs at a time, and without a running engine   *)
(* the release is as far as the steps stop() has made.                     *)
(***************************************************************************)
RoomUnlessWaited ==
    \A q \in Queries :
        query[q].pc = "add" /\ q \notin outrun /\ query[q].waited < query[q].limit
            /\ query[q].cap > 0
        => inflight < query[q].cap

CallsOK ==
    /\ \A p \in Pushers : push[p].pc = "store" => push[p].timeout \in Deadlines
    /\ conf.pc # "idle" => conf.timeout \in Deadlines
    /\ job = "active" => ~Pushing("stop")
    /\ push["stop"].pc \in {"cap", "read"} => push["stop"].timeout = 0
    /\ push["stop"].pc = "cap" => push["stop"].cap = 0

OneWriter ==
    /\ Pushing("cycle") => ~Pushing("stop") /\ conf.pc = "idle"
    /\ Pushing("stop") => conf.pc = "idle"
    /\ job # "active" => ~Pushing("cycle")

ReleaseSoFar ==
    job # "active" =>
        /\ push["stop"].pc # "cap" => cap = 0
        /\ push["stop"].pc = "store" => push["stop"].timeout = configured_timeout
        /\ push["stop"].pc = "idle" =>
              timeout = IF conf.pc = "remember" THEN conf.timeout ELSE configured_timeout

IInv ==
    /\ TypeOK
    /\ InflightIsHolders
    /\ RoomUnlessWaited
    /\ CallsOK
    /\ ~crossed => OneWriter /\ ReleaseSoFar

-----------------------------------------------------------------------------
(* Slots *)

LEMMA SlotsFinite ==
  ASSUME NEW S \in SUBSET Queries
  PROVE  /\ IsFiniteSet(S) /\ Cardinality(S) \in Nat
         /\ Cardinality(Queries) \in Nat /\ Cardinality(S) <= Cardinality(Queries)
  BY BudgetAssumption, FS_Subset, FS_CardinalityType

LEMMA HoldersFinite ==
  /\ IsFiniteSet(Holders) /\ Cardinality(Holders) \in Nat
  /\ Cardinality(Queries) \in Nat /\ Cardinality(Holders) <= Cardinality(Queries)
<1>1. Holders \in SUBSET Queries
  BY DEF Holders
<1> QED  BY <1>1, SlotsFinite

\* A query that starts to hold a slot adds one, one that stops takes one off.
LEMMA HoldersJoin ==
  ASSUME NEW q \in Queries, q \notin Holders, Holders' = Holders \cup {q}
  PROVE  Cardinality(Holders') = Cardinality(Holders) + 1
  BY HoldersFinite, FS_AddElement

LEMMA HoldersLeave ==
  ASSUME NEW q \in Holders, Holders' = Holders \ {q}
  PROVE  Cardinality(Holders') = Cardinality(Holders) - 1
  BY HoldersFinite, FS_RemoveElement

-----------------------------------------------------------------------------
(* The invariant is inductive *)

Slot == [pc : {"idle", "check", "add", "hold"}, cap : Caps \cup {0},
         limit : 0 .. MaxWait, waited : 0 .. MaxWait]

LEMMA InitIInv == Init => IInv
<1> SUFFICES ASSUME Init PROVE IInv
  OBVIOUS
<1> USE DEF Init
<1>1. query \in [Queries -> Slot] /\ Holders = {}
  BY BudgetAssumption DEF NoQuery, Slot, Holders
<1>2. TypeOK
  <2>1. inflight \in 0 .. Cardinality(Queries)
    BY HoldersFinite
  <2>2. push \in [Pushers -> [pc : {"idle", "cap", "read", "store"}, cap : Caps \cup {0},
                             timeout : Deadlines \cup {0}]]
    BY DEF NoPush
  <2>3. conf \in [pc : {"idle", "remember", "reset"}, timeout : Deadlines \cup {0}]
    BY DEF NoConf
  <2> QED  BY <1>1, <2>1, <2>2, <2>3 DEF TypeOK, Slot
<1>3. InflightIsHolders
  BY <1>1, FS_EmptySet DEF InflightIsHolders
<1>4. RoomUnlessWaited
  BY DEF RoomUnlessWaited, NoQuery
<1>5. CallsOK /\ OneWriter /\ ReleaseSoFar
  BY DEF CallsOK, OneWriter, ReleaseSoFar, Pushing, NoPush, NoConf, Pushers
<1> QED  BY <1>2, <1>3, <1>4, <1>5 DEF IInv

\* A query's step touches nothing but its own record and the count.
LEMMA StepIInv ==
  ASSUME IInv, NEW q \in Queries, Step(q)
  PROVE  IInv'
<1>0. /\ query \in [Queries -> Slot] /\ inflight \in Nat /\ MaxWait \in Nat
      /\ cap \in Caps \cup {0} /\ timeout \in Nat /\ timeout # 0 /\ Caps \subseteq Nat
      /\ inflight = Cardinality(Holders)
  BY BudgetAssumption, HoldersFinite DEF IInv, TypeOK, Slot, InflightIsHolders
<1>a. \A r \in Queries : query[r].cap \in Nat /\ query[r].waited \in Nat /\ query[r].limit \in Nat
  <2> TAKE r \in Queries
  <2>1. query[r] \in Slot
    BY <1>0
  <2>2. query[r].cap \in Caps \cup {0} /\ query[r].waited \in 0 .. MaxWait
        /\ query[r].limit \in 0 .. MaxWait
    BY <2>1 DEF Slot
  <2>3. Caps \cup {0} \subseteq Nat /\ 0 .. MaxWait \subseteq Nat
    BY BudgetAssumption
  <2> QED  BY <2>2, <2>3, Zenon
<1>1. UNCHANGED control
  BY DEF Step, Acquire, Check, Enter, Release
<1>2. /\ query' \in [Queries -> Slot]
      /\ inflight' = Cardinality(Holders')
      /\ RoomUnlessWaited'
  <2>1. CASE Acquire(q)
    <3>1. [pc |-> "check", cap |-> cap, limit |-> Lesser(timeout, MaxWait), waited |-> 0] \in Slot
      BY <1>0 DEF Slot, Lesser
    <3>2. query' \in [Queries -> Slot]
      BY <1>0, <2>1, <3>1 DEF Acquire
    <3>3. Holders' = Holders
      BY <1>0, <2>1 DEF Acquire, Holders, NoQuery
    <3>4. RoomUnlessWaited'
      BY <1>0, <2>1 DEF IInv, Acquire, RoomUnlessWaited, NoQuery
    <3> QED  BY <1>0, <2>1, <3>2, <3>3, <3>4 DEF Acquire
  <2>2. CASE Check(q)
    <3>0. /\ query[q].pc = "check" /\ inflight' = inflight /\ outrun' = outrun
          /\ \/ /\ query[q].waited < query[q].limit
                /\ query' = [query EXCEPT ![q].waited = @ + 1]
             \/ /\ \/ ~(query[q].cap > 0 /\ inflight >= query[q].cap)
                   \/ query[q].waited >= query[q].limit
                /\ query' = [query EXCEPT ![q].pc = "add"]
      BY <2>2, Zenon DEF Check
    <3>1. Holders' = Holders
      BY <1>0, <3>0 DEF Holders, Slot
    <3>2. query' \in [Queries -> Slot]
      <4>1. query[q].waited < query[q].limit => query[q].waited + 1 \in 0 .. MaxWait
        BY <1>0 DEF Slot
      <4> QED  BY <1>0, <3>0, <4>1 DEF Slot
    <3>3. RoomUnlessWaited'
      <4> SUFFICES ASSUME NEW r \in Queries, query'[r].pc = "add", r \notin outrun',
                          query'[r].waited < query'[r].limit, query'[r].cap > 0
                   PROVE  inflight' < query'[r].cap
        BY DEF RoomUnlessWaited
      <4>1. CASE r = q
        BY <1>0, <1>a, <3>0, <4>1 DEF Slot
      <4>2. CASE r # q
        BY <1>0, <3>0, <4>2 DEF IInv, RoomUnlessWaited
      <4> QED  BY <4>1, <4>2
    <3> QED  BY <1>0, <3>0, <3>1, <3>2, <3>3
  <2>3. CASE Enter(q)
    <3>1. query' \in [Queries -> Slot]
      BY <1>0, <2>3 DEF Enter, Slot
    <3>2. Holders' = Holders \cup {q} /\ q \notin Holders
      BY <1>0, <2>3 DEF Enter, Holders, Slot
    <3>3. inflight' = Cardinality(Holders')
      BY Zenon, <1>0, <2>3, <3>2, HoldersJoin DEF Enter
    <3>4. RoomUnlessWaited'
      BY <1>0, <2>3 DEF Enter, RoomUnlessWaited, Slot
    <3> QED  BY <3>1, <3>3, <3>4
  <2>4. CASE Release(q)
    <3>1. query' \in [Queries -> Slot]
      BY <1>0, <2>4 DEF Release, Slot, NoQuery
    <3>2. Holders' = Holders \ {q} /\ q \in Holders
      BY <1>0, <2>4 DEF Release, Holders, NoQuery
    <3>3. inflight' = Cardinality(Holders')
      BY Zenon, <1>0, <2>4, <3>2, HoldersLeave DEF Release
    <3>4. RoomUnlessWaited'
      <4> SUFFICES ASSUME NEW r \in Queries, query'[r].pc = "add", r \notin outrun',
                          query'[r].waited < query'[r].limit, query'[r].cap > 0
                   PROVE  inflight' < query'[r].cap
        BY DEF RoomUnlessWaited
      <4>1. r # q /\ query'[r] = query[r] /\ outrun' = outrun /\ inflight' = inflight - 1
        BY <1>0, <2>4 DEF Release, NoQuery
      <4>2. inflight < query[r].cap
        BY <4>1 DEF IInv, RoomUnlessWaited
      <4> QED  BY <1>0, <1>a, <4>1, <4>2
    <3> QED  BY <3>1, <3>3, <3>4
  <2> QED  BY <2>1, <2>2, <2>3, <2>4 DEF Step
<1>3. inflight' \in 0 .. Cardinality(Queries)
  <2>1. Holders' \in SUBSET Queries
    BY DEF Holders
  <2>2. /\ Cardinality(Holders') \in Nat /\ Cardinality(Queries) \in Nat
        /\ Cardinality(Holders') <= Cardinality(Queries)
    BY <2>1, SlotsFinite
  <2> QED  BY <1>2, <2>2
<1>4. outrun' \subseteq Queries
  BY DEF IInv, TypeOK, Step, Acquire, Check, Enter, Release
<1>5. TypeOK'
  BY <1>1, <1>2, <1>3, <1>4 DEF IInv, TypeOK, Slot, control
<1>6. CallsOK' /\ (~crossed' => OneWriter' /\ ReleaseSoFar')
  BY <1>1 DEF IInv, control, CallsOK, OneWriter, ReleaseSoFar, Pushing
<1> QED  BY <1>2, <1>5, <1>6 DEF IInv, InflightIsHolders

\* A step of the engine, a push or configure leaves the slots alone; what it
\* does to the budget is left to be shown.
Call == [pc : {"idle", "cap", "read", "store"}, cap : Caps \cup {0}, timeout : Deadlines \cup {0}]

LEMMA ControlIInv ==
  ASSUME IInv, UNCHANGED slots,
         /\ cap' \in Caps \cup {0} /\ timeout' \in Deadlines /\ configured_timeout' \in Deadlines
         /\ job' \in {"none", "active", "cancelled"}
         /\ push' \in [Pushers -> Call]
         /\ conf' \in [pc : {"idle", "remember", "reset"}, timeout : Deadlines \cup {0}]
         /\ crossed' \in BOOLEAN,
         CallsOK', ~crossed' => OneWriter' /\ ReleaseSoFar'
  PROVE  IInv'
<1>1. InflightIsHolders' /\ RoomUnlessWaited'
  BY DEF IInv, slots, InflightIsHolders, Holders, RoomUnlessWaited
<1>2. TypeOK'
  BY DEF IInv, TypeOK, slots, Call
<1> QED  BY <1>1, <1>2 DEF IInv

LEMMA PushIInv ==
  ASSUME IInv, NEW p \in Pushers, Push(p)
  PROVE  IInv'
<1>0. /\ push \in [Pushers -> Call] /\ cap \in Caps \cup {0} /\ conf' = conf /\ job' = job
      /\ timeout \in Deadlines /\ configured_timeout \in Deadlines /\ UNCHANGED slots
      /\ configured_timeout' = configured_timeout /\ crossed' = crossed
      /\ Deadlines \subseteq Nat \ {0}
  BY BudgetAssumption DEF IInv, TypeOK, Call, Push, PushCap, PushRead, PushStore
<1>1. "stop" \in Pushers /\ "cycle" \in Pushers /\ (p = "stop" \/ p = "cycle")
  BY DEF Pushers
<1>2. CASE PushCap(p)
  <2>1. cap' = push[p].cap /\ timeout' = timeout /\ push[p].pc = "cap"
        /\ push' = [push EXCEPT ![p].pc = "read"]
    BY <1>2 DEF PushCap
  <2>2. cap' \in Caps \cup {0} /\ push' \in [Pushers -> Call]
    BY <1>0, <2>1 DEF Call
  <2>3. CallsOK'
    BY <1>0, <1>1, <2>1 DEF IInv, CallsOK, Pushing, Call
  <2>4. ~crossed => OneWriter' /\ ReleaseSoFar'
    BY <1>0, <1>1, <2>1 DEF IInv, CallsOK, OneWriter, ReleaseSoFar, Pushing, Call
  <2> QED  BY <1>0, <2>1, <2>2, <2>3, <2>4, ControlIInv DEF IInv, TypeOK
<1>3. CASE PushRead(p)
  <2> DEFINE d == IF push[p].timeout > 0 THEN push[p].timeout ELSE configured_timeout
  <2>1. cap' = cap /\ timeout' = timeout /\ push[p].pc = "read"
        /\ push' = [push EXCEPT ![p].pc = "store", ![p].timeout = d]
    BY <1>0, <1>3 DEF PushRead
  <2>2. d \in Deadlines /\ (push[p].timeout = 0 => d = configured_timeout)
    <3>1. push[p].timeout \in Deadlines \cup {0}
      BY <1>0 DEF Call
    <3> QED  BY <1>0, <3>1
  <2> HIDE DEF d
  <2>3. push' \in [Pushers -> Call]
    BY ZenonT(30), <1>0, <2>1, <2>2 DEF Call
  <2>4. CallsOK'
    BY <1>0, <1>1, <2>1, <2>2 DEF IInv, CallsOK, Pushing, Call
  <2>5. ~crossed => OneWriter' /\ ReleaseSoFar'
    BY <1>0, <1>1, <2>1, <2>2 DEF IInv, CallsOK, OneWriter, ReleaseSoFar, Pushing, Call
  <2> QED  BY <1>0, <2>1, <2>3, <2>4, <2>5, ControlIInv DEF IInv, TypeOK
<1>4. CASE PushStore(p)
  <2>1. cap' = cap /\ timeout' = push[p].timeout /\ push[p].pc = "store"
        /\ push' = [push EXCEPT ![p] = NoPush]
    BY <1>4 DEF PushStore
  <2>2. timeout' \in Deadlines /\ push' \in [Pushers -> Call]
    BY <1>0, <2>1 DEF IInv, CallsOK, Call, NoPush
  <2>3. CallsOK'
    BY <1>0, <1>1, <2>1 DEF IInv, CallsOK, Pushing, NoPush
  <2>4. ~crossed => OneWriter' /\ ReleaseSoFar'
    BY <1>0, <1>1, <2>1 DEF IInv, CallsOK, OneWriter, ReleaseSoFar, Pushing, NoPush, Call
  <2> QED  BY <1>0, <2>1, <2>2, <2>3, <2>4, ControlIInv DEF IInv, TypeOK
<1> QED  BY <1>2, <1>3, <1>4 DEF Push

LEMMA EngineIInv ==
  ASSUME IInv,
         Start \/ Stop \/ End \/ \E c \in Caps, d \in Deadlines : Cycle(c, d)
  PROVE  IInv'
<1>0. /\ push \in [Pushers -> Call] /\ crossed \in BOOLEAN
      /\ cap' = cap /\ timeout' = timeout /\ configured_timeout' = configured_timeout
      /\ conf' = conf /\ UNCHANGED slots
  BY DEF IInv, TypeOK, Call, Start, Stop, End, Cycle
<1>1. "stop" \in Pushers /\ "cycle" \in Pushers /\ Pushers \ {"stop"} = {"cycle"}
      /\ Pushers \ {"cycle"} = {"stop"}
  BY DEF Pushers
<1>2. CASE Start \/ End
  <2>1. push' = push /\ crossed' = crossed /\ job' \in {"none", "active"}
        /\ (job' = "active" => ~Pushing("stop")) /\ (job' = "none" => job = "cancelled" /\ ~Pushing("cycle"))
    BY <1>2 DEF Start, End
  <2>2. CallsOK' /\ (~crossed' => OneWriter' /\ ReleaseSoFar')
    BY <1>0, <2>1 DEF IInv, CallsOK, OneWriter, ReleaseSoFar, Pushing
  <2> QED  BY <1>0, <2>1, <2>2, ControlIInv DEF IInv, TypeOK
<1>3. CASE Stop
  <2>1. /\ job = "active" /\ job' = "cancelled" /\ ~Pushing("stop")
        /\ push' = [push EXCEPT !["stop"] = [pc |-> "cap", cap |-> 0, timeout |-> 0]]
        /\ crossed' \in BOOLEAN /\ (~crossed' => ~Overlaps("stop"))
    BY Zenon, <1>3 DEF Stop, Begin
  <2>2. push' \in [Pushers -> Call]
    BY Zenon, <1>0, <2>1 DEF Call
  <2>3. CallsOK'
    BY <1>0, <1>1, <2>1 DEF IInv, CallsOK, Pushing
  <2>4. ~crossed' => OneWriter' /\ ReleaseSoFar'
    BY Zenon, <1>0, <1>1, <2>1 DEF IInv, OneWriter, ReleaseSoFar, Pushing, Overlaps
  <2> QED  BY <1>0, <2>1, <2>2, <2>3, <2>4, ControlIInv DEF IInv, TypeOK
<1>4. ASSUME NEW c \in Caps, NEW d \in Deadlines, Cycle(c, d)
      PROVE  IInv'
  <2>1. /\ job = "active" /\ job' = "active" /\ ~Pushing("cycle")
        /\ push' = [push EXCEPT !["cycle"] = [pc |-> "cap", cap |-> c, timeout |-> d]]
        /\ crossed' = (Overlaps("cycle") \/ crossed)
    BY <1>4 DEF Cycle, Begin
  <2>2. push' \in [Pushers -> Call]
    BY Zenon, <1>0, <2>1 DEF Call
  <2>3. CallsOK'
    BY <1>0, <1>1, <2>1 DEF IInv, CallsOK, Pushing
  <2>4. ~crossed' => OneWriter' /\ ReleaseSoFar'
    BY Zenon, <1>0, <1>1, <2>1 DEF IInv, OneWriter, ReleaseSoFar, Pushing, Overlaps
  <2>5. crossed' \in BOOLEAN
    BY <2>1, <1>0 DEF Overlaps
  <2> QED  BY <1>0, <2>1, <2>2, <2>3, <2>4, <2>5, ControlIInv DEF IInv, TypeOK
<1> QED  BY <1>2, <1>3, <1>4

LEMMA ConfigureIInv ==
  ASSUME IInv,
         ConfigureRemember \/ ConfigureReset \/ \E d \in Deadlines : Configure(d)
  PROVE  IInv'
<1>0. /\ push \in [Pushers -> Call] /\ push' = push /\ job' = job /\ UNCHANGED slots
      /\ cap \in Caps \cup {0} /\ timeout \in Deadlines /\ configured_timeout \in Deadlines
      /\ crossed \in BOOLEAN
      /\ conf \in [pc : {"idle", "remember", "reset"}, timeout : Deadlines \cup {0}]
  BY Zenon DEF IInv, TypeOK, Call, Configure, ConfigureRemember, ConfigureReset
<1>1. ASSUME NEW d \in Deadlines, Configure(d) PROVE IInv'
  <2>1. /\ conf.pc = "idle" /\ conf' = [pc |-> "remember", timeout |-> d] /\ timeout' = d
        /\ cap' = cap /\ configured_timeout' = configured_timeout
        /\ crossed' \in BOOLEAN
        /\ ~crossed' => ~crossed /\ ~Pushing("stop") /\ ~Pushing("cycle")
    BY Zenon, <1>0, <1>1 DEF Configure, Pushers
  <2>2. CallsOK' /\ (~crossed' => OneWriter' /\ ReleaseSoFar')
    BY <1>0, <2>1 DEF IInv, CallsOK, OneWriter, ReleaseSoFar, Pushing
  <2>3. conf' \in [pc : {"idle", "remember", "reset"}, timeout : Deadlines \cup {0}]
    BY <2>1
  <2> QED  BY <1>0, <2>1, <2>2, <2>3, ControlIInv DEF IInv, TypeOK
<1>2. CASE ConfigureRemember
  <2>1. /\ conf.pc = "remember" /\ conf' = [conf EXCEPT !.pc = "reset"] /\ timeout' = timeout
        /\ cap' = cap /\ configured_timeout' = conf.timeout /\ crossed' = crossed
    BY <1>2 DEF ConfigureRemember
  <2>2. /\ conf' \in [pc : {"idle", "remember", "reset"}, timeout : Deadlines \cup {0}]
        /\ conf'.pc = "reset" /\ conf'.timeout = conf.timeout
        /\ configured_timeout' \in Deadlines
    BY <1>0, <2>1 DEF IInv, CallsOK
  <2>3. CallsOK' /\ (~crossed' => OneWriter' /\ ReleaseSoFar')
    BY Zenon, <1>0, <2>1, <2>2 DEF IInv, CallsOK, OneWriter, ReleaseSoFar, Pushing
  <2> QED  BY <1>0, <2>1, <2>2, <2>3, ControlIInv DEF IInv, TypeOK
<1>3. CASE ConfigureReset
  <2>1. /\ conf.pc = "reset" /\ conf' = NoConf /\ timeout' = timeout
        /\ cap' = 0 /\ configured_timeout' = configured_timeout /\ crossed' = crossed
    BY <1>3 DEF ConfigureReset
  <2>2. conf' \in [pc : {"idle", "remember", "reset"}, timeout : Deadlines \cup {0}]
    BY <2>1 DEF NoConf
  <2>3. CallsOK' /\ (~crossed' => OneWriter' /\ ReleaseSoFar')
    BY <1>0, <2>1 DEF IInv, CallsOK, OneWriter, ReleaseSoFar, Pushing, NoConf
  <2> QED  BY <1>0, <2>1, <2>2, <2>3, ControlIInv DEF IInv, TypeOK
<1> QED  BY <1>1, <1>2, <1>3

LEMMA NextIInv == IInv /\ [Next]_vars => IInv'
<1>1. ASSUME IInv, UNCHANGED vars PROVE IInv'
  BY <1>1 DEF vars, IInv, TypeOK, InflightIsHolders, Holders, RoomUnlessWaited, CallsOK,
              OneWriter, ReleaseSoFar, Pushing
<1> QED  BY <1>1, StepIInv, PushIInv, EngineIInv, ConfigureIInv DEF Next

\* The inductive invariant above holds in every behaviour of the budget.
THEOREM BudgetInvariant == Spec => []IInv
  BY InitIInv, NextIInv, PTL DEF Spec

\* Type correctness; in particular inflight stays between zero and the number
\* of queries and never wraps.
THEOREM BudgetTypeCorrect == Spec => []TypeOK
<1>1. IInv => TypeOK
  BY DEF IInv
<1> QED  BY <1>1, BudgetInvariant, PTL

-----------------------------------------------------------------------------
(* What the budget promises *)

\* For any number of queries, inflight is the number of those that hold a
\* slot: fetch_add and the drop of BudgetSlot balance on every path.
THEOREM InflightIsExact == Spec => []InflightIsHolders
<1>1. IInv => InflightIsHolders
  BY DEF IInv
<1> QED  BY <1>1, BudgetInvariant, PTL

\* For any windows, deadlines and wait bound, acquire goes over the window it
\* read only after its full wait or because another query outran it.
THEOREM WindowIsKept == Spec => OverWindowOnlyIfWaited
<1>1. IInv /\ [Next]_vars
      => [\A q \in Queries :
             query[q].pc = "add" /\ query'[q].pc = "hold" /\ query[q].cap > 0
               /\ inflight >= query[q].cap
             => query[q].waited >= query[q].limit \/ q \in outrun]_vars
  <2> SUFFICES ASSUME IInv, NEW q \in Queries, query[q].pc = "add", query[q].cap > 0,
                      inflight >= query[q].cap, q \notin outrun
               PROVE  query[q].waited >= query[q].limit
    OBVIOUS
  <2>1. query[q] \in Slot /\ inflight \in Nat
    BY HoldersFinite DEF IInv, TypeOK, Slot, InflightIsHolders
  <2>2. query[q].cap \in Caps \cup {0} /\ query[q].waited \in 0 .. MaxWait
        /\ query[q].limit \in 0 .. MaxWait
    BY <2>1 DEF Slot
  <2>3. Caps \cup {0} \subseteq Nat /\ 0 .. MaxWait \subseteq Nat
    BY BudgetAssumption
  <2>4. query[q].cap \in Nat /\ query[q].waited \in Nat /\ query[q].limit \in Nat
    BY <2>2, <2>3, Zenon
  <2>5. query[q].waited < query[q].limit => inflight < query[q].cap
    BY DEF IInv, RoomUnlessWaited
  <2> QED  BY <2>1, <2>4, <2>5
<1> QED  BY <1>1, BudgetInvariant, PTL DEF Spec, OverWindowOnlyIfWaited

\* Once the engine is gone the window is open and the deadline is the
\* configured one, however stop(), the cycle and configure were interleaved
\* before, unless one push crossed another or a configure.
THEOREM ReleaseIsComplete == Spec => []ReleasedUnlessCrossed
<1>1. IInv => ReleasedUnlessCrossed
  BY DEF IInv, ReleasedUnlessCrossed, Quiet, ReleaseSoFar, Pushing, Pushers
<1> QED  BY <1>1, BudgetInvariant, PTL
=============================================================================
