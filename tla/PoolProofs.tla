------------------------------ MODULE PoolProofs ------------------------------
(***************************************************************************)
(* Theorems about the exchanges of the pool and the loop that drives them  *)
(* from the app, for any number of transports and of concurrent calls:     *)
(* what an exhausted call means, who wins, that a race is not held up and  *)
(* that the solve ladder learns (ResolverPool), and that the pool is       *)
(* configured exactly while the modules run (ModulesStateLoop).            *)
(***************************************************************************)
EXTENDS PoolExchange, ModulesLoop, FiniteSetTheorems, WellFoundedInduction, TLAPS

-----------------------------------------------------------------------------
\* A leg of an exchange is open while its transport is being asked, and over
\* once it has answered or failed.
Open == {"setup", "wait"}
Over == {"answered", "failed"}
Leg == [pc : {"todo"} \cup Open \cup Over, spent : Nat, bound : Nat]
Hows == {"strict", "robin", "via", "solve", "all"}
Exchanges ==
    [pc : {"idle", "run", "done"}, how : {"none"} \cup Hows,
     order : {<<>>} \cup [1..N -> Transports], at : 1..N,
     leg : [Transports -> Leg], elapsed : Nat, deadline : Nat,
     result : {"none", "answer", "exhausted", "deadline"}]
Stat == [loss : Nat, rtt : Int, samples : Nat]

\* What the state of the pool is made of.
PoolTypeOK ==
    /\ server \in [Transports -> Servers]
    /\ cert \subseteq Transports
    /\ override \in Nat
    /\ rr_cursor \in Nat
    /\ stats \in [Transports -> Stat]
    /\ call \in [Calls -> Exchanges]

\* An order in which every transport has one place.
Permutes(order) ==
    /\ order \in [1..N -> Transports]
    /\ \A i \in Transports : \E k \in 1..N : order[k] = i
    /\ \A k, l \in 1..N : order[k] = order[l] => k = l

\* One leg, i, is where the exchange stands. In a race every other leg has
\* begun; in a ladder the ones before it have failed and the ones after it
\* have not begun.
StandsAt(x, i) ==
    IF x.how = "all"
    THEN \A j \in Transports \ {i} : x.leg[j].pc \in Open \cup {"failed"}
    ELSE /\ i = x.order[x.at]
         /\ \A k \in 1..N : /\ k < x.at => x.leg[x.order[k]].pc = "failed"
                            /\ k > x.at => x.leg[x.order[k]].pc = "todo"

\* A call nobody has made, one under way, and the three ways it ends.
Idle(x) ==
    /\ x.result = "none" /\ x.how = "none" /\ x.at = 1 /\ x.elapsed = 0
    /\ \A i \in Transports : x.leg[i].pc = "todo"
Under(x) == \E i \in Transports : x.leg[i].pc \in Open /\ StandsAt(x, i)
Won(x, sv) ==
    /\ x.result = "answer"
    /\ \E i \in Transports :
          /\ x.leg[i].pc = "answered" /\ StandsAt(x, i)
          /\ x.how = "solve" => sv[i].reply \in {"through", "negative"}
Spent(x) == x.result = "exhausted" /\ \A i \in Transports : x.leg[i].pc = "failed"
Late(x) == x.result = "deadline" /\ Under(x) /\ x.elapsed >= x.deadline

\* The state of a call says what has become of its legs.
Shape(x, sv) ==
    /\ x.pc = "idle" => Idle(x)
    /\ x.pc = "run" => x.result = "none" /\ Under(x)
    /\ x.pc = "done" => Won(x, sv) \/ Spent(x) \/ Late(x)

\* The server gives some reply; a cold one takes a tick longer.
Gets(s) == s.reply \in {"through", "negative", "soft"}
Warmup(s) == IF s.cold THEN 1 ELSE 0

\* The leg g of a race, at the server s, keeps time with it.
LegTimely(g, s, elapsed) ==
    Gets(s) =>
      /\ g.pc = "setup" => elapsed = g.spent /\ g.spent <= Warmup(s)
      /\ g.pc = "wait" => g.spent <= s.after /\ elapsed <= Warmup(s) + g.spent
      /\ g.pc = "failed" => g.bound <= s.after
Timely(x, sv) ==
    x.how = "all" => \A i \in Transports : LegTimely(x.leg[i], sv[i], x.elapsed)

\* What holds of every exchange, on its own.
GoodCall(x, sv) ==
    /\ x.pc # "idle" => Permutes(x.order) /\ x.how \in Hows
    /\ Shape(x, sv)
    /\ Timely(x, sv)

\* The exchanges whose leg at i has gone into the averages.
Sampled(i) == {c \in Calls : call[c].leg[i].pc \in Over}

\* What the averages of a transport say of the exchanges it has seen.
GoodStat(i) ==
    /\ stats[i].samples = Cardinality(Sampled(i))
    /\ Power[MaxSamples - stats[i].samples] <= Scale
    /\ IF EverFailed(i) THEN stats[i].loss >= Power[MaxSamples - stats[i].samples]
       ELSE stats[i].loss = 0

\* The inductive invariant. The shapes give NoneMeansAllFailed and
\* FirstAnswerWins, and the time a leg has spent gives RaceNotHeldUp. For
\* LadderLearns: a sample divides the loss average by five at most, so after n
\* samples a transport that has failed keeps at least the power of five that
\* is left, and one that has not failed has no loss at all.
PoolIInv ==
    /\ PoolTypeOK
    /\ {i \in Transports : ~server[i].cold} \subseteq cert
    /\ \A c \in Calls : GoodCall(call[c], server)
    /\ \A i \in Transports : GoodStat(i)
-----------------------------------------------------------------------------
\* A set of naturals has a least element: the induction principle of what
\* follows.
LEMMA LeastNat ==
    ASSUME NEW T, T \subseteq Nat, T # {}
    PROVE  \E x \in T : \A y \in T : x <= y
<1>1. PICK x \in T : \A y \in T : ~ (<<y, x>> \in OpToRel(<, Nat))
  BY WFMin, NatLessThanWellFounded, Zenon
<1>2. ASSUME NEW y \in T PROVE x <= y
  <2>1. y \in Nat /\ x \in Nat
    OBVIOUS
  <2>2. y < x => <<y, x>> \in OpToRel(<, Nat)
    BY <2>1 DEF OpToRel
  <2>3. ~ (y < x)
    BY <1>1, <2>2, Zenon
  <2> QED
    BY <2>1, <2>3
<1> QED
  BY <1>2

\* The first n powers of five.
PowersTo(n, g) ==
    g \in [0..n -> Nat] /\ g[0] = 1 /\ \A m \in 1..n : g[m] = 5 * g[m - 1]

\* The recursive function Power is defined: tables of the powers exist, of any
\* length.
LEMMA PowersExist ==
    ASSUME NEW n \in Nat
    PROVE  \E g : PowersTo(n, g)
<1> DEFINE Bad == {m \in Nat : ~ \E g : PowersTo(m, g)}
<1>1. SUFFICES ASSUME Bad # {} PROVE FALSE
  BY Zenon
<1>2. PICK m \in Bad : \A l \in Bad : m <= l
  BY <1>1, LeastNat, Zenon
<1>3. m \in Nat /\ ~ \E g : PowersTo(m, g)
  BY Zenon
<1>4. CASE m = 0
  <2> DEFINE g == [k \in 0..0 |-> 1]
  <2>1. PowersTo(0, g)
    BY DEF PowersTo
  <2> QED
    BY <1>3, <1>4, <2>1, Zenon
<1>5. CASE m # 0
  <2>1. m - 1 \in Nat /\ ~ (m <= m - 1)
    BY <1>3, <1>5
  <2>2. PICK g : PowersTo(m - 1, g)
    BY <1>2, <2>1, Zenon
  <2> DEFINE h == [k \in 0..m |-> IF k = m THEN 5 * g[m - 1] ELSE g[k]]
  <2>3. g \in [0..(m - 1) -> Nat] /\ g[0] = 1 /\ \A l \in 1..(m - 1) : g[l] = 5 * g[l - 1]
    BY <2>2, Zenon DEF PowersTo
  <2>4. PowersTo(m, h)
    <3>1. h \in [0..m -> Nat]
      BY <2>1, <2>3, <1>3
    <3>2. h[0] = 1
      BY <2>1, <2>3, <1>3, <1>5
    <3>3. ASSUME NEW l \in 1..m PROVE h[l] = 5 * h[l - 1]
      BY <2>1, <2>3, <1>3, <1>5
    <3> QED
      BY <3>1, <3>2, <3>3, Zenon DEF PowersTo
  <2> QED
    BY <1>3, <2>4, Zenon
<1> QED
  BY <1>4, <1>5

LEMMA PowerFacts ==
    /\ Power \in [0..MaxSamples -> Nat]
    /\ Power[0] = 1
    /\ \A n \in 1..MaxSamples : Power[n] = 5 * Power[n - 1]
<1> DEFINE F(g) == [n \in 0..MaxSamples |-> IF n = 0 THEN 1 ELSE 5 * g[n - 1]]
<1>0. MaxSamples \in Nat
  BY PoolAssumption
<1>1. PICK g : PowersTo(MaxSamples, g)
  BY <1>0, PowersExist, Zenon
<1>2. g \in [0..MaxSamples -> Nat] /\ g[0] = 1 /\ \A n \in 1..MaxSamples : g[n] = 5 * g[n - 1]
  BY <1>1, Zenon DEF PowersTo
<1>3. g = F(g)
  BY <1>0, <1>2
<1>4. Power = CHOOSE h : h = F(h)
  BY DEF Power
<1>5. Power = F(Power)
  <2> HIDE DEF F
  <2> QED
    BY <1>3, <1>4, Zenon
<1> DEFINE Bad == {n \in Nat : n \in 0..MaxSamples /\ Power[n] # g[n]}
<1>6. Bad = {}
  <2>1. SUFFICES ASSUME Bad # {} PROVE FALSE
    BY Zenon
  <2>2. PICK m \in Bad : \A l \in Bad : m <= l
    <3>1. Bad \subseteq Nat
      BY Zenon
    <3> HIDE DEF Bad
    <3> QED
      BY <2>1, <3>1, LeastNat, Zenon
  <2>3. m \in 0..MaxSamples /\ Power[m] # g[m]
    BY Zenon
  <2>4. Power[m] = IF m = 0 THEN 1 ELSE 5 * Power[m - 1]
    BY <1>5, <2>3, Zenon
  <2>5. m # 0
    BY <2>3, <2>4, <1>2, Zenon
  <2>6. m - 1 \in 0..MaxSamples /\ m - 1 \in Nat /\ ~ (m <= m - 1) /\ m \in 1..MaxSamples
    BY <1>0, <2>3, <2>5
  <2>7. Power[m - 1] = g[m - 1]
    BY <2>2, <2>6, Zenon
  <2> QED
    BY <1>2, <2>3, <2>4, <2>5, <2>6, <2>7, Zenon
<1>7. \A n \in 0..MaxSamples : n \in Nat /\ Power[n] = g[n]
  <2>1. \A n \in 0..MaxSamples : n \in Nat
    BY <1>0
  <2> QED
    BY <1>6, <2>1, Zenon
<1>8. Power = [n \in 0..MaxSamples |-> Power[n]]
  BY <1>5, Zenon
<1>9. Power = g
  BY <1>2, <1>7, <1>8, Zenon
<1> QED
  BY <1>2, <1>9, Zenon
LEMMA PowerPositive ==
    \A n \in 0..MaxSamples : Power[n] \in Nat /\ Power[n] > 0
<1> DEFINE Bad == {n \in Nat : n \in 0..MaxSamples /\ Power[n] = 0}
<1>0. MaxSamples \in Nat
  BY PoolAssumption
<1>1. Bad = {}
  <2>1. SUFFICES ASSUME Bad # {} PROVE FALSE
    BY Zenon
  <2>2. PICK m \in Bad : \A l \in Bad : m <= l
    <3>1. Bad \subseteq Nat
      BY Zenon
    <3> HIDE DEF Bad
    <3> QED
      BY <2>1, <3>1, LeastNat, Zenon
  <2>3. m \in 0..MaxSamples /\ Power[m] = 0
    BY Zenon
  <2>4. m # 0
    BY <2>3, PowerFacts
  <2>5. m - 1 \in 0..MaxSamples /\ m - 1 \in Nat /\ ~ (m <= m - 1) /\ m \in 1..MaxSamples
    BY <1>0, <2>3, <2>4
  <2>6. Power[m] = 5 * Power[m - 1] /\ Power[m - 1] \in Nat
    BY <2>5, PowerFacts, Zenon
  <2>7. Power[m - 1] = 0
    BY <2>3, <2>6
  <2> QED
    BY <2>2, <2>5, <2>7, Zenon
<1>2. ASSUME NEW n \in 0..MaxSamples PROVE Power[n] \in Nat /\ Power[n] > 0
  <2>1. n \in Nat /\ Power[n] \in Nat
    BY <1>0, PowerFacts
  <2>2. Power[n] # 0
    BY <1>1, <2>1, Zenon
  <2> QED
    BY <2>1, <2>2
<1> QED
  BY <1>2, Zenon

LEMMA Sizes ==
    /\ N \in Nat /\ N >= 1 /\ 1 \in 1..N /\ 0 \in Transports
    /\ \A i : i \in Transports <=> i \in Int /\ 0 <= i /\ i < N
    /\ IsFiniteSet(Transports) /\ Cardinality(Transports) = N
<1>1. N \in Nat /\ N >= 1
  BY PoolAssumption
<1>2. IsFiniteSet(0..(N - 1)) /\ Cardinality(0..(N - 1)) = N
  <2>1. Cardinality(0..(N - 1)) = IF 0 > N - 1 THEN 0 ELSE (N - 1) - 0 + 1
    BY <1>1, FS_Interval
  <2>2. IsFiniteSet(0..(N - 1))
    BY <1>1, FS_Interval
  <2> QED
    BY <1>1, <2>1, <2>2
<1> QED
  BY <1>1, <1>2 DEF Transports

LEMMA ModFacts ==
    /\ \A x \in Int : 0 <= x /\ x < N => x % N = x
    /\ \A x \in Int : N <= x /\ x < 2 * N => x % N = x - N
    /\ \A x \in Nat : x % N \in Transports
<1>1. N \in Nat \ {0}
  BY PoolAssumption
<1>2. ASSUME NEW x \in Int, 0 <= x, x < N PROVE x % N = x
  BY <1>1, <1>2
<1>3. ASSUME NEW x \in Int, N <= x, x < 2 * N PROVE x % N = x - N
  BY <1>1, <1>3
<1>4. ASSUME NEW x \in Nat PROVE x % N \in Transports
  BY <1>1 DEF Transports
<1> QED
  BY <1>2, <1>3, <1>4

\* Round robin asks every transport, from wherever it starts.
LEMMA RingPermutes ==
    ASSUME NEW s \in Transports
    PROVE  Permutes(Ring(s))
<1>1. s \in Int /\ 0 <= s /\ s < N /\ N \in Nat /\ N >= 1
  BY Sizes
<1> DEFINE f == Ring(s)
<1>2. \A k \in 1..N : f[k] = IF s + k - 1 < N THEN s + k - 1 ELSE s + k - 1 - N
  <2>1. ASSUME NEW k \in 1..N
        PROVE  f[k] = IF s + k - 1 < N THEN s + k - 1 ELSE s + k - 1 - N
    <3>1. f[k] = (s + k - 1) % N
      BY DEF Ring
    <3>2. s + k - 1 \in Int /\ 0 <= s + k - 1 /\ s + k - 1 < 2 * N
      BY <1>1
    <3>3. CASE s + k - 1 < N
      BY <3>1, <3>2, <3>3, ModFacts, Zenon
    <3>4. CASE ~ (s + k - 1 < N)
      <4>1. N <= s + k - 1
        BY <3>2, <3>4, <1>1
      <4>2. f[k] = (s + k - 1) - N
        BY <3>1, <3>2, <4>1, ModFacts, Zenon
      <4>3. (s + k - 1) - N = s + k - 1 - N
        BY <1>1
      <4> QED
        BY <3>4, <4>2, <4>3, Zenon
    <3> QED
      BY <3>3, <3>4, Zenon
  <2> QED
    BY <2>1, Zenon
<1>3. DOMAIN f = 1..N /\ f = [k \in 1..N |-> f[k]]
  BY Zenon DEF Ring
<1> HIDE DEF f
<1>4. f \in [1..N -> Transports]
  <2>1. ASSUME NEW k \in 1..N PROVE f[k] \in Transports
    BY <1>1, <1>2 DEF Transports
  <2> QED
    BY <1>3, <2>1, Zenon
<1>5. ASSUME NEW i \in Transports PROVE \E k \in 1..N : f[k] = i
  <2>0. i \in Int /\ 0 <= i /\ i < N
    BY Sizes
  <2>1. CASE s <= i
    <3>1. i - s + 1 \in 1..N /\ s + (i - s + 1) - 1 < N /\ s + (i - s + 1) - 1 = i
      BY <2>0, <2>1, <1>1
    <3> QED
      BY <1>2, <3>1, Zenon
  <2>2. CASE ~ (s <= i)
    <3>1. /\ i + N - s + 1 \in 1..N /\ ~ (s + (i + N - s + 1) - 1 < N)
          /\ s + (i + N - s + 1) - 1 - N = i
      BY <2>0, <2>2, <1>1
    <3>2. f[i + N - s + 1] = i
      BY <1>2, <3>1, Zenon
    <3> QED
      BY <3>1, <3>2, Zenon
  <2> QED
    BY <2>1, <2>2, Zenon
<1>6. ASSUME NEW k \in 1..N, NEW l \in 1..N, f[k] = f[l] PROVE k = l
  <2>1. f[k] = IF s + k - 1 < N THEN s + k - 1 ELSE s + k - 1 - N
    BY <1>2, Zenon
  <2>2. f[l] = IF s + l - 1 < N THEN s + l - 1 ELSE s + l - 1 - N
    BY <1>2, Zenon
  <2>3. (IF s + k - 1 < N THEN s + k - 1 ELSE s + k - 1 - N)
        = (IF s + l - 1 < N THEN s + l - 1 ELSE s + l - 1 - N)
    BY <1>6, <2>1, <2>2, Zenon
  <2> QED
    BY <1>1, <2>3
<1> QED
  BY <1>4, <1>5, <1>6, Zenon DEF Permutes, f

\* So does the order that prefers one transport.
LEMMA PreferringPermutes ==
    ASSUME NEW i \in Transports
    PROVE  Permutes(Preferring(i))
<1>1. i \in Int /\ 0 <= i /\ i < N /\ N \in Nat /\ N >= 1
  BY Sizes
<1> DEFINE f == Preferring(i)
<1>2. \A k \in 1..N : f[k] = IF k = 1 THEN i ELSE IF k - 2 < i THEN k - 2 ELSE k - 1
  BY Zenon DEF Preferring
<1>3. DOMAIN f = 1..N /\ f = [k \in 1..N |-> f[k]]
  BY Zenon DEF Preferring
<1> HIDE DEF f
<1>4. f \in [1..N -> Transports]
  <2>1. ASSUME NEW k \in 1..N PROVE f[k] \in Transports
    BY <1>1, <1>2 DEF Transports
  <2> QED
    BY <1>3, <2>1, Zenon
<1>5. ASSUME NEW j \in Transports PROVE \E k \in 1..N : f[k] = j
  <2>0. j \in Int /\ 0 <= j /\ j < N
    BY Sizes
  <2>1. CASE j = i
    BY <1>2, <2>1, Sizes, Zenon
  <2>2. CASE j < i
    <3>1. j + 2 \in 1..N /\ j + 2 # 1 /\ (j + 2) - 2 < i /\ (j + 2) - 2 = j
      BY <2>0, <2>2, <1>1
    <3> QED
      BY <1>2, <3>1, Zenon
  <2>3. CASE j > i
    <3>1. j + 1 \in 1..N /\ j + 1 # 1 /\ ~ ((j + 1) - 2 < i) /\ (j + 1) - 1 = j
      BY <2>0, <2>3, <1>1
    <3> QED
      BY <1>2, <3>1, Zenon
  <2> QED
    BY <2>0, <1>1, <2>1, <2>2, <2>3
<1>6. ASSUME NEW k \in 1..N, NEW l \in 1..N, f[k] = f[l] PROVE k = l
  <2>1. f[k] = IF k = 1 THEN i ELSE IF k - 2 < i THEN k - 2 ELSE k - 1
    BY <1>2, Zenon
  <2>2. f[l] = IF l = 1 THEN i ELSE IF l - 2 < i THEN l - 2 ELSE l - 1
    BY <1>2, Zenon
  <2>3. (IF k = 1 THEN i ELSE IF k - 2 < i THEN k - 2 ELSE k - 1)
        = (IF l = 1 THEN i ELSE IF l - 2 < i THEN l - 2 ELSE l - 1)
    BY <1>6, <2>1, <2>2, Zenon
  <2> QED
    BY <1>1, <2>3
<1> QED
  BY <1>4, <1>5, <1>6, Zenon DEF Permutes, f

\* Health is a strict order of the transports, and compares any two.
LEMMA HealthOrders ==
    ASSUME PoolTypeOK
    PROVE  /\ \A i \in Transports : ~ Healthier(i, i)
           /\ \A i, j \in Transports : i = j \/ Healthier(i, j) \/ Healthier(j, i)
           /\ \A i, j, k \in Transports :
                 Healthier(i, j) /\ Healthier(j, k) => Healthier(i, k)
<1>1. \A i \in Transports : i \in Int /\ stats[i].loss \in Nat /\ stats[i].rtt \in Int
  <2>1. stats \in [Transports -> Stat]
    BY Zenon DEF PoolTypeOK
  <2>2. \A i \in Transports : stats[i] \in Stat
    BY <2>1, Zenon
  <2>3. \A t \in Stat : t.loss \in Nat /\ t.rtt \in Int
    BY Zenon DEF Stat
  <2> QED
    BY <2>2, <2>3, Sizes, Zenon
<1>2. ASSUME NEW i \in Transports PROVE ~ Healthier(i, i)
  BY <1>1 DEF Healthier, Unseen
<1>3. ASSUME NEW i \in Transports, NEW j \in Transports
      PROVE  i = j \/ Healthier(i, j) \/ Healthier(j, i)
  BY <1>1 DEF Healthier, Unseen
<1>4. ASSUME NEW i \in Transports, NEW j \in Transports, NEW k \in Transports,
             Healthier(i, j), Healthier(j, k)
      PROVE  Healthier(i, k)
  BY <1>1, <1>4 DEF Healthier, Unseen
<1> QED
  BY <1>2, <1>3, <1>4, Zenon

\* An order by health; one exists, and solve_ranked_order is one.
Sorted(order) ==
    /\ order \in [1..N -> Transports]
    /\ \A k, l \in 1..N : k < l => Healthier(order[k], order[l])

LEMMA SortedExists ==
    ASSUME PoolTypeOK
    PROVE  \E order : Sorted(order)
<1> DEFINE Before(i) == {j \in Transports : Healthier(j, i)}
           rank == [i \in Transports |-> Cardinality(Before(i))]
<1>1. \A i \in Transports : IsFiniteSet(Before(i)) /\ Cardinality(Before(i)) \in Nat
  <2>1. ASSUME NEW i \in Transports
        PROVE  IsFiniteSet(Before(i)) /\ Cardinality(Before(i)) \in Nat
    <3>1. Before(i) \in SUBSET Transports
      BY Zenon
    <3>2. IsFiniteSet(Before(i))
      BY <3>1, Sizes, FS_Subset, Zenon
    <3> QED
      BY <3>2, FS_CardinalityType, Zenon
  <2> QED
    BY <2>1, Zenon
<1>2. ASSUME NEW i \in Transports, NEW j \in Transports, Healthier(i, j)
      PROVE  rank[i] < rank[j]
  <2>1. Before(i) \in SUBSET Before(j) /\ i \in Before(j) /\ i \notin Before(i)
    BY <1>2, HealthOrders, Zenon
  <2>2. Cardinality(Before(i)) <= Cardinality(Before(j))
    BY <2>1, <1>1, FS_Subset, Zenon
  <2>3. Cardinality(Before(j)) # Cardinality(Before(i))
    BY <2>1, <1>1, FS_Subset, Zenon
  <2>4. Cardinality(Before(i)) \in Nat /\ Cardinality(Before(j)) \in Nat
    BY <1>1, Zenon
  <2>5. rank[i] = Cardinality(Before(i)) /\ rank[j] = Cardinality(Before(j))
    BY Zenon
  <2> HIDE DEF Before, rank
  <2> QED
    BY <2>2, <2>3, <2>4, <2>5
<1>3. ASSUME NEW i \in Transports PROVE rank[i] \in Transports
  <2>1. Before(i) \in SUBSET (Transports \ {i})
    BY HealthOrders, Zenon
  <2>2. IsFiniteSet(Transports \ {i}) /\ Cardinality(Transports \ {i}) = N - 1
    <3>1. IsFiniteSet(Transports \ {i})
      BY Sizes, FS_RemoveElement, Zenon
    <3>2. Cardinality(Transports \ {i}) = Cardinality(Transports) - 1
      BY Sizes, FS_RemoveElement, Zenon
    <3> QED
      BY <3>1, <3>2, Sizes, Zenon
  <2>3. Cardinality(Before(i)) <= N - 1
    <3>1. Cardinality(Before(i)) <= Cardinality(Transports \ {i})
      BY <2>1, <2>2, FS_Subset, Zenon
    <3> QED
      BY <2>2, <3>1, Zenon
  <2>4. rank[i] = Cardinality(Before(i)) /\ Cardinality(Before(i)) \in Nat
    BY <1>1, Zenon
  <2>5. N \in Nat
    BY Sizes, Zenon
  <2> HIDE DEF Before, rank
  <2> QED
    BY <2>3, <2>4, <2>5 DEF Transports
<1> HIDE DEF Before
<1>4. rank \in Surjection(Transports, Transports)
  <2>1. rank \in [Transports -> Transports]
    BY <1>3, Zenon
  <2> HIDE DEF rank
  <2>2. ASSUME NEW i \in Transports, NEW j \in Transports, rank[i] = rank[j] PROVE i = j
    <3>1. rank[i] \in Int /\ rank[j] \in Int
      BY <1>3, Sizes, Zenon
    <3>2. ~ (rank[i] < rank[j]) /\ ~ (rank[j] < rank[i])
      BY <3>1, <2>2
    <3> QED
      BY <3>2, <1>2, HealthOrders, Zenon
  <2>3. rank \in Injection(Transports, Transports)
    BY <2>1, <2>2, Zenon DEF Injection, IsInjective
  <2> QED
    BY <2>3, Sizes, FS_Injection, Zenon
<1>5. \A r \in Transports : \E i \in Transports : rank[i] = r
  <2> HIDE DEF rank
  <2> QED
    BY <1>4, Zenon DEF Surjection
<1> DEFINE order == [k \in 1..N |-> CHOOSE i \in Transports : rank[i] = k - 1]
<1> HIDE DEF rank
<1>6. ASSUME NEW k \in 1..N PROVE order[k] \in Transports /\ rank[order[k]] = k - 1
  <2>1. k - 1 \in Transports
    BY Sizes DEF Transports
  <2> QED
    BY <2>1, <1>5, Zenon
<1>7. ASSUME NEW k \in 1..N, NEW l \in 1..N, k < l PROVE Healthier(order[k], order[l])
  <2>1. k - 1 \in Int /\ l - 1 \in Int /\ k - 1 < l - 1
    BY <1>7
  <2>2. /\ order[k] \in Transports /\ order[l] \in Transports
        /\ rank[order[k]] = k - 1 /\ rank[order[l]] = l - 1
    BY <1>6, Zenon
  <2>3. order[k] # order[l]
    <3> HIDE DEF order
    <3> QED
      BY <2>1, <2>2
  <2>4. ~ Healthier(order[l], order[k])
    <3>1. SUFFICES ASSUME Healthier(order[l], order[k]) PROVE FALSE
      BY Zenon
    <3>2. l - 1 < k - 1
      BY <3>1, <2>2, <1>2, Zenon
    <3> QED
      BY <2>1, <3>2
  <2> QED
    BY <2>2, <2>3, <2>4, HealthOrders, Zenon
<1>8. Sorted(order)
  BY <1>6, <1>7, Zenon DEF Sorted
<1> QED
  BY <1>8, Zenon
LEMMA SolveSorted ==
    ASSUME PoolTypeOK
    PROVE  Sorted(solve_ranked_order) /\ Permutes(solve_ranked_order)
<1> DEFINE f == solve_ranked_order
<1>1. Sorted(f)
  <2>1. PICK g : Sorted(g)
    BY SortedExists, Zenon
  <2> QED
    BY <2>1, Zenon DEF Sorted, solve_ranked_order
<1> HIDE DEF f
<1>2. /\ f \in [1..N -> Transports]
      /\ \A k, l \in 1..N : k < l => Healthier(f[k], f[l])
  BY <1>1, Zenon DEF Sorted
<1>3. ASSUME NEW k \in 1..N, NEW l \in 1..N, f[k] = f[l] PROVE k = l
  <2>1. f[k] \in Transports /\ ~ Healthier(f[k], f[k])
    BY <1>2, HealthOrders, Zenon
  <2>2. ~ (k < l) /\ ~ (l < k)
    BY <1>2, <1>3, <2>1, Zenon
  <2>3. N \in Nat
    BY Sizes, Zenon
  <2> QED
    BY <2>2, <2>3
<1>4. f \in Injection(1..N, Transports)
  BY <1>2, <1>3, Zenon DEF Injection, IsInjective
<1>5. Cardinality(1..N) = N
  <2>1. N \in Nat /\ N >= 1
    BY Sizes, Zenon
  <2>2. Cardinality(1..N) = IF 1 > N THEN 0 ELSE N - 1 + 1
    BY <2>1, FS_Interval
  <2> QED
    BY <2>1, <2>2
<1>6. f \in Surjection(1..N, Transports)
  BY <1>4, <1>5, Sizes, FS_Injection, Zenon
<1>7. \A i \in Transports : \E k \in 1..N : f[k] = i
  BY <1>6, Zenon DEF Surjection
<1> QED
  BY <1>1, <1>2, <1>3, <1>7, Zenon DEF Permutes, f

\* The solve ladder would ask j before i.
Ahead(j, i) ==
    \E k, l \in 1..N : solve_ranked_order[k] = j /\ solve_ranked_order[l] = i /\ k < l

\* The lower loss average is asked first.
LEMMA LighterFirst ==
    ASSUME PoolTypeOK, NEW i \in Transports, NEW j \in Transports,
           stats[j].loss < stats[i].loss
    PROVE  Ahead(j, i)
<1> DEFINE f == solve_ranked_order
<1>1. /\ \A k, l \in 1..N : k < l => Healthier(f[k], f[l])
      /\ \A h \in Transports : \E k \in 1..N : f[k] = h
  BY SolveSorted, Zenon DEF Sorted, Permutes
<1> HIDE DEF f
<1>2. PICK k \in 1..N : f[k] = j
  BY <1>1, Zenon
<1>3. PICK l \in 1..N : f[l] = i
  BY <1>1, Zenon
<1>4. Healthier(j, i) /\ ~ Healthier(i, i)
  BY HealthOrders, Zenon DEF Healthier
<1>5. ~ Healthier(i, j) /\ i # j
  BY <1>4, HealthOrders, Zenon
<1>6. ~ (l < k) /\ l # k
  BY <1>1, <1>2, <1>3, <1>5, Zenon
<1>7. k < l
  BY <1>6, Sizes
<1> QED
  BY <1>2, <1>3, <1>7, Zenon DEF f, Ahead
-----------------------------------------------------------------------------
LEMMA ExchangeFields ==
    ASSUME NEW x \in Exchanges
    PROVE  /\ x.pc \in {"idle", "run", "done"} /\ x.how \in {"none"} \cup Hows
           /\ x.at \in 1..N /\ x.elapsed \in Nat /\ x.deadline \in Nat
           /\ x.leg \in [Transports -> Leg]
           /\ x.result \in {"none", "answer", "exhausted", "deadline"}
           /\ \A i \in Transports :
                 /\ x.leg[i] \in Leg /\ x.leg[i].spent \in Nat /\ x.leg[i].bound \in Nat
                 /\ x.leg[i].pc \in {"todo"} \cup Open \cup Over
<1>1. /\ x.pc \in {"idle", "run", "done"} /\ x.how \in {"none"} \cup Hows
      /\ x.at \in 1..N /\ x.elapsed \in Nat /\ x.deadline \in Nat
      /\ x.leg \in [Transports -> Leg]
      /\ x.result \in {"none", "answer", "exhausted", "deadline"}
  BY Zenon DEF Exchanges
<1>2. ASSUME NEW g \in Leg
      PROVE  g.spent \in Nat /\ g.bound \in Nat /\ g.pc \in {"todo"} \cup Open \cup Over
  BY Zenon DEF Leg
<1> QED
  BY <1>1, <1>2, Zenon

LEMMA PcsDiffer ==
    /\ \A pc \in Open : pc # "todo" /\ pc # "failed" /\ pc # "answered" /\ pc \notin Over
    /\ "todo" \notin Over /\ "failed" \in Over /\ "answered" \in Over
    /\ "setup" \in Open /\ "wait" \in Open
    /\ "strict" \in Hows /\ "robin" \in Hows /\ "via" \in Hows /\ "solve" \in Hows
    /\ "all" \in Hows /\ "none" \notin Hows
BY Zenon DEF Open, Over, Hows

\* An open leg is the one an exchange stands at.
LEMMA OpenStands ==
    ASSUME NEW x, Under(x), Permutes(x.order), NEW i \in Transports, x.leg[i].pc \in Open,
           x.at \in 1..N
    PROVE  StandsAt(x, i)
<1>1. PICK w \in Transports : x.leg[w].pc \in Open /\ StandsAt(x, w)
  BY Zenon DEF Under
<1>2. CASE x.how = "all"
  BY <1>1, <1>2, Zenon DEF StandsAt
<1>3. CASE x.how # "all"
  <2>1. /\ w = x.order[x.at]
        /\ \A k \in 1..N : /\ k < x.at => x.leg[x.order[k]].pc = "failed"
                           /\ k > x.at => x.leg[x.order[k]].pc = "todo"
    BY <1>1, <1>3, Zenon DEF StandsAt
  <2>2. PICK k \in 1..N : x.order[k] = i
    BY Zenon DEF Permutes
  <2>3. ~ (k < x.at) /\ ~ (k > x.at)
    BY <2>1, <2>2, PcsDiffer, Zenon
  <2>4. k = x.at
    BY <2>3, Sizes
  <2> QED
    BY <1>1, <2>1, <2>2, <2>4, Zenon
<1> QED
  BY <1>2, <1>3, Zenon

\* An exchange whose legs only move between their two open states stands
\* where it stood.
LEMMA UnderKept ==
    ASSUME NEW x, NEW y, Under(x), y.how = x.how, y.order = x.order, y.at = x.at,
           x.at \in 1..N, x.how # "all" => Permutes(x.order),
           \A j \in Transports :
              y.leg[j].pc = x.leg[j].pc \/ (y.leg[j].pc \in Open /\ x.leg[j].pc \in Open)
    PROVE  Under(y)
<1>1. PICK w \in Transports : x.leg[w].pc \in Open /\ StandsAt(x, w)
  BY Zenon DEF Under
<1>2. y.leg[w].pc \in Open
  BY <1>1, Zenon
<1>3. CASE x.how = "all"
  BY <1>1, <1>2, <1>3, Zenon DEF Under, StandsAt
<1>4. CASE x.how # "all"
  <2>1. /\ w = x.order[x.at]
        /\ \A k \in 1..N : /\ k < x.at => x.leg[x.order[k]].pc = "failed"
                           /\ k > x.at => x.leg[x.order[k]].pc = "todo"
    BY <1>1, <1>4, Zenon DEF StandsAt
  <2>2. \A k \in 1..N : x.order[k] \in Transports
    BY <1>4, Zenon DEF Permutes
  <2>3. \A k \in 1..N : /\ k < y.at => y.leg[y.order[k]].pc = "failed"
                        /\ k > y.at => y.leg[y.order[k]].pc = "todo"
    BY <2>1, <2>2, PcsDiffer, Zenon
  <2>4. StandsAt(y, w)
    BY <1>4, <2>1, <2>3, Zenon DEF StandsAt
  <2> QED
    BY <1>2, <2>4, Zenon DEF Under
<1> QED
  BY <1>3, <1>4, Zenon

\* When the leg an exchange stands at is over, the exchange still stands
\* there.
LEMMA StandsKept ==
    ASSUME NEW x, NEW y, NEW i \in Transports, StandsAt(x, i), x.leg[i].pc \in Open,
           x.how # "all" => Permutes(x.order),
           y.how = x.how, y.order = x.order, y.at = x.at,
           \A j \in Transports \ {i} : y.leg[j].pc = x.leg[j].pc
    PROVE  StandsAt(y, i)
<1>1. CASE x.how = "all"
  BY <1>1, Zenon DEF StandsAt
<1>2. CASE x.how # "all"
  <2>1. /\ i = x.order[x.at]
        /\ \A k \in 1..N : /\ k < x.at => x.leg[x.order[k]].pc = "failed"
                           /\ k > x.at => x.leg[x.order[k]].pc = "todo"
    BY <1>2, Zenon DEF StandsAt
  <2>2. \A k \in 1..N : x.order[k] \in Transports
    BY <1>2, Zenon DEF Permutes
  <2>3. \A k \in 1..N : /\ k < y.at => y.leg[y.order[k]].pc = "failed"
                        /\ k > y.at => y.leg[y.order[k]].pc = "todo"
    BY <2>1, <2>2, PcsDiffer, Zenon
  <2> QED
    BY <1>2, <2>1, <2>3, Zenon DEF StandsAt
<1> QED
  BY <1>1, <1>2, Zenon

\* The last failure leaves no leg that has not failed.
LEMMA LastFails ==
    ASSUME NEW x, NEW y, NEW i \in Transports, StandsAt(x, i), x.leg[i].pc \in Open,
           Permutes(x.order), x.at \in 1..N,
           IF x.how = "all" THEN \A j \in Transports \ {i} : x.leg[j].pc = "failed"
           ELSE x.at = N,
           y.leg[i].pc = "failed",
           \A j \in Transports \ {i} : y.leg[j].pc = x.leg[j].pc
    PROVE  \A j \in Transports : y.leg[j].pc = "failed"
<1>1. CASE x.how = "all"
  BY <1>1, Zenon
<1>2. ASSUME x.how # "all", NEW j \in Transports, j # i PROVE x.leg[j].pc = "failed"
  <2>1. /\ i = x.order[N] /\ x.at = N
        /\ \A k \in 1..N : k < N => x.leg[x.order[k]].pc = "failed"
    BY <1>2, Zenon DEF StandsAt
  <2>2. PICK k \in 1..N : x.order[k] = j
    BY Zenon DEF Permutes
  <2>3. k # N
    BY <1>2, <2>1, <2>2, Zenon
  <2>4. k < N
    BY <2>3, Sizes
  <2> QED
    BY <2>1, <2>2, <2>4, Zenon
<1> QED
  BY <1>1, <1>2, Zenon

\* A race with an open leg left goes on; a ladder goes on to its next rung.
LEMMA RaceGoesOn ==
    ASSUME NEW x, NEW y, NEW i \in Transports, StandsAt(x, i), x.how = "all", y.how = "all",
           ~ (\A j \in Transports \ {i} : x.leg[j].pc = "failed"),
           y.leg[i].pc = "failed",
           \A j \in Transports \ {i} : y.leg[j].pc = x.leg[j].pc
    PROVE  Under(y)
<1>1. PICK j \in Transports \ {i} : x.leg[j].pc # "failed"
  BY Zenon
<1>2. \A l \in Transports \ {i} : x.leg[l].pc \in Open \cup {"failed"}
  BY Zenon DEF StandsAt
<1>3. y.leg[j].pc \in Open
  BY <1>1, <1>2, Zenon
<1>4. StandsAt(y, j)
  BY <1>2, Zenon DEF StandsAt
<1> QED
  BY <1>1, <1>3, <1>4, Zenon DEF Under

LEMMA LadderGoesOn ==
    ASSUME NEW x, NEW y, NEW i \in Transports, StandsAt(x, i), x.how # "all",
           Permutes(x.order), x.at \in 1..N, x.at # N,
           y.how = x.how, y.order = x.order, y.at = x.at + 1,
           y.leg[i].pc = "failed", y.leg[x.order[x.at + 1]].pc = "setup",
           \A j \in Transports \ {i, x.order[x.at + 1]} : y.leg[j].pc = x.leg[j].pc
    PROVE  Under(y) /\ x.leg[x.order[x.at + 1]].pc = "todo" /\ x.order[x.at + 1] # i
                    /\ x.at + 1 \in 1..N /\ x.order[x.at + 1] \in Transports
<1>1. /\ i = x.order[x.at]
      /\ \A k \in 1..N : /\ k < x.at => x.leg[x.order[k]].pc = "failed"
                         /\ k > x.at => x.leg[x.order[k]].pc = "todo"
  BY Zenon DEF StandsAt
<1>2. /\ x.at + 1 \in 1..N /\ x.at + 1 > x.at /\ x.at + 1 # x.at
      /\ \A k \in 1..N : /\ k < x.at + 1 => k < x.at \/ k = x.at
                         /\ k > x.at + 1 => k > x.at
                         /\ k < x.at + 1 \/ k > x.at + 1 => k # x.at + 1
                         /\ k > x.at => k # x.at
                         /\ k < x.at => k # x.at
  BY Sizes
<1>3. /\ \A k \in 1..N : x.order[k] \in Transports
      /\ \A k, l \in 1..N : x.order[k] = x.order[l] => k = l
  BY Zenon DEF Permutes
<1>4. x.order[x.at + 1] # i /\ x.leg[x.order[x.at + 1]].pc = "todo"
  BY <1>1, <1>2, <1>3, Zenon
<1>5. ASSUME NEW k \in 1..N, k < x.at + 1 PROVE y.leg[x.order[k]].pc = "failed"
  <2>1. CASE k = x.at
    BY <1>1, <2>1, Zenon
  <2>2. CASE k # x.at
    <3>1. k < x.at /\ k # x.at + 1
      BY <1>2, <1>5, <2>2, Zenon
    <3>2. x.order[k] \in Transports \ {i, x.order[x.at + 1]}
      BY <1>1, <1>2, <1>3, <2>2, <3>1, Zenon
    <3> QED
      BY <1>1, <3>1, <3>2, Zenon
  <2> QED
    BY <2>1, <2>2, Zenon
<1>6. ASSUME NEW k \in 1..N, k > x.at + 1 PROVE y.leg[x.order[k]].pc = "todo"
  <2>1. k > x.at /\ k # x.at + 1 /\ k # x.at
    BY <1>2, <1>6, Zenon
  <2>2. x.order[k] \in Transports \ {i, x.order[x.at + 1]}
    BY <1>1, <1>2, <1>3, <2>1, Zenon
  <2> QED
    BY <1>1, <2>1, <2>2, Zenon
<1>7. StandsAt(y, x.order[x.at + 1])
  BY <1>5, <1>6, Zenon DEF StandsAt
<1>8. Under(y)
  BY <1>2, <1>3, <1>7, PcsDiffer, Zenon DEF Under
<1> QED
  BY <1>2, <1>3, <1>4, <1>8, Zenon
-----------------------------------------------------------------------------
\* A step of one exchange leaves the others as they were.
LEMMA CallStep ==
    ASSUME PoolIInv, NEW c \in Calls, NEW y \in Exchanges, GoodCall(y, server),
           call' = [call EXCEPT ![c] = y], server' = server
    PROVE  /\ call' \in [Calls -> Exchanges]
           /\ \A d \in Calls : GoodCall(call'[d], server')
           /\ call'[c] = y
           /\ \A d \in Calls \ {c} : call'[d] = call[d]
<1>1. call \in [Calls -> Exchanges] /\ \A d \in Calls : GoodCall(call[d], server)
  BY Zenon DEF PoolIInv, PoolTypeOK
<1>2. call'[c] = y /\ \A d \in Calls \ {c} : call'[d] = call[d]
  BY <1>1, Zenon
<1>3. call' \in [Calls -> Exchanges]
  BY <1>1, Zenon
<1> QED
  BY <1>1, <1>2, <1>3, Zenon

\* Between x and y, none of the legs in T has ended.
NoneEnds(x, y, T) ==
    \A j \in T : \/ y.leg[j].pc = x.leg[j].pc
                 \/ y.leg[j].pc \notin Over /\ x.leg[j].pc \notin Over

\* A step that ends no leg leaves the averages true.
LEMMA StatsKept ==
    ASSUME PoolIInv, NEW c \in Calls, NEW y, call'[c] = y,
           \A d \in Calls \ {c} : call'[d] = call[d], stats' = stats,
           NoneEnds(call[c], y, Transports)
    PROVE  \A j \in Transports : GoodStat(j)'
<1>1. SUFFICES ASSUME NEW j \in Transports PROVE GoodStat(j)'
  BY Zenon
<1>2. \A d \in Calls : /\ call'[d].leg[j].pc \in Over <=> call[d].leg[j].pc \in Over
                       /\ call'[d].leg[j].pc = "failed" <=> call[d].leg[j].pc = "failed"
  BY PcsDiffer, Zenon DEF NoneEnds
<1>3. Sampled(j)' = Sampled(j)
  BY <1>2, Zenon DEF Sampled
<1>4. EverFailed(j)' <=> EverFailed(j)
  BY <1>2, Zenon DEF EverFailed, LegsIn
<1>5. GoodStat(j)
  BY Zenon DEF PoolIInv
<1> QED
  BY <1>3, <1>4, <1>5, Zenon DEF GoodStat, Scale

LEMMA SampleSize ==
    ASSUME NEW i
    PROVE  IsFiniteSet(Sampled(i)) /\ Cardinality(Sampled(i)) \in Nat
<1>1. Sampled(i) \in SUBSET Calls
  BY Zenon DEF Sampled
<1>2. IsFiniteSet(Calls)
  BY PoolAssumption
<1>3. IsFiniteSet(Sampled(i))
  BY <1>1, <1>2, FS_Subset, Zenon
<1> QED
  BY <1>3, FS_CardinalityType, Zenon

\* A leg that ends is one more sample, and there is room for it.
LEMMA OneMore ==
    ASSUME NEW i, NEW c \in Calls, c \notin Sampled(i), Sampled(i)' = Sampled(i) \cup {c}
    PROVE  /\ Cardinality(Sampled(i)') = Cardinality(Sampled(i)) + 1
           /\ Cardinality(Sampled(i)) \in Nat
           /\ Cardinality(Sampled(i)) + 1 <= MaxSamples
<1>1. IsFiniteSet(Sampled(i)) /\ Cardinality(Sampled(i)) \in Nat
  BY SampleSize, Zenon
<1>2. Cardinality(Sampled(i) \cup {c}) = Cardinality(Sampled(i)) + 1
  BY <1>1, FS_AddElement, Zenon
<1>3. Sampled(i) \cup {c} \in SUBSET Calls
  BY Zenon DEF Sampled
<1>4. Cardinality(Sampled(i) \cup {c}) <= Cardinality(Calls)
  BY <1>3, PoolAssumption, FS_Subset
<1>5. Cardinality(Calls) \in Nat /\ Cardinality(Calls) <= MaxSamples /\ MaxSamples \in Nat
  BY PoolAssumption, FS_CardinalityType
<1>6. Cardinality(Sampled(i)) + 1 <= MaxSamples
  BY <1>1, <1>2, <1>4, <1>5
<1> QED
  BY <1>1, <1>2, <1>6, Zenon

LEMMA ScaleFacts ==
    /\ Scale \in Nat
    /\ \A n \in Nat : n + 1 <= MaxSamples =>
          /\ Power[MaxSamples - n] = 5 * Power[MaxSamples - (n + 1)]
          /\ Power[MaxSamples - (n + 1)] \in Nat
<1>1. MaxSamples \in Nat
  BY PoolAssumption
<1>2. MaxSamples \in 0..MaxSamples
  BY <1>1
<1>3. Scale \in Nat
  BY <1>2, PowerFacts, Zenon DEF Scale
<1>4. ASSUME NEW n \in Nat, n + 1 <= MaxSamples
      PROVE  /\ Power[MaxSamples - n] = 5 * Power[MaxSamples - (n + 1)]
             /\ Power[MaxSamples - (n + 1)] \in Nat
  <2>1. /\ MaxSamples - n \in 1..MaxSamples /\ MaxSamples - (n + 1) \in 0..MaxSamples
        /\ (MaxSamples - n) - 1 = MaxSamples - (n + 1)
    BY <1>1, <1>4
  <2> QED
    BY <2>1, PowerFacts, Zenon
<1> QED
  BY <1>3, <1>4, Zenon

\* A step that ends the leg at i records one sample for it.
LEMMA StatsRecorded ==
    ASSUME PoolIInv, NEW c \in Calls, NEW y, call'[c] = y,
           \A d \in Calls \ {c} : call'[d] = call[d],
           NEW i \in Transports, NEW rtt \in Int, record(i, rtt),
           call[c].leg[i].pc \in Open,
           y.leg[i].pc = (IF rtt = Unseen THEN "failed" ELSE "answered"),
           NoneEnds(call[c], y, Transports \ {i})
    PROVE  stats' \in [Transports -> Stat] /\ \A j \in Transports : GoodStat(j)'
<1>0. stats \in [Transports -> Stat] /\ stats[i] \in Stat
  BY Zenon DEF PoolIInv, PoolTypeOK
<1>1. stats'[i] = observe(stats[i], rtt) /\ \A j \in Transports \ {i} : stats'[j] = stats[j]
  BY <1>0, Zenon DEF record
<1> DEFINE st == stats[i]
           ob == observe(st, rtt)
<1>2. st.loss \in Nat /\ st.rtt \in Int /\ st.samples \in Nat
  BY <1>0, Zenon DEF Stat
<1>3. /\ ob.samples = st.samples + 1
      /\ ob.loss = ((IF rtt = Unseen THEN Scale ELSE 0) + 4 * st.loss) \div 5
      /\ ob = [samples |-> ob.samples, loss |-> ob.loss, rtt |-> ob.rtt]
      /\ ob.rtt = IF rtt = Unseen THEN st.rtt
                  ELSE IF st.rtt = Unseen THEN rtt * Scale
                  ELSE (rtt * Scale + 4 * st.rtt) \div 5
  BY Zenon DEF observe
<1> HIDE DEF st, ob
<1>4. ob.samples \in Nat /\ ob.loss \in Nat /\ ob.rtt \in Int
  <2>1. ob.samples \in Nat /\ ob.loss \in Nat
    BY <1>2, <1>3, ScaleFacts
  <2>2. rtt * Scale \in Int
    BY ScaleFacts
  <2>3. ob.rtt \in Int
    BY <1>2, <1>3, <2>2
  <2> QED
    BY <2>1, <2>3, Zenon
<1>5. stats' \in [Transports -> Stat]
  <2>1. ob \in Stat
    BY <1>3, <1>4, Zenon DEF Stat
  <2> QED
    BY <1>0, <2>1, Zenon DEF record, ob, st
<1>6. ASSUME NEW j \in Transports, j # i PROVE GoodStat(j)'
  <2>2. \A d \in Calls : /\ call'[d].leg[j].pc \in Over <=> call[d].leg[j].pc \in Over
                         /\ call'[d].leg[j].pc = "failed" <=> call[d].leg[j].pc = "failed"
    BY <1>6, PcsDiffer, Zenon DEF NoneEnds
  <2>3. Sampled(j)' = Sampled(j)
    BY <2>2, Zenon DEF Sampled
  <2>4. EverFailed(j)' <=> EverFailed(j)
    BY <2>2, Zenon DEF EverFailed, LegsIn
  <2>5. GoodStat(j) /\ stats'[j] = stats[j]
    BY <1>1, <1>6, Zenon DEF PoolIInv
  <2> QED
    BY <2>3, <2>4, <2>5, Zenon DEF GoodStat, Scale
<1>7. GoodStat(i)'
  <2>1. c \notin Sampled(i) /\ Sampled(i)' = Sampled(i) \cup {c}
    <3>1. call[c].leg[i].pc \notin Over
      BY PcsDiffer, Zenon
    <3>2. call'[c].leg[i].pc \in Over
      BY PcsDiffer, Zenon
    <3>3. \A d \in Calls \ {c} : call'[d].leg[i].pc = call[d].leg[i].pc
      BY Zenon
    <3> QED
      BY <3>1, <3>2, <3>3, Zenon DEF Sampled
  <2>2. /\ Cardinality(Sampled(i)') = Cardinality(Sampled(i)) + 1
        /\ Cardinality(Sampled(i)) + 1 <= MaxSamples
    BY <2>1, OneMore, Zenon
  <2>3. /\ st.samples = Cardinality(Sampled(i))
        /\ Power[MaxSamples - st.samples] <= Scale
        /\ IF EverFailed(i) THEN st.loss >= Power[MaxSamples - st.samples] ELSE st.loss = 0
    BY Zenon DEF PoolIInv, GoodStat, st
  <2>4. stats'[i] = ob
    BY <1>1, Zenon DEF ob, st
  <2>5. EverFailed(i)' <=> EverFailed(i) \/ rtt = Unseen
    <3>1. call'[c].leg[i].pc = "failed" <=> rtt = Unseen
      BY Zenon
    <3>2. call[c].leg[i].pc # "failed"
      BY PcsDiffer, Zenon
    <3>3. \A d \in Calls \ {c} : call'[d].leg[i].pc = call[d].leg[i].pc
      BY Zenon
    <3> QED
      BY <3>1, <3>2, <3>3, Zenon DEF EverFailed, LegsIn
  <2> DEFINE n == st.samples
             P == Power[MaxSamples - n]
             Q == Power[MaxSamples - (n + 1)]
  <2>6. n \in Nat /\ n + 1 <= MaxSamples /\ ob.samples = n + 1
    BY <1>2, <1>3, <2>2, <2>3, Zenon
  <2>7. P = 5 * Q /\ Q \in Nat /\ Scale \in Nat
    BY <2>6, ScaleFacts, Zenon
  <2>8. ob.samples = Cardinality(Sampled(i)')
    BY <1>3, <2>2, <2>3, Zenon
  <2>9. P <= Scale
    BY <2>3, Zenon
  <2>10. (EverFailed(i) => st.loss >= P) /\ (~ EverFailed(i) => st.loss = 0)
    BY <2>3, Zenon
  <2> HIDE DEF n, P, Q
  <2>11. Q <= Scale
    BY <2>7, <2>9
  <2>12. ASSUME EverFailed(i) \/ rtt = Unseen PROVE ob.loss >= Q
    <3>1. CASE rtt = Unseen
      <4>1. ob.loss = (Scale + 4 * st.loss) \div 5
        BY <1>3, <3>1, Zenon
      <4> QED
        BY <4>1, <1>2, <2>7, <2>9
    <3>2. CASE rtt # Unseen
      <4>1. ob.loss = (0 + 4 * st.loss) \div 5
        BY <1>3, <3>2, Zenon
      <4>2. st.loss >= P
        BY <2>10, <2>12, <3>2, Zenon
      <4> QED
        BY <4>1, <4>2, <1>2, <2>7
    <3> QED
      BY <3>1, <3>2, Zenon
  <2>13. ASSUME ~ (EverFailed(i) \/ rtt = Unseen) PROVE ob.loss = 0
    <3>1. ob.loss = (0 + 4 * st.loss) \div 5 /\ st.loss = 0
      BY <1>3, <2>10, <2>13, Zenon
    <3> QED
      BY <3>1
  <2>14. /\ Power[MaxSamples - ob.samples] <= Scale
         /\ EverFailed(i)' => ob.loss >= Power[MaxSamples - ob.samples]
         /\ ~ EverFailed(i)' => ob.loss = 0
    BY <2>5, <2>6, <2>11, <2>12, <2>13, Zenon DEF Q
  <2> QED
    BY <2>4, <2>8, <2>14, Zenon DEF GoodStat, Scale
<1> QED
  BY <1>5, <1>6, <1>7, Zenon
-----------------------------------------------------------------------------
\* The parts of a step, put together.
LEMMA StepInv ==
    ASSUME PoolIInv, NEW c \in Calls, NEW y \in Exchanges, GoodCall(y, server),
           call' = [call EXCEPT ![c] = y], server' = server,
           cert \subseteq cert', cert' \subseteq Transports,
           override' = override, rr_cursor' \in Nat, stats' \in [Transports -> Stat],
           \A j \in Transports : GoodStat(j)'
    PROVE  PoolIInv'
<1>1. /\ call' \in [Calls -> Exchanges]
      /\ \A d \in Calls : GoodCall(call'[d], server')
  BY CallStep, Zenon
<1>2. server \in [Transports -> Servers] /\ override \in Nat
  BY Zenon DEF PoolIInv, PoolTypeOK
<1>3. PoolTypeOK'
  BY <1>1, <1>2, Zenon DEF PoolTypeOK
<1>4. {i \in Transports : ~server'[i].cold} \subseteq cert'
  BY Zenon DEF PoolIInv
<1> QED
  BY <1>1, <1>3, <1>4, Zenon DEF PoolIInv

\* What the invariant says of one exchange.
LEMMA CallFacts ==
    ASSUME PoolIInv, NEW c \in Calls
    PROVE  /\ call[c] \in Exchanges /\ GoodCall(call[c], server)
           /\ server \in [Transports -> Servers] /\ cert \subseteq Transports
           /\ rr_cursor \in Nat /\ stats \in [Transports -> Stat]
           /\ override \in Nat /\ effective_timeout \in Nat
           /\ \A i \in Transports : ~ server[i].cold => i \in cert
<1>1. /\ call[c] \in Exchanges /\ GoodCall(call[c], server)
      /\ server \in [Transports -> Servers] /\ cert \subseteq Transports
      /\ rr_cursor \in Nat /\ stats \in [Transports -> Stat] /\ override \in Nat
      /\ \A i \in Transports : ~ server[i].cold => i \in cert
  BY Zenon DEF PoolIInv, PoolTypeOK
<1>2. Timeout \in Nat
  BY PoolAssumption
<1>3. effective_timeout \in Nat
  BY <1>1, <1>2, Zenon DEF effective_timeout
<1> QED
  BY <1>1, <1>3, Zenon

LEMMA ServerFacts ==
    ASSUME PoolIInv, NEW i \in Transports
    PROVE  server[i].after \in Nat /\ server[i].cold \in BOOLEAN /\ Warmup(server[i]) \in {0, 1}
<1>1. server[i] \in Servers
  BY Zenon DEF PoolIInv, PoolTypeOK
<1>2. server[i].after \in Nat \ {0} /\ server[i].cold \in BOOLEAN
  BY <1>1, PoolAssumption, Zenon
<1>3. Warmup(server[i]) \in {0, 1}
  BY Zenon DEF Warmup
<1> QED
  BY <1>2, <1>3, Zenon

LEMMA BeginKeeps ==
    ASSUME PoolIInv, NEW c \in Calls, NEW how \in Hows, NEW order, Permutes(order),
           NEW deadline \in Deadlines, Begin(c, how, order, deadline), rr_cursor' \in Nat
    PROVE  PoolIInv'
<1> DEFINE x == call[c]
           legs == [i \in Transports |->
                      IF how = "all" \/ i = order[1] THEN NewLeg ELSE NoLeg]
           y == [x EXCEPT !.pc = "run", !.how = how, !.order = order,
                   !.deadline = deadline, !.leg = legs]
<1>1. x \in Exchanges /\ GoodCall(x, server) /\ x.pc = "idle" /\ effective_timeout \in Nat
  BY CallFacts, Zenon DEF Begin
<1>2. /\ call' = [call EXCEPT ![c] = y] /\ server' = server /\ cert' = cert
      /\ override' = override /\ stats' = stats
  BY Zenon DEF Begin
<1>3. Idle(x)
  BY <1>1, Zenon DEF GoodCall, Shape
<1>4. deadline \in Nat
  BY PoolAssumption
<1>5. NewLeg \in Leg /\ NoLeg \in Leg
  BY <1>1, Zenon DEF Leg, NewLeg, NoLeg, Open
<1>6. legs \in [Transports -> Leg]
  BY <1>5, Zenon
<1>7. order \in [1..N -> Transports]
  BY Zenon DEF Permutes
<1>8. y \in Exchanges
  BY <1>1, <1>4, <1>6, <1>7, Zenon DEF Exchanges
<1>9. /\ y.pc = "run" /\ y.how = how /\ y.order = order /\ y.leg = legs
      /\ y.at = 1 /\ y.elapsed = 0 /\ y.result = "none"
  BY <1>1, <1>3, Zenon DEF Exchanges, Idle
<1>10. /\ NewLeg.pc = "setup" /\ NewLeg.spent = 0 /\ NoLeg.pc = "todo"
       /\ \A j \in Transports : legs[j] = IF how = "all" \/ j = order[1] THEN NewLeg ELSE NoLeg
  BY Zenon DEF NewLeg, NoLeg
<1> HIDE DEF y, legs
<1>11. 1 \in 1..N /\ order[1] \in Transports /\ \A k \in 1..N : ~ (k < 1) /\ (k > 1 => k # 1)
  <2>1. 1 \in 1..N /\ \A k \in 1..N : ~ (k < 1) /\ (k > 1 => k # 1)
    BY Sizes
  <2> QED
    BY <2>1, <1>7, Zenon
<1>12. Under(y)
  <2>1. y.leg[order[1]].pc \in Open
    BY <1>9, <1>10, <1>11, PcsDiffer, Zenon
  <2>2. CASE how = "all"
    BY <1>9, <1>10, <1>11, <2>1, <2>2, PcsDiffer, Zenon DEF Under, StandsAt
  <2>3. CASE how # "all"
    <3>1. ASSUME NEW k \in 1..N, k > 1 PROVE y.leg[order[k]].pc = "todo"
      <4>1. order[k] # order[1] /\ order[k] \in Transports
        BY <1>11, <3>1, Zenon DEF Permutes
      <4> QED
        BY <4>1, <1>9, <1>10, <2>3, Zenon
    <3>2. StandsAt(y, order[1])
      BY <1>9, <1>11, <2>3, <3>1, Zenon DEF StandsAt
    <3> QED
      BY <1>11, <2>1, <3>2, Zenon DEF Under
  <2> QED
    BY <2>2, <2>3, Zenon
<1>13. Timely(y, server)
  <2>1. SUFFICES ASSUME y.how = "all", NEW i \in Transports
                 PROVE  LegTimely(y.leg[i], server[i], y.elapsed)
    BY Zenon DEF Timely
  <2>2. y.leg[i].pc = "setup" /\ y.leg[i].spent = 0 /\ y.elapsed = 0
    BY <1>9, <1>10, <2>1, Zenon
  <2>3. 0 <= Warmup(server[i])
    BY ServerFacts
  <2> QED
    BY <2>2, <2>3, Zenon DEF LegTimely
<1>14. GoodCall(y, server)
  BY <1>9, <1>12, <1>13, Zenon DEF GoodCall, Shape
<1>15. \A j \in Transports : y.leg[j].pc \notin Over /\ x.leg[j].pc \notin Over
  BY <1>3, <1>9, <1>10, PcsDiffer, Zenon DEF Idle
<1>16. call'[c] = y /\ \A d \in Calls \ {c} : call'[d] = call[d]
  BY <1>2, <1>8, <1>14, CallStep, Zenon
<1>17. \A j \in Transports : GoodStat(j)'
  <2>1. NoneEnds(call[c], y, Transports)
    BY <1>15, Zenon DEF NoneEnds
  <2> QED
    BY <1>2, <1>16, <2>1, StatsKept, Zenon
<1>18. cert \subseteq cert' /\ cert' \subseteq Transports /\ stats' \in [Transports -> Stat]
  BY <1>2, CallFacts, Zenon
<1> QED
  BY <1>2, <1>8, <1>14, <1>17, <1>18, StepInv, Zenon

LEMMA StartKeeps ==
    ASSUME PoolIInv, NEW c \in Calls, Start(c)
    PROVE  PoolIInv'
<1>1. PICK deadline \in Deadlines :
         \/ Exchange(c, deadline)
         \/ RoundRobin(c, deadline)
         \/ \E i \in Transports : ExchangeVia(c, i, deadline)
         \/ Solve(c, deadline)
         \/ Race(c, deadline)
  BY Zenon DEF Start
<1>2. rr_cursor \in Nat /\ rr_cursor + 1 \in Nat
  BY CallFacts
<1>3. PoolTypeOK /\ 0 \in Transports
  BY Sizes, Zenon DEF PoolIInv
<1>4. CASE Exchange(c, deadline)
  <2>1. Begin(c, "strict", Ring(0), deadline) /\ rr_cursor' = rr_cursor
    BY <1>4, Zenon DEF Exchange
  <2> QED
    BY <1>2, <1>3, <2>1, RingPermutes, PcsDiffer, BeginKeeps, Zenon
<1>5. CASE RoundRobin(c, deadline)
  <2>1. Begin(c, "robin", Ring(rr_cursor % N), deadline) /\ rr_cursor' = rr_cursor + 1
    BY <1>5, Zenon DEF RoundRobin
  <2>2. rr_cursor % N \in Transports
    BY <1>2, ModFacts, Zenon
  <2> QED
    BY <1>2, <2>1, <2>2, RingPermutes, PcsDiffer, BeginKeeps, Zenon
<1>6. CASE \E i \in Transports : ExchangeVia(c, i, deadline)
  <2>1. PICK i \in Transports : Begin(c, "via", Preferring(i), deadline) /\ rr_cursor' = rr_cursor
    BY <1>6, Zenon DEF ExchangeVia
  <2> QED
    BY <1>2, <2>1, PreferringPermutes, PcsDiffer, BeginKeeps, Zenon
<1>7. CASE Solve(c, deadline)
  <2>1. Begin(c, "solve", solve_ranked_order, deadline) /\ rr_cursor' = rr_cursor
    BY <1>7, Zenon DEF Solve
  <2> QED
    BY <1>2, <1>3, <2>1, SolveSorted, PcsDiffer, BeginKeeps, Zenon
<1>8. CASE Race(c, deadline)
  <2>1. Begin(c, "all", Ring(0), deadline) /\ rr_cursor' = rr_cursor
    BY <1>8, Zenon DEF Race
  <2> QED
    BY <1>2, <1>3, <2>1, RingPermutes, PcsDiffer, BeginKeeps, Zenon
<1> QED
  BY <1>1, <1>4, <1>5, <1>6, <1>7, <1>8, Zenon
\* The facts every step of a running exchange starts from.
LEMMA RunFacts ==
    ASSUME PoolIInv, NEW c \in Calls, Running(c)
    PROVE  /\ call[c].pc = "run" /\ call[c].how \in Hows /\ Permutes(call[c].order)
           /\ call[c].result = "none" /\ Under(call[c]) /\ Timely(call[c], server)
           /\ call[c].at \in 1..N /\ call[c].leg \in [Transports -> Leg]
           /\ call[c].elapsed \in Nat
<1>1. call[c].pc = "run" /\ call[c] \in Exchanges /\ GoodCall(call[c], server)
  BY CallFacts, Zenon DEF Running
<1>2. call[c].at \in 1..N /\ call[c].leg \in [Transports -> Leg] /\ call[c].elapsed \in Nat
  BY <1>1, ExchangeFields, Zenon
<1> QED
  BY <1>1, <1>2, Zenon DEF GoodCall, Shape

LEMMA ToWaitKeeps ==
    ASSUME PoolIInv, NEW c \in Calls, NEW i \in Transports, At(c, i, "setup"), ToWait(c, i),
           server' = server, cert \subseteq cert', cert' \subseteq Transports,
           override' = override, rr_cursor' = rr_cursor, stats' = stats
    PROVE  PoolIInv'
<1> DEFINE x == call[c]
           g == [pc |-> "wait", spent |-> 0, bound |-> effective_timeout]
           legs == [x.leg EXCEPT ![i] = g]
           y == [x EXCEPT !.leg = legs]
<1>1. /\ x \in Exchanges /\ effective_timeout \in Nat /\ Running(c) /\ x.leg[i].pc = "setup"
  BY CallFacts, Zenon DEF At
<1>2. call' = [call EXCEPT ![c] = y]
  BY Zenon DEF ToWait
<1>3. /\ x.pc = "run" /\ x.how \in Hows /\ Permutes(x.order) /\ x.result = "none"
      /\ Under(x) /\ Timely(x, server) /\ x.at \in 1..N /\ x.leg \in [Transports -> Leg]
      /\ x.elapsed \in Nat
  BY <1>1, RunFacts, Zenon
<1>4. g \in Leg /\ g.pc = "wait" /\ g.spent = 0
  BY <1>1, Zenon DEF Leg, Open
<1> HIDE DEF g
<1>5. legs \in [Transports -> Leg] /\ legs[i] = g /\ \A j \in Transports \ {i} : legs[j] = x.leg[j]
  BY <1>3, <1>4, Zenon
<1> HIDE DEF legs
<1>6. y \in Exchanges
  BY <1>1, <1>5, Zenon DEF Exchanges
<1>7. /\ y.pc = x.pc /\ y.how = x.how /\ y.order = x.order /\ y.leg = legs
      /\ y.at = x.at /\ y.elapsed = x.elapsed /\ y.result = x.result
  BY <1>1, Zenon DEF Exchanges
<1> HIDE DEF y, x
<1>8. \A j \in Transports :
         y.leg[j].pc = x.leg[j].pc \/ (y.leg[j].pc \in Open /\ x.leg[j].pc \in Open)
  BY <1>1, <1>4, <1>5, <1>7, PcsDiffer, Zenon
<1>9. Under(y)
  BY <1>3, <1>7, <1>8, UnderKept, Zenon
<1>10. Timely(y, server)
  <2>1. SUFFICES ASSUME y.how = "all", NEW j \in Transports
                 PROVE  LegTimely(y.leg[j], server[j], y.elapsed)
    BY Zenon DEF Timely
  <2>2. LegTimely(x.leg[j], server[j], x.elapsed)
    BY <1>3, <1>7, <2>1, Zenon DEF Timely
  <2>3. CASE j # i
    BY <1>5, <1>7, <2>2, <2>3, Zenon
  <2>4. CASE j = i
    <3>1. y.leg[j].pc = "wait" /\ y.leg[j].spent = 0 /\ y.elapsed = x.elapsed
      BY <1>4, <1>5, <1>7, <2>4, Zenon
    <3>2. Gets(server[j]) => x.elapsed = x.leg[j].spent /\ x.leg[j].spent <= Warmup(server[j])
      BY <1>1, <2>2, <2>4, Zenon DEF LegTimely
    <3>3. Warmup(server[j]) \in {0, 1} /\ server[j].after \in Nat
      BY ServerFacts, Zenon
    <3>4. Gets(server[j]) => x.elapsed <= Warmup(server[j]) + 0 /\ 0 <= server[j].after
      BY <3>2, <3>3, <1>3
    <3> QED
      BY <3>1, <3>4, Zenon DEF LegTimely
  <2> QED
    BY <2>3, <2>4, Zenon
<1>11. GoodCall(y, server)
  BY <1>3, <1>7, <1>9, <1>10, Zenon DEF GoodCall, Shape
<1>12. call'[c] = y /\ \A d \in Calls \ {c} : call'[d] = call[d]
  BY <1>2, <1>6, <1>11, CallStep, Zenon
<1>13. \A j \in Transports : GoodStat(j)'
  <2>1. NoneEnds(call[c], y, Transports)
    BY <1>8, PcsDiffer, Zenon DEF x, NoneEnds
  <2> QED
    BY <2>1, <1>12, StatsKept, Zenon
<1>14. stats' \in [Transports -> Stat] /\ rr_cursor' \in Nat
  BY CallFacts, Zenon
<1> QED
  BY <1>2, <1>6, <1>11, <1>13, <1>14, StepInv, Zenon

LEMMA DeadlineKeeps ==
    ASSUME PoolIInv, NEW c \in Calls, DeadlineHit(c)
    PROVE  PoolIInv'
<1> DEFINE x == call[c]
           y == [x EXCEPT !.pc = "done", !.result = "deadline"]
<1>1. x \in Exchanges /\ Running(c) /\ x.elapsed >= x.deadline
  BY CallFacts, Zenon DEF DeadlineHit
<1>2. /\ call' = [call EXCEPT ![c] = y] /\ server' = server /\ cert' = cert
      /\ override' = override /\ stats' = stats /\ rr_cursor' = rr_cursor
  BY Zenon DEF DeadlineHit
<1>3. /\ x.pc = "run" /\ x.how \in Hows /\ Permutes(x.order) /\ x.result = "none"
      /\ Under(x) /\ Timely(x, server) /\ x.at \in 1..N
  BY <1>1, RunFacts, Zenon
<1>6. y \in Exchanges
  BY <1>1, Zenon DEF Exchanges
<1>7. /\ y.pc = "done" /\ y.how = x.how /\ y.order = x.order /\ y.leg = x.leg
      /\ y.at = x.at /\ y.elapsed = x.elapsed /\ y.result = "deadline"
      /\ y.deadline = x.deadline
  BY <1>1, Zenon DEF Exchanges
<1> HIDE DEF y, x
<1>9. Under(y)
  BY <1>3, <1>7, UnderKept, Zenon
<1>10. Timely(y, server)
  BY <1>3, <1>7, Zenon DEF Timely
<1>11. GoodCall(y, server)
  BY <1>1, <1>3, <1>7, <1>9, <1>10, Zenon DEF GoodCall, Shape, Late
<1>12. call'[c] = y /\ \A d \in Calls \ {c} : call'[d] = call[d]
  BY <1>2, <1>6, <1>11, CallStep, Zenon
<1>13. \A j \in Transports : GoodStat(j)'
  <2>1. NoneEnds(call[c], y, Transports)
    BY <1>7, Zenon DEF x, NoneEnds
  <2> QED
    BY <1>2, <1>12, <2>1, StatsKept, Zenon
<1>14. /\ stats' \in [Transports -> Stat] /\ rr_cursor' \in Nat
       /\ cert \subseteq cert' /\ cert' \subseteq Transports
  BY <1>2, CallFacts, Zenon
<1> QED
  BY <1>2, <1>6, <1>11, <1>13, <1>14, StepInv, Zenon

LEMMA TickKeeps ==
    ASSUME PoolIInv, NEW c \in Calls, Tick(c)
    PROVE  PoolIInv'
<1> DEFINE x == call[c]
           legs == [j \in Transports |-> Ticked(x.leg[j])]
           y == [x EXCEPT !.elapsed = x.elapsed + 1, !.leg = legs]
<1>1. x \in Exchanges /\ Running(c) /\ ~ Due(c)
  BY CallFacts, Zenon DEF Tick
<1>2. /\ call' = [call EXCEPT ![c] = y] /\ server' = server /\ cert' = cert
      /\ override' = override /\ stats' = stats /\ rr_cursor' = rr_cursor
  BY DEF Tick
<1>3. /\ x.pc = "run" /\ x.how \in Hows /\ Permutes(x.order) /\ x.result = "none"
      /\ Under(x) /\ Timely(x, server) /\ x.at \in 1..N /\ x.leg \in [Transports -> Leg]
      /\ x.elapsed \in Nat
  BY <1>1, RunFacts, Zenon
<1>4. ASSUME NEW j \in Transports
      PROVE  /\ Ticked(x.leg[j]) \in Leg /\ Ticked(x.leg[j]).pc = x.leg[j].pc
             /\ Ticked(x.leg[j]).bound = x.leg[j].bound
             /\ Ticked(x.leg[j]).spent =
                   IF x.leg[j].pc \in Open THEN x.leg[j].spent + 1 ELSE x.leg[j].spent
  <2>1. x.leg[j] \in Leg /\ x.leg[j].spent \in Nat
    BY <1>1, ExchangeFields, Zenon
  <2>2. x.leg[j].spent + 1 \in Nat
    BY <2>1
  <2>3. Ticked(x.leg[j]) = IF x.leg[j].pc \in Open
                           THEN [x.leg[j] EXCEPT !.spent = x.leg[j].spent + 1] ELSE x.leg[j]
    BY Zenon DEF Ticked, Open
  <2>4. CASE x.leg[j].pc \in Open
    <3>1. Ticked(x.leg[j]) = [x.leg[j] EXCEPT !.spent = x.leg[j].spent + 1]
      BY <2>3, <2>4, Zenon
    <3> QED
      BY <3>1, <2>1, <2>2, <2>4, Zenon DEF Leg
  <2>5. CASE x.leg[j].pc \notin Open
    <3>1. Ticked(x.leg[j]) = x.leg[j]
      BY <2>3, <2>5, Zenon
    <3> QED
      BY <3>1, <2>1, <2>5, Zenon
  <2> QED
    BY <2>4, <2>5, Zenon
<1>5. legs \in [Transports -> Leg] /\ \A j \in Transports : legs[j] = Ticked(x.leg[j])
  BY <1>4, Zenon
<1> HIDE DEF legs
<1>6. y \in Exchanges
  <2>1. x.elapsed + 1 \in Nat
    BY <1>3
  <2> QED
    BY <1>1, <1>5, <2>1, Zenon DEF Exchanges
<1>7. /\ y.pc = x.pc /\ y.how = x.how /\ y.order = x.order /\ y.leg = legs
      /\ y.at = x.at /\ y.elapsed = x.elapsed + 1 /\ y.result = x.result
  BY <1>1, Zenon DEF Exchanges
<1>8. \A j \in Transports : ~ SetupDue(c, j) /\ ~ ReplyDue(c, j)
  BY <1>1, Zenon DEF Due
<1>9. \A j \in Transports : y.leg[j].pc = x.leg[j].pc
  <2>1. ASSUME NEW j \in Transports PROVE y.leg[j].pc = x.leg[j].pc
    <3>1. y.leg[j] = Ticked(x.leg[j])
      BY <1>5, <1>7, Zenon
    <3>2. Ticked(x.leg[j]).pc = x.leg[j].pc
      BY <1>4, Zenon
    <3> QED
      BY <3>1, <3>2, Zenon
  <2> QED
    BY <2>1, Zenon
<1>10. Timely(y, server)
  <2>1. SUFFICES ASSUME y.how = "all", NEW j \in Transports, Gets(server[j])
                 PROVE  LegTimely(y.leg[j], server[j], y.elapsed)
    BY Zenon DEF Timely, LegTimely
  <2> DEFINE g == x.leg[j]
             h == y.leg[j]
             s == server[j]
  <2>2. LegTimely(g, s, x.elapsed) /\ Gets(s) /\ s.reply # "silence"
    BY <1>3, <1>7, <2>1, Zenon DEF Timely, Gets
  <2>3. h.pc = g.pc /\ h.bound = g.bound
        /\ h.spent = (IF g.pc \in Open THEN g.spent + 1 ELSE g.spent)
    BY <1>4, <1>5, <1>7, Zenon
  <2>4. g.spent \in Nat /\ s.after \in Nat /\ Warmup(s) \in {0, 1}
    BY <1>1, ExchangeFields, ServerFacts, Zenon
  <2>5. g.pc = "setup" => j \notin cert /\ ~ (g.spent >= 1)
    BY <1>1, <1>8, <2>2, Zenon DEF SetupDue, At
  <2>6. g.pc = "wait" => ~ (g.spent >= s.after)
    BY <1>1, <1>8, <2>2, Zenon DEF ReplyDue, At
  <2>7. j \notin cert => Warmup(s) = 1
    BY CallFacts, Zenon DEF Warmup
  <2> HIDE DEF g, h, s
  <2>8. CASE h.pc = "setup"
    <3>1. x.elapsed = g.spent /\ Warmup(s) = 1 /\ ~ (g.spent >= 1) /\ h.spent = g.spent + 1
      BY <2>2, <2>3, <2>5, <2>7, <2>8, PcsDiffer, Zenon DEF LegTimely
    <3>2. y.elapsed = h.spent /\ h.spent <= Warmup(s)
      BY <3>1, <1>7, <1>3, <2>4
    <3> QED
      BY <2>8, <3>2, Zenon DEF LegTimely, h, s
  <2>9. CASE h.pc = "wait"
    <3>1. /\ x.elapsed <= Warmup(s) + g.spent /\ ~ (g.spent >= s.after)
          /\ h.spent = g.spent + 1
      BY <2>2, <2>3, <2>6, <2>9, PcsDiffer, Zenon DEF LegTimely
    <3>2. y.elapsed <= Warmup(s) + h.spent /\ h.spent <= s.after
      BY <3>1, <1>7, <1>3, <2>4
    <3> QED
      BY <2>9, <3>2, Zenon DEF LegTimely, h, s
  <2>10. CASE h.pc \notin Open
    BY <2>2, <2>3, <2>10, PcsDiffer, Zenon DEF LegTimely, h, s
  <2> QED
    BY <2>8, <2>9, <2>10, Zenon DEF Open
<1> HIDE DEF y, x
<1>11. Under(y)
  BY <1>3, <1>7, <1>9, UnderKept, Zenon
<1>12. GoodCall(y, server)
  BY <1>3, <1>7, <1>10, <1>11, Zenon DEF GoodCall, Shape
<1>13. call'[c] = y /\ \A d \in Calls \ {c} : call'[d] = call[d]
  BY <1>2, <1>6, <1>12, CallStep, Zenon
<1>14. \A j \in Transports : GoodStat(j)'
  <2>1. NoneEnds(call[c], y, Transports)
    BY <1>9, Zenon DEF x, NoneEnds
  <2> QED
    BY <1>2, <1>13, <2>1, StatsKept, Zenon
<1>15. /\ stats' \in [Transports -> Stat] /\ rr_cursor' \in Nat
       /\ cert \subseteq cert' /\ cert' \subseteq Transports
  BY <1>2, CallFacts, Zenon
<1> QED
  BY <1>2, <1>6, <1>12, <1>14, <1>15, StepInv, Zenon
LEMMA AnsweredKeeps ==
    ASSUME PoolIInv, NEW c \in Calls, NEW i \in Transports, Answered(c, i)
    PROVE  PoolIInv'
<1> DEFINE x == call[c]
           g == [x.leg[i] EXCEPT !.pc = "answered"]
           legs == [x.leg EXCEPT ![i] = g]
           y == [x EXCEPT !.pc = "done", !.result = "answer", !.leg = legs]
<1>1. x \in Exchanges /\ Running(c) /\ x.leg[i].pc = "wait" /\ Wins(c, i) /\ x.leg[i] \in Leg
  <2>1. x \in Exchanges
    BY CallFacts, Zenon
  <2> QED
    BY <2>1, ExchangeFields, Zenon DEF Answered, ReplyDue, At
<1>2. /\ call' = [call EXCEPT ![c] = y] /\ server' = server /\ cert' = cert
      /\ override' = override /\ record(i, x.leg[i].spent) /\ rr_cursor' = rr_cursor
  BY Zenon DEF Answered
<1>3. /\ x.pc = "run" /\ x.how \in Hows /\ Permutes(x.order) /\ x.result = "none"
      /\ Under(x) /\ Timely(x, server) /\ x.at \in 1..N /\ x.leg \in [Transports -> Leg]
  BY <1>1, RunFacts, Zenon
<1>4. g \in Leg /\ g.pc = "answered"
  BY <1>1, Zenon DEF Leg, Over
<1> HIDE DEF g
<1>5. legs \in [Transports -> Leg] /\ legs[i] = g /\ \A j \in Transports \ {i} : legs[j] = x.leg[j]
  BY <1>3, <1>4, Zenon
<1> HIDE DEF legs
<1>6. y \in Exchanges
  BY <1>1, <1>5, Zenon DEF Exchanges
<1>7. /\ y.pc = "done" /\ y.how = x.how /\ y.order = x.order /\ y.leg = legs
      /\ y.at = x.at /\ y.elapsed = x.elapsed /\ y.result = "answer"
  BY <1>1, Zenon DEF Exchanges
<1>8. x.how = "solve" => server[i].reply \in {"through", "negative"}
  BY <1>1, Zenon DEF Wins
<1> HIDE DEF y, x
<1>9. x.leg[i].pc \in Open /\ \A j \in Transports \ {i} : y.leg[j].pc = x.leg[j].pc
  BY <1>1, <1>5, <1>7, PcsDiffer, Zenon
<1>10. StandsAt(x, i)
  BY <1>3, <1>9, OpenStands, Zenon
<1>11. StandsAt(y, i)
  BY <1>3, <1>7, <1>9, <1>10, StandsKept, Zenon
<1>12. Won(y, server)
  BY <1>4, <1>5, <1>7, <1>8, <1>11, Zenon DEF Won
<1>13. Timely(y, server)
  <2>1. SUFFICES ASSUME y.how = "all", NEW j \in Transports
                 PROVE  LegTimely(y.leg[j], server[j], y.elapsed)
    BY Zenon DEF Timely
  <2>2. LegTimely(x.leg[j], server[j], x.elapsed)
    BY <1>3, <1>7, <2>1, Zenon DEF Timely
  <2>3. CASE j # i
    BY <1>5, <1>7, <2>2, <2>3, Zenon
  <2>4. CASE j = i
    BY <1>4, <1>5, <1>7, <2>4, Zenon DEF LegTimely
  <2> QED
    BY <2>3, <2>4, Zenon
<1>14. GoodCall(y, server)
  BY <1>3, <1>7, <1>12, <1>13, Zenon DEF GoodCall, Shape
<1>15. call'[c] = y /\ \A d \in Calls \ {c} : call'[d] = call[d]
  BY <1>2, <1>6, <1>14, CallStep, Zenon
<1>16. x.leg[i].spent \in Int /\ x.leg[i].spent # Unseen
  <2>1. x.leg[i].spent \in Nat
    BY <1>1, ExchangeFields, Zenon
  <2> QED
    BY <2>1 DEF Unseen
<1>17. stats' \in [Transports -> Stat] /\ \A j \in Transports : GoodStat(j)'
  <2>1. NoneEnds(call[c], y, Transports \ {i})
    BY <1>9, Zenon DEF x, NoneEnds
  <2>2. y.leg[i].pc = (IF x.leg[i].spent = Unseen THEN "failed" ELSE "answered")
    BY <1>4, <1>5, <1>7, <1>16, Zenon
  <2>3. call[c].leg[i].pc \in Open
    BY <1>9, Zenon DEF x
  <2> QED
    BY <1>2, <1>15, <1>16, <2>1, <2>2, <2>3, StatsRecorded, Zenon
<1>18. rr_cursor' \in Nat /\ cert \subseteq cert' /\ cert' \subseteq Transports
  BY <1>2, CallFacts, Zenon
<1> QED
  BY <1>2, <1>6, <1>14, <1>17, <1>18, StepInv, Zenon

\* A leg that fails leaves a good exchange, whether it was the last, one of
\* a race, or a rung of a ladder.
LEMMA FailsKeeps ==
    ASSUME PoolIInv, NEW c \in Calls, NEW i \in Transports, At(c, i, "wait"), Fails(c, i),
           call[c].how = "all" /\ Gets(server[i]) => call[c].leg[i].bound <= server[i].after
    PROVE  PoolIInv'
<1> DEFINE x == call[c]
           g == [x.leg[i] EXCEPT !.pc = "failed"]
           failed == [x.leg EXCEPT ![i] = g]
           next == x.order[x.at + 1]
           y == IF LastLeg(c, i)
                THEN [x EXCEPT !.pc = "done", !.result = "exhausted", !.leg = failed]
                ELSE IF x.how = "all" THEN [x EXCEPT !.leg = failed]
                ELSE [x EXCEPT !.at = x.at + 1, !.leg = [failed EXCEPT ![next] = NewLeg]]
<1>1. x \in Exchanges /\ Running(c) /\ x.leg[i].pc = "wait" /\ x.leg[i] \in Leg
  <2>1. x \in Exchanges
    BY CallFacts, Zenon
  <2> QED
    BY <2>1, ExchangeFields, Zenon DEF At
<1>2. /\ call' = [call EXCEPT ![c] = y] /\ server' = server /\ cert' = cert
      /\ override' = override /\ record(i, Unseen) /\ rr_cursor' = rr_cursor
  BY Zenon DEF Fails
<1>3. /\ x.pc = "run" /\ x.how \in Hows /\ Permutes(x.order) /\ x.result = "none"
      /\ Under(x) /\ Timely(x, server) /\ x.at \in 1..N /\ x.leg \in [Transports -> Leg]
  BY <1>1, RunFacts, Zenon
<1>4. g \in Leg /\ g.pc = "failed" /\ g.bound = x.leg[i].bound
  BY <1>1, Zenon DEF Leg, Over
<1> HIDE DEF g
<1>5. /\ failed \in [Transports -> Leg] /\ failed[i] = g
      /\ \A j \in Transports \ {i} : failed[j] = x.leg[j]
  BY <1>3, <1>4, Zenon
<1> HIDE DEF failed
<1>6. /\ LastLeg(c, i) => IF x.how = "all"
                          THEN \A j \in Transports \ {i} : x.leg[j].pc = "failed"
                          ELSE x.at = N
      /\ ~ LastLeg(c, i) /\ x.how = "all" =>
            ~ (\A j \in Transports \ {i} : x.leg[j].pc = "failed")
      /\ ~ LastLeg(c, i) /\ x.how # "all" => x.at # N
  BY Zenon DEF LastLeg
<1>7. x.leg[i].pc \in Open
  BY <1>1, PcsDiffer, Zenon
<1>8. StandsAt(x, i)
  <2> HIDE DEF x
  <2> QED
    BY <1>3, <1>7, OpenStands, Zenon
<1>9. x.how = "all" =>
        \A j \in Transports : LegTimely(failed[j], server[j], x.elapsed)
  <2>1. SUFFICES ASSUME x.how = "all", NEW j \in Transports
                 PROVE  LegTimely(failed[j], server[j], x.elapsed)
    BY Zenon
  <2>2. CASE j # i
    <3>1. LegTimely(x.leg[j], server[j], x.elapsed) /\ failed[j] = x.leg[j]
      BY <1>3, <1>5, <2>1, <2>2, Zenon DEF Timely
    <3> QED
      BY <3>1, Zenon
  <2>3. CASE j = i
    BY <1>4, <1>5, <2>1, <2>3, Zenon DEF LegTimely
  <2> QED
    BY <2>2, <2>3, Zenon
<1>10. /\ y \in Exchanges /\ GoodCall(y, server) /\ y.leg[i].pc = "failed"
       /\ NoneEnds(call[c], y, Transports \ {i})
  <2>1. CASE LastLeg(c, i)
    <3>1. y = [x EXCEPT !.pc = "done", !.result = "exhausted", !.leg = failed]
      BY <2>1, Zenon
    <3>2. y \in Exchanges
      BY <1>1, <1>5, <3>1, Zenon DEF Exchanges
    <3>3. /\ y.pc = "done" /\ y.how = x.how /\ y.order = x.order /\ y.leg = failed
          /\ y.elapsed = x.elapsed /\ y.result = "exhausted"
      BY <1>1, <3>1, Zenon DEF Exchanges
    <3> HIDE DEF y
    <3>4. y.leg[i].pc = "failed" /\ \A j \in Transports \ {i} : y.leg[j].pc = x.leg[j].pc
      BY <1>4, <1>5, <3>3, Zenon
    <3>5. NoneEnds(call[c], y, Transports \ {i})
      BY <3>4, Zenon DEF NoneEnds
    <3>6. IF x.how = "all" THEN \A j \in Transports \ {i} : x.leg[j].pc = "failed"
          ELSE x.at = N
      BY <1>6, <2>1, Zenon
    <3> HIDE DEF x
    <3>7. \A j \in Transports : y.leg[j].pc = "failed"
      BY <1>3, <1>7, <1>8, <3>4, <3>6, LastFails, Zenon
    <3>8. GoodCall(y, server)
      BY <1>3, <1>9, <3>3, <3>7, Zenon DEF GoodCall, Shape, Spent, Timely
    <3> QED
      BY <3>2, <3>4, <3>5, <3>8, Zenon
  <2>2. CASE ~ LastLeg(c, i) /\ x.how = "all"
    <3>1. y = [x EXCEPT !.leg = failed]
      BY <2>2, Zenon
    <3>2. y \in Exchanges
      BY <1>1, <1>5, <3>1, Zenon DEF Exchanges
    <3>3. /\ y.pc = "run" /\ y.how = "all" /\ y.order = x.order /\ y.leg = failed
          /\ y.elapsed = x.elapsed /\ y.result = "none"
      BY <1>1, <1>3, <2>2, <3>1, Zenon DEF Exchanges
    <3> HIDE DEF y
    <3>4. y.leg[i].pc = "failed" /\ \A j \in Transports \ {i} : y.leg[j].pc = x.leg[j].pc
      BY <1>4, <1>5, <3>3, Zenon
    <3>5. NoneEnds(call[c], y, Transports \ {i})
      BY <3>4, Zenon DEF NoneEnds
    <3>6. ~ (\A j \in Transports \ {i} : x.leg[j].pc = "failed")
      BY <1>6, <2>2, Zenon
    <3> HIDE DEF x
    <3>7. Under(y)
      BY <1>8, <2>2, <3>3, <3>4, <3>6, RaceGoesOn, Zenon
    <3>8. GoodCall(y, server)
      BY <1>3, <1>9, <2>2, <3>3, <3>7, Zenon DEF GoodCall, Shape, Timely
    <3> QED
      BY <3>2, <3>4, <3>5, <3>8, Zenon
  <2>3. CASE ~ LastLeg(c, i) /\ x.how # "all"
    <3>1. y = [x EXCEPT !.at = x.at + 1, !.leg = [failed EXCEPT ![next] = NewLeg]]
      BY <2>3, Zenon
    <3> DEFINE legs == [failed EXCEPT ![next] = NewLeg]
    <3>2. NewLeg \in Leg /\ NewLeg.pc = "setup"
      BY CallFacts, Zenon DEF Leg, NewLeg, Open
    <3>3. legs \in [Transports -> Leg] /\ \A j \in Transports \ {next} : legs[j] = failed[j]
      BY <1>5, <3>2, Zenon
    <3>4. x.at + 1 \in 1..N /\ x.at + 1 # x.at
      <4>1. x.at # N /\ x.at \in 1..N
        BY <1>3, <1>6, <2>3, Zenon
      <4> HIDE DEF x
      <4> QED
        BY <4>1, Sizes
    <3>5. next \in Transports /\ next # i
      <4>1. i = x.order[x.at]
        BY <1>8, <2>3, Zenon DEF StandsAt
      <4> QED
        BY <4>1, <1>3, <3>4, Zenon DEF Permutes
    <3>6. legs[next] = NewLeg /\ legs[i] = g
      BY <1>5, <3>3, <3>5, Zenon
    <3> HIDE DEF legs
    <3>7. y \in Exchanges
      BY <1>1, <3>1, <3>3, <3>4, Zenon DEF Exchanges, legs
    <3>8. /\ y.pc = "run" /\ y.how = x.how /\ y.order = x.order /\ y.leg = legs
          /\ y.elapsed = x.elapsed /\ y.result = "none" /\ y.at = x.at + 1
      BY <1>1, <1>3, <3>1, Zenon DEF Exchanges, legs
    <3> HIDE DEF y, next
    <3>9. /\ y.leg[i].pc = "failed" /\ y.leg[next].pc = "setup"
          /\ \A j \in Transports \ {i, next} : y.leg[j].pc = x.leg[j].pc
      BY <1>4, <1>5, <3>2, <3>3, <3>6, <3>8, Zenon
    <3>10. x.at # N
      BY <1>6, <2>3, Zenon
    <3>11. Under(y) /\ x.leg[next].pc = "todo"
      <4> HIDE DEF x
      <4> QED
        BY <1>3, <1>8, <2>3, <3>8, <3>9, <3>10, LadderGoesOn, Zenon DEF next
    <3>12. NoneEnds(call[c], y, Transports \ {i})
      BY <3>9, <3>11, PcsDiffer, Zenon DEF NoneEnds
    <3> HIDE DEF x
    <3>13. GoodCall(y, server)
      BY <1>3, <2>3, <3>8, <3>11, Zenon DEF GoodCall, Shape, Timely
    <3> QED
      BY <3>7, <3>9, <3>12, <3>13, Zenon
  <2> QED
    BY <2>1, <2>2, <2>3, Zenon
<1> HIDE DEF y
<1>11. call'[c] = y /\ \A d \in Calls \ {c} : call'[d] = call[d]
  BY <1>2, <1>10, CallStep, Zenon
<1>12. stats' \in [Transports -> Stat] /\ \A j \in Transports : GoodStat(j)'
  <2>1. Unseen \in Int
    BY DEF Unseen
  <2>2. y.leg[i].pc = (IF Unseen = Unseen THEN "failed" ELSE "answered")
    BY <1>10, Zenon
  <2> QED
    BY <1>2, <1>7, <1>10, <1>11, <2>1, <2>2, StatsRecorded, Zenon
<1>13. rr_cursor' \in Nat /\ cert \subseteq cert' /\ cert' \subseteq Transports
  BY <1>2, CallFacts, Zenon
<1> QED
  BY <1>2, <1>10, <1>12, <1>13, StepInv, Zenon
LEMMA StepKeeps ==
    ASSUME PoolIInv, NEW c \in Calls, Step(c)
    PROVE  PoolIInv'
<1>1. CASE DeadlineHit(c)
  BY <1>1, DeadlineKeeps, Zenon
<1>2. CASE Tick(c)
  BY <1>2, TickKeeps, Zenon
<1>3. ASSUME NEW i \in Transports, SetupDone(c, i) PROVE PoolIInv'
  <2>1. /\ At(c, i, "setup") /\ ToWait(c, i) /\ server' = server /\ cert' = cert \cup {i}
        /\ override' = override /\ rr_cursor' = rr_cursor /\ stats' = stats
    BY <1>3, Zenon DEF SetupDone, SetupDue
  <2>2. cert \subseteq cert' /\ cert' \subseteq Transports
    BY <2>1, CallFacts, Zenon
  <2> QED
    BY <2>1, <2>2, ToWaitKeeps, Zenon
<1>4. ASSUME NEW i \in Transports, SetupTimeout(c, i) PROVE PoolIInv'
  <2>1. /\ At(c, i, "setup") /\ ToWait(c, i) /\ server' = server /\ cert' = cert
        /\ override' = override /\ rr_cursor' = rr_cursor /\ stats' = stats
    BY <1>4, Zenon DEF SetupTimeout
  <2>2. cert \subseteq cert' /\ cert' \subseteq Transports
    BY <2>1, CallFacts, Zenon
  <2> QED
    BY <2>1, <2>2, ToWaitKeeps, Zenon
<1>5. ASSUME NEW i \in Transports, Answered(c, i) PROVE PoolIInv'
  BY <1>5, AnsweredKeeps, Zenon
<1>6. ASSUME NEW i \in Transports, Refused(c, i) PROVE PoolIInv'
  <2>1. At(c, i, "wait") /\ ~ Wins(c, i) /\ Fails(c, i)
    BY <1>6, Zenon DEF Refused, ReplyDue
  <2>2. ~ (call[c].how = "all" /\ Gets(server[i]))
    BY <2>1, Zenon DEF Wins, Gets
  <2> QED
    BY <2>1, <2>2, FailsKeeps, Zenon
<1>7. ASSUME NEW i \in Transports, LegTimeout(c, i) PROVE PoolIInv'
  <2>1. At(c, i, "wait") /\ Fails(c, i) /\ call[c].leg[i].spent >= call[c].leg[i].bound
    BY <1>7, Zenon DEF LegTimeout
  <2>2. Running(c) /\ call[c].leg[i].pc = "wait" /\ call[c] \in Exchanges
    BY <2>1, CallFacts, Zenon DEF At
  <2>3. call[c].how = "all" /\ Gets(server[i]) => call[c].leg[i].spent <= server[i].after
    BY <2>2, RunFacts, Zenon DEF Timely, LegTimely
  <2>4. /\ call[c].leg[i].spent \in Nat /\ call[c].leg[i].bound \in Nat
        /\ server[i].after \in Nat
    BY <2>2, ExchangeFields, ServerFacts, Zenon
  <2>5. call[c].how = "all" /\ Gets(server[i]) => call[c].leg[i].bound <= server[i].after
    BY <2>1, <2>3, <2>4
  <2> QED
    BY <2>1, <2>5, FailsKeeps, Zenon
<1> QED
  BY <1>1, <1>2, <1>3, <1>4, <1>5, <1>6, <1>7, Zenon DEF Step

LEMMA PoolInit == Init => PoolIInv
<1>1. SUFFICES ASSUME Init PROVE PoolIInv
  BY Zenon
<1>2. NotStarted \in Exchanges
  <2>1. NoLeg \in Leg
    BY DEF NoLeg, Leg
  <2>2. 1 \in 1..N
    BY Sizes, Zenon
  <2>3. 0 \in Nat
    OBVIOUS
  <2> QED
    BY <2>1, <2>2, <2>3, Zenon DEF NotStarted, Exchanges
<1>3. PoolTypeOK
  <2>1. Unseen \in Int /\ 0 \in Nat
    BY DEF Unseen
  <2>2. stats \in [Transports -> Stat]
    BY <1>1, <2>1, Zenon DEF Init, Stat
  <2> QED
    BY <1>1, <1>2, <2>1, <2>2, Zenon DEF Init, PoolTypeOK
<1>4. /\ NotStarted.pc = "idle" /\ NotStarted.result = "none" /\ NotStarted.how = "none"
      /\ NotStarted.at = 1 /\ NotStarted.elapsed = 0
      /\ \A i \in Transports : NotStarted.leg[i].pc = "todo"
  BY Zenon DEF NotStarted, NoLeg
<1>5. GoodCall(NotStarted, server)
  BY <1>4, Zenon DEF GoodCall, Shape, Idle, Timely
<1>6. \A c \in Calls : GoodCall(call[c], server) /\ call[c] = NotStarted
  BY <1>1, <1>5, Zenon DEF Init
<1>7. {i \in Transports : ~server[i].cold} \subseteq cert
  BY <1>1, Zenon DEF Init
<1>8. ASSUME NEW i \in Transports PROVE GoodStat(i)
  <2>1. Sampled(i) = {} /\ ~ EverFailed(i)
    BY <1>4, <1>6, PcsDiffer, Zenon DEF Sampled, EverFailed, LegsIn
  <2>2. Cardinality(Sampled(i)) = 0
    BY <2>1, FS_EmptySet, Zenon
  <2>3. stats[i].samples = 0 /\ stats[i].loss = 0
    BY <1>1, Zenon DEF Init
  <2>4. Power[MaxSamples - 0] <= Scale
    <3>1. MaxSamples - 0 = MaxSamples
      BY PoolAssumption
    <3>2. Scale <= Scale
      BY ScaleFacts
    <3> QED
      BY <3>1, <3>2, Zenon DEF Scale
  <2> QED
    BY <2>1, <2>2, <2>3, <2>4, Zenon DEF GoodStat
<1> QED
  BY <1>3, <1>6, <1>7, <1>8, Zenon DEF PoolIInv

LEMMA PoolNext == PoolIInv /\ [Next]_vars => PoolIInv'
<1>1. SUFFICES ASSUME PoolIInv, [Next]_vars PROVE PoolIInv'
  BY Zenon
<1>2. ASSUME UNCHANGED call, UNCHANGED stats, UNCHANGED server, UNCHANGED cert,
             UNCHANGED rr_cursor, override' \in Nat
      PROVE  PoolIInv'
  <2>1. PoolTypeOK'
    BY <1>1, <1>2, Zenon DEF PoolIInv, PoolTypeOK
  <2>2. \A c \in Calls : GoodCall(call'[c], server')
    BY <1>1, <1>2, Zenon DEF PoolIInv
  <2>3. {i \in Transports : ~server'[i].cold} \subseteq cert'
    BY <1>1, <1>2, Zenon DEF PoolIInv
  <2>4. ASSUME NEW i \in Transports PROVE GoodStat(i)'
    <3>1. GoodStat(i)
      BY <1>1, Zenon DEF PoolIInv
    <3> QED
      BY <1>2, <3>1, Zenon DEF GoodStat, Sampled, EverFailed, LegsIn, Scale
  <2> QED
    BY <2>1, <2>2, <2>3, <2>4, Zenon DEF PoolIInv
<1>3. CASE SetQueryTimeout
  <2>1. override' \in Nat
    BY <1>3, PoolAssumption DEF SetQueryTimeout
  <2> QED
    BY <1>2, <1>3, <2>1, Zenon DEF SetQueryTimeout
<1>4. ASSUME NEW c \in Calls, Start(c) PROVE PoolIInv'
  BY <1>1, <1>4, StartKeeps, Zenon
<1>5. ASSUME NEW c \in Calls, Step(c) PROVE PoolIInv'
  BY <1>1, <1>5, StepKeeps, Zenon
<1>6. CASE UNCHANGED vars
  <2>1. override' \in Nat
    BY <1>1, <1>6, Zenon DEF vars, PoolIInv, PoolTypeOK
  <2> QED
    BY <1>2, <1>6, <2>1, Zenon DEF vars
<1> QED
  BY <1>1, <1>3, <1>4, <1>5, <1>6, Zenon DEF Next

-----------------------------------------------------------------------------
\* The inductive invariant holds throughout, with any calls under way at once.
THEOREM PoolInvariant == Spec => []PoolIInv
<1>1. Init => PoolIInv
  BY PoolInit
<1>2. PoolIInv /\ [Next]_vars => PoolIInv'
  BY PoolNext
<1> QED
  BY <1>1, <1>2, PTL DEF Spec

LEMMA ShapeCases ==
    ASSUME PoolIInv, NEW c \in Calls
    PROVE  \/ Idle(call[c])
           \/ call[c].result = "none" /\ Under(call[c])
           \/ Won(call[c], server)
           \/ Spent(call[c])
           \/ Late(call[c])
<1>1. call[c] \in Exchanges /\ Shape(call[c], server)
  BY CallFacts, Zenon DEF GoodCall
<1>2. call[c].pc \in {"idle", "run", "done"}
  BY <1>1, ExchangeFields, Zenon
<1> QED
  BY <1>1, <1>2, Zenon DEF Shape

\* For any number of transports and of concurrent calls, an exchange of the
\* pool returns None exactly when it has asked every transport and every one
\* has failed, in all five strategies.
THEOREM NoneMeansAllFailedAlways == Spec => []NoneMeansAllFailed
<1>1. ASSUME PoolIInv PROVE NoneMeansAllFailed
  <2>1. SUFFICES ASSUME NEW c \in Calls
                 PROVE  (call[c].result = "exhausted") <=> (LegsIn(c, {"failed"}) = Transports)
    BY Zenon DEF NoneMeansAllFailed
  <2>2. (LegsIn(c, {"failed"}) = Transports) <=> \A i \in Transports : call[c].leg[i].pc = "failed"
    BY Zenon DEF LegsIn
  <2>3. CASE Idle(call[c])
    BY <2>2, <2>3, Sizes, Zenon DEF Idle
  <2>4. CASE Under(call[c]) /\ call[c].result \in {"none", "deadline"}
    BY <2>2, <2>4, PcsDiffer, Zenon DEF Under
  <2>5. CASE Won(call[c], server)
    BY <2>2, <2>5, Zenon DEF Won
  <2>6. CASE Spent(call[c])
    BY <2>2, <2>6, Zenon DEF Spent
  <2> QED
    BY <1>1, <2>3, <2>4, <2>5, <2>6, ShapeCases, Zenon DEF Late
<1> QED
  BY <1>1, PoolInvariant, PTL

\* One transport answers a call. In a ladder exactly those before it in the
\* order have failed, and exchange_solve never returns a reply that did not
\* get through, whatever the other calls do to the averages meanwhile.
THEOREM FirstAnswerWinsAlways == Spec => []FirstAnswerWins
<1>1. ASSUME PoolIInv PROVE FirstAnswerWins
  <2>1. SUFFICES ASSUME NEW c \in Calls, call[c].result = "answer"
                 PROVE  \E i \in LegsIn(c, {"answered"}) :
                          /\ LegsIn(c, {"answered"}) = {i}
                          /\ call[c].how = "solve" =>
                                server[i].reply \in {"through", "negative"}
                          /\ call[c].how # "all" =>
                                LegsIn(c, {"failed"}) =
                                  {call[c].order[k] : k \in 1..(call[c].at - 1)}
    BY Zenon DEF FirstAnswerWins
  <2> DEFINE x == call[c]
  <2>2. Won(x, server)
    BY <1>1, <2>1, ShapeCases, Zenon DEF Idle, Spent, Late
  <2>3. PICK i \in Transports :
           /\ x.leg[i].pc = "answered" /\ StandsAt(x, i)
           /\ x.how = "solve" => server[i].reply \in {"through", "negative"}
    BY <2>2, Zenon DEF Won
  <2>4. x \in Exchanges /\ GoodCall(x, server) /\ x.at \in 1..N
    BY <1>1, CallFacts, ExchangeFields, Zenon
  <2>5. x.pc # "idle"
    BY <2>1, <2>4, Zenon DEF GoodCall, Shape, Idle
  <2>6. Permutes(x.order)
    BY <2>4, <2>5, Zenon DEF GoodCall
  <2>7. /\ x.how # "all" =>
             /\ i = x.order[x.at]
             /\ \A k \in 1..N : /\ k < x.at => x.leg[x.order[k]].pc = "failed"
                                /\ k > x.at => x.leg[x.order[k]].pc = "todo"
        /\ x.how = "all" => \A j \in Transports \ {i} : x.leg[j].pc \in Open \cup {"failed"}
    BY <2>3, Zenon DEF StandsAt
  <2>8. \A k \in 1..N : k < x.at \/ k > x.at \/ k = x.at
    BY <2>4, Sizes
  <2>9. \A k : k \in 1..(x.at - 1) <=> k \in 1..N /\ k < x.at
    BY <2>4, Sizes
  <2> HIDE DEF x
  <2>10. ASSUME NEW j \in Transports, x.leg[j].pc = "answered" PROVE j = i
    <3>1. CASE x.how = "all"
      BY <2>7, <2>10, <3>1, PcsDiffer, Zenon
    <3>2. CASE x.how # "all"
      <4>1. PICK k \in 1..N : x.order[k] = j
        BY <2>6, Zenon DEF Permutes
      <4> QED
        BY <2>7, <2>8, <2>10, <3>2, <4>1, Zenon
    <3> QED
      BY <3>1, <3>2, Zenon
  <2>11. ASSUME x.how # "all"
         PROVE  LegsIn(c, {"failed"}) = {x.order[k] : k \in 1..(x.at - 1)}
    <3>1. ASSUME NEW j \in Transports, x.leg[j].pc = "failed"
          PROVE  \E k \in 1..(x.at - 1) : x.order[k] = j
      <4>1. PICK k \in 1..N : x.order[k] = j
        BY <2>6, Zenon DEF Permutes
      <4>2. k < x.at
        BY <2>3, <2>7, <2>8, <2>11, <3>1, <4>1, Zenon
      <4> QED
        BY <2>9, <4>1, <4>2, Zenon
    <3>2. ASSUME NEW k \in 1..(x.at - 1)
          PROVE  x.order[k] \in Transports /\ x.leg[x.order[k]].pc = "failed"
      BY <2>6, <2>7, <2>9, <2>11, Zenon DEF Permutes
    <3>3. LegsIn(c, {"failed"}) = {j \in Transports : x.leg[j].pc = "failed"}
      BY Zenon DEF LegsIn, x
    <3>4. ASSUME NEW j PROVE j \in {x.order[k] : k \in 1..(x.at - 1)}
                             <=> \E k \in 1..(x.at - 1) : x.order[k] = j
      BY Zenon
    <3>5. ASSUME NEW j, j \in LegsIn(c, {"failed"})
          PROVE  j \in {x.order[k] : k \in 1..(x.at - 1)}
      BY <3>1, <3>3, <3>4, <3>5, Zenon
    <3>6. ASSUME NEW j, j \in {x.order[k] : k \in 1..(x.at - 1)}
          PROVE  j \in LegsIn(c, {"failed"})
      BY <3>2, <3>3, <3>4, <3>6, Zenon
    <3> QED
      BY <3>5, <3>6, Zenon
  <2>12. i \in LegsIn(c, {"answered"}) /\ LegsIn(c, {"answered"}) = {i}
    BY <2>3, <2>10, Zenon DEF LegsIn, x
  <2> QED
    BY <2>3, <2>11, <2>12, Zenon DEF x
<1> QED
  BY <1>1, PoolInvariant, PTL

\* exchange_all is answered whenever one transport is quick enough, whatever
\* the other transports and calls do.
THEOREM RaceNotHeldUpAlways == Spec => []RaceNotHeldUp
<1>1. ASSUME PoolIInv PROVE RaceNotHeldUp
  <2>1. SUFFICES ASSUME NEW c \in Calls, call[c].how = "all", call[c].pc = "done",
                        NEW i \in Transports, Quick(c, i), call[c].result # "answer"
                 PROVE  FALSE
    BY Zenon DEF RaceNotHeldUp
  <2> DEFINE x == call[c]
             g == x.leg[i]
             s == server[i]
  <2>2. x \in Exchanges /\ GoodCall(x, server)
    BY <1>1, CallFacts, Zenon
  <2>3. /\ g.bound \in Nat /\ g.spent \in Nat /\ x.elapsed \in Nat /\ x.deadline \in Nat
        /\ s.after \in Nat /\ Warmup(s) \in {0, 1}
    BY <1>1, <2>2, ExchangeFields, ServerFacts, Zenon
  <2>4. Gets(s) /\ s.after < g.bound /\ Warmup(s) + s.after < x.deadline
    BY <2>1, Zenon DEF Quick, Gets, Warmup
  <2>5. LegTimely(g, s, x.elapsed)
    BY <2>1, <2>2, Zenon DEF GoodCall, Timely
  <2>6. g.pc # "failed"
    <3>1. ~ (g.bound <= s.after)
      BY <2>3, <2>4
    <3> QED
      BY <3>1, <2>4, <2>5, Zenon DEF LegTimely
  <2>7. Late(x)
    BY <2>1, <2>2, <2>6, Zenon DEF GoodCall, Shape, Won, Spent
  <2>8. PICK w \in Transports : x.leg[w].pc \in Open /\ StandsAt(x, w)
    BY <2>7, Zenon DEF Late, Under
  <2>9. g.pc \in Open
    BY <2>1, <2>6, <2>8, Zenon DEF StandsAt
  <2>10. x.elapsed >= x.deadline
    BY <2>7, Zenon DEF Late
  <2>11. CASE g.pc = "setup"
    <3>1. x.elapsed = g.spent /\ g.spent <= Warmup(s)
      BY <2>4, <2>5, <2>11, Zenon DEF LegTimely
    <3> HIDE DEF x, g, s
    <3> QED
      BY <3>1, <2>3, <2>4, <2>10
  <2>12. CASE g.pc = "wait"
    <3>1. g.spent <= s.after /\ x.elapsed <= Warmup(s) + g.spent
      BY <2>4, <2>5, <2>12, Zenon DEF LegTimely
    <3> HIDE DEF x, g, s
    <3> QED
      BY <3>1, <2>3, <2>4, <2>10
  <2> QED
    BY <2>9, <2>11, <2>12, Zenon DEF Open
<1> QED
  BY <1>1, PoolInvariant, PTL

\* In the order of the next exchange_solve, a transport that has failed comes
\* after every one that has not, whatever strategy the samples came from: the
\* loss average of solve_ranked_order never decays to that of a transport that
\* has never failed.
THEOREM LadderLearnsAlways == Spec => []LadderLearns
<1>1. ASSUME PoolIInv PROVE LadderLearns
  <2>1. SUFFICES ASSUME NEW i \in Transports, NEW j \in Transports,
                        EverFailed(i), ~ EverFailed(j)
                 PROVE  Ahead(j, i)
    BY Zenon DEF LadderLearns, Ahead
  <2>2. GoodStat(i) /\ GoodStat(j) /\ PoolTypeOK
    BY <1>1, Zenon DEF PoolIInv
  <2>3. stats[j].loss = 0 /\ stats[i].loss >= Power[MaxSamples - stats[i].samples]
    BY <2>1, <2>2, Zenon DEF GoodStat
  <2>4. stats[i].loss \in Nat
    BY <2>2, Zenon DEF PoolTypeOK, Stat
  <2>5. /\ Power[MaxSamples - stats[i].samples] \in Nat
        /\ Power[MaxSamples - stats[i].samples] > 0
    <3>1. MaxSamples - stats[i].samples \in 0..MaxSamples
      <4>1. /\ stats[i].samples = Cardinality(Sampled(i))
            /\ Sampled(i) \in SUBSET Calls
        BY <2>2, Zenon DEF GoodStat, Sampled
      <4>2. IsFiniteSet(Calls) /\ Cardinality(Calls) <= MaxSamples /\ MaxSamples \in Nat
        BY PoolAssumption
      <4>3. Cardinality(Sampled(i)) <= Cardinality(Calls) /\ Cardinality(Sampled(i)) \in Nat
        BY <4>1, <4>2, FS_Subset, SampleSize, Zenon
      <4>4. Cardinality(Calls) \in Nat
        BY <4>2, FS_CardinalityType, Zenon
      <4> QED
        BY <4>1, <4>2, <4>3, <4>4
    <3> QED
      BY <3>1, PowerPositive, Zenon
  <2>6. stats[j].loss < stats[i].loss
    BY <2>3, <2>4, <2>5
  <2> QED
    BY <2>2, <2>6, LighterFirst, Zenon
<1> QED
  BY <1>1, PoolInvariant, PTL

-----------------------------------------------------------------------------
(* What the pool, the process and the disk say of each other: the pool is     *)
(* configured exactly when this process has had its RUNNING edge and the last *)
(* state it saved is RUNNING, so that the record of a dead process, RUNNING   *)
(* without an edge, is told apart from the process's own.                     *)
PoolRecord == configured <=> (runningEdgeFired /\ appState = "RUNNING")
PoolInv == PoolRecord /\ PoolFollowsLoop

poolVars == <<service, configured, runningEdgeFired, appState, savedDNSCryptState>>

(* Nothing but the edge of the loop and the two ends of the service touches   *)
(* what the invariant speaks of.                                              *)
LEMMA PoolKept ==
  ASSUME PoolInv, UNCHANGED poolVars PROVE PoolInv'
<1>1. /\ service' = service /\ configured' = configured
      /\ runningEdgeFired' = runningEdgeFired /\ appState' = appState
      /\ savedDNSCryptState' = savedDNSCryptState
  BY Zenon DEF poolVars
<1> QED BY <1>1, Zenon DEF PoolInv, PoolRecord, PoolFollowsLoop

LEMMA ThreadsLeavePool ==
  ASSUME Threads PROVE UNCHANGED poolVars
<1> USE DEF poolVars, threadElse, loopVars
<1>1. ASSUME NEW p, NEW q, kill(p, q) PROVE UNCHANGED poolVars
  BY <1>1, Zenon DEF kill
<1>2. ASSUME NEW b, begin(b) PROVE UNCHANGED poolVars
  BY <1>2, Zenon DEF begin
<1>3. CASE portWait BY <1>3, Zenon DEF portWait
<1>4. CASE changeDNSCryptStatus BY <1>4, Zenon DEF changeDNSCryptStatus
<1>5. CASE restart BY <1>5, Zenon DEF restart
<1>6. CASE restartWait BY <1>6, Zenon DEF restartWait
<1>7. CASE starterReturns BY <1>7, Zenon DEF starterReturns
<1>8. CASE bootRaises BY <1>8, Zenon DEF bootRaises, processVars, durableVars
<1> QED BY <1>1, <1>2, <1>3, <1>4, <1>5, <1>6, <1>7, <1>8, Zenon DEF Threads

LEMMA OthersLeavePool ==
  ASSUME \/ \E e \in BOOLEAN : setDnsCryptEnabled(e)
         \/ \E granted \in BOOLEAN : startVpnFromConsent(granted)
         \/ requestRestart \/ onRevoke \/ tunnelCommand \/ stopSelf \/ unblock
         \/ startVPNService \/ updateModulesState \/ writeState
  PROVE  UNCHANGED poolVars
<1> USE DEF poolVars, loopVars, processVars, durableVars, serviceVars, loopElse
<1>1. ASSUME NEW e \in BOOLEAN, setDnsCryptEnabled(e) PROVE UNCHANGED poolVars
  BY <1>1, Zenon DEF setDnsCryptEnabled
<1>2. ASSUME NEW g \in BOOLEAN, startVpnFromConsent(g) PROVE UNCHANGED poolVars
  BY <1>2, Zenon DEF startVpnFromConsent
<1>3. CASE requestRestart BY <1>3, Zenon DEF requestRestart
<1>4. CASE onRevoke BY <1>4, Zenon DEF onRevoke
<1>5. CASE tunnelCommand BY <1>5, Zenon DEF tunnelCommand
<1>6. CASE stopSelf BY <1>6, Zenon DEF stopSelf
<1>7. CASE unblock BY <1>7, Zenon DEF unblock
<1>8. CASE startVPNService BY <1>8, Zenon DEF startVPNService
<1>9. CASE updateModulesState BY <1>9, Zenon DEF updateModulesState
<1>10. CASE writeState BY <1>10, Zenon DEF writeState
<1> QED BY <1>1, <1>2, <1>3, <1>4, <1>5, <1>6, <1>7, <1>8, <1>9, <1>10, Zenon

LEMMA InitPool == ASSUME ModulesInit PROVE PoolInv
<1>1. service = FALSE /\ runningEdgeFired = FALSE /\ configured = FALSE
  BY Zenon DEF ModulesInit
<1> QED BY <1>1, Zenon DEF PoolInv, PoolRecord, PoolFollowsLoop

(* A new service: an active state that this process did not reach itself is   *)
(* not believed.                                                              *)
LEMMA StartCommandPool ==
  ASSUME PoolInv, onStartCommand PROVE PoolInv'
<1>1. configured' = configured /\ runningEdgeFired' = runningEdgeFired /\ appState' = appState
  BY Zenon DEF onStartCommand, durableVars
<1>2. PoolRecord' BY <1>1, Zenon DEF PoolInv, PoolRecord
<1>3. CASE service
  <2>1. service' = service /\ savedDNSCryptState' = savedDNSCryptState
    BY <1>3, Zenon DEF onStartCommand, onCreate, loopVars
  <2> QED BY <2>1, <1>1, <1>2, Zenon DEF PoolInv, PoolFollowsLoop
<1>4. CASE ~service
  <2>1. savedDNSCryptState' = restoreModulesSavedState
    BY <1>4, Zenon DEF onStartCommand, onCreate
  <2>2. CASE ~runningEdgeFired
    <3>1. ~configured BY <2>2, Zenon DEF PoolInv, PoolRecord
    <3>2. restoreModulesSavedState # "RUNNING"
      BY <2>2, SMT DEF restoreModulesSavedState
    <3> QED BY <3>1, <3>2, <2>1, <1>1, <1>2, Zenon DEF PoolInv, PoolFollowsLoop
  <2>3. CASE runningEdgeFired
    <3>1. restoreModulesSavedState = appState
      BY <2>3, Zenon DEF restoreModulesSavedState
    <3> QED BY <3>1, <2>3, <2>1, <1>1, <1>2, Zenon DEF PoolInv, PoolRecord, PoolFollowsLoop
  <2> QED BY <2>2, <2>3, Zenon
<1> QED BY <1>3, <1>4, Zenon

LEMMA DestroyPool ==
  ASSUME PoolInv, onDestroy PROVE PoolInv'
<1>1. /\ configured' = configured /\ runningEdgeFired' = runningEdgeFired
      /\ appState' = appState /\ service' = FALSE
  BY Zenon DEF onDestroy, processVars, durableVars
<1> QED BY <1>1, Zenon DEF PoolInv, PoolRecord, PoolFollowsLoop

(* The loop tells the pool, this process's flag and the disk in one run.      *)
LEMMA ApplyPool ==
  ASSUME PoolInv, applyState PROVE PoolInv'
<1>0. service' = service BY Zenon DEF applyState, serviceVars
<1>1. CASE saveDNSCryptState /\ dnsCryptState # savedDNSCryptState
  <2>1. /\ runningEdgeFired' = (runningEdgeFired \/ dnsCryptState = "RUNNING")
        /\ configured' = (dnsCryptState = "RUNNING") /\ appState' = dnsCryptState
        /\ savedDNSCryptState' = dnsCryptState
    BY <1>1, Zenon DEF saveDNSCryptState
  <2> QED BY <2>1, Zenon DEF PoolInv, PoolRecord, PoolFollowsLoop
<1>2. CASE saveDNSCryptState /\ dnsCryptState = savedDNSCryptState
  <2>1. UNCHANGED poolVars
    BY <1>0, <1>2, Zenon DEF saveDNSCryptState, poolVars
  <2> QED BY <2>1, PoolKept
<1>3. CASE ~saveDNSCryptState
  <2>1. UNCHANGED poolVars
    BY <1>0, <1>3, Zenon DEF applyState, updateIptablesRules, poolVars
  <2> QED BY <2>1, PoolKept
<1> QED BY <1>1, <1>2, <1>3, Zenon

LEMMA StepPool ==
  ASSUME PoolInv, [ModulesNext]_modulesVars PROVE PoolInv'
<1>1. CASE UNCHANGED modulesVars
  <2>1. UNCHANGED poolVars
    BY <1>1, Zenon DEF modulesVars, poolVars, processVars, durableVars, serviceVars, loopVars
  <2> QED BY <2>1, PoolKept
<1>2. CASE ModulesStep
  <2>1. CASE onStartCommand BY <2>1, StartCommandPool
  <2>2. CASE onDestroy BY <2>2, DestroyPool
  <2>3. CASE applyState BY <2>3, ApplyPool
  <2>4. CASE Threads BY <2>4, ThreadsLeavePool, PoolKept
  <2>5. CASE ~(onStartCommand \/ onDestroy \/ applyState \/ Threads)
    <3>1. \/ \E e \in BOOLEAN : setDnsCryptEnabled(e)
          \/ \E granted \in BOOLEAN : startVpnFromConsent(granted)
          \/ requestRestart \/ onRevoke \/ tunnelCommand \/ stopSelf \/ unblock
          \/ startVPNService \/ updateModulesState \/ writeState
      BY <1>2, <2>5, Zenon DEF ModulesStep, LoopStep
    <3> QED BY <3>1, OthersLeavePool, PoolKept, Zenon
  <2> QED BY <2>1, <2>2, <2>3, <2>4, <2>5, Zenon
<1> QED BY <1>1, <1>2, Zenon DEF ModulesNext

(* The split-brain cure, for every order of commands, threads, loop runs and  *)
(* restarts of the process: the pool of this process is configured exactly    *)
(* while the loop of a living service believes that DNSCrypt runs.            *)
THEOREM PoolFollowsLoopAlways == ModulesSpec => []PoolFollowsLoop
<1>1. ModulesInit => PoolInv BY InitPool
<1>2. PoolInv /\ [ModulesNext]_modulesVars => PoolInv' BY StepPool
<1>3. PoolInv => PoolFollowsLoop BY DEF PoolInv
<1> QED BY <1>1, <1>2, <1>3, PTL DEF ModulesSpec
=============================================================================
