------------------------- MODULE AnytimePortfolioProofs -------------------------
(***************************************************************************)
(* Proofs about AnytimePortfolio, for every request and whatever the       *)
(* solvers answer: that the plan of the Pareto filter is the best of all,  *)
(* that no repair takes back a delay, and which results are offered.       *)
(***************************************************************************)
EXTENDS AnytimePortfolio, ScheduleRulesProofs

-----------------------------------------------------------------------------
(* Vectors of integers *)

\* The lexicographic order is strict, and a vector that is nowhere greater comes
\* before whatever the other one comes before.
LEMMA LessFacts ==
  ASSUME NEW n \in Nat, NEW k \in [1..n -> Int], NEW l \in [1..n -> Int],
         NEW m \in [1..n -> Int]
  PROVE  /\ ~Less(k, k)
         /\ Less(k, l) /\ Less(l, m) => Less(k, m)
         /\ (\A i \in 1..n : k[i] <= l[i]) /\ Less(l, m) => Less(k, m)
<1>1. ~Less(k, k)
  BY DEF Less
<1>2. ASSUME Less(k, l), Less(l, m) PROVE Less(k, m)
  <2>1. PICK i \in 1..n : k[i] < l[i] /\ \A x \in 1..(i - 1) : k[x] = l[x]
    BY <1>2 DEF Less
  <2>2. PICK j \in 1..n : l[j] < m[j] /\ \A x \in 1..(j - 1) : l[x] = m[x]
    BY <1>2 DEF Less
  <2>3. CASE i <= j
    <3>1. k[i] < m[i] /\ \A x \in 1..(i - 1) : k[x] = m[x]
      BY <2>1, <2>2, <2>3
    <3> QED  BY <3>1 DEF Less
  <2>4. CASE j < i
    <3>1. k[j] < m[j] /\ \A x \in 1..(j - 1) : k[x] = m[x]
      BY <2>1, <2>2, <2>4
    <3> QED  BY <3>1 DEF Less
  <2> QED  BY <2>3, <2>4
<1>3. ASSUME \A i \in 1..n : k[i] <= l[i], Less(l, m) PROVE Less(k, m)
  <2>1. PICK i \in 1..n : l[i] < m[i] /\ \A x \in 1..(i - 1) : l[x] = m[x]
    BY <1>3 DEF Less
  <2> DEFINE D == {x \in 1..n : k[x] < m[x]}
  <2>2. i \in D
    BY <1>3, <2>1
  <2>3. PICK d \in D : \A x \in D : d <= x
    <3>1. D \in SUBSET Nat
      OBVIOUS
    <3> HIDE DEF D
    <3> QED  BY <2>2, <3>1, NatLeast
  <2>4. \A x \in 1..(d - 1) : k[x] = m[x]
    <3> TAKE x \in 1..(d - 1)
    <3>1. x \in 1..n /\ x \in 1..(i - 1) /\ x \notin D
      BY <2>2, <2>3
    <3>2. k[x] <= l[x] /\ l[x] = m[x] /\ ~(k[x] < m[x])
      BY <3>1, <1>3, <2>1
    <3>3. k[x] \in Int /\ m[x] \in Int
      BY <3>1
    <3> QED  BY <3>2, <3>3
  <2> QED  BY <2>3, <2>4 DEF Less
<1> QED  BY <1>1, <1>2, <1>3

\* Domination is a strict order.
LEMMA DominatesFacts ==
  ASSUME NEW x \in [1..7 -> Int], NEW y \in [1..7 -> Int], NEW z \in [1..7 -> Int]
  PROVE  /\ ~Dominates(x, x)
         /\ Dominates(x, y) /\ Dominates(y, z) => Dominates(x, z)
<1>1. ~Dominates(x, x)
  BY DEF Dominates
<1>2. ASSUME Dominates(x, y), Dominates(y, z) PROVE Dominates(x, z)
  <2>1. \A i \in 1..7 : x[i] <= z[i]
    BY <1>2 DEF Dominates
  <2>2. PICK i \in 1..7 : x[i] < y[i]
    BY <1>2 DEF Dominates
  <2>3. y[i] <= z[i]
    BY <1>2 DEF Dominates
  <2>4. x[i] < z[i]
    BY <2>2, <2>3
  <2> QED  BY <2>1, <2>4 DEF Dominates
<1> QED  BY <1>1, <1>2
-----------------------------------------------------------------------------
(* Plans and their objective *)

Plans == [Ops -> [on : Machines, from : Int, to : Int]]

\* The plans without a violation, whatever they move.
Sound == {p \in Plans : Accepted(shop, p, {})}

LEMMA RequestFacts ==
  ASSUME request \in DOMAIN Shops
  PROVE  /\ IsSnapshot(shop) /\ Common(shop) /\ IsFiniteSet(Ops) /\ Horizon \in Nat
         /\ shop.old \in Plans /\ shop.captured \in Int /\ shop.delay \in Nat
         /\ shop.affected \subseteq Ops
         /\ \A o \in Ops : shop.promise[shop.order[o]] \in Int
                        /\ shop.priority[shop.order[o]] \in Nat
<1>1. /\ IsSnapshot(shop) /\ IsFiniteSet(Ops) /\ Horizon \in Nat /\ shop.captured \in Int
      /\ \A o \in Ops : shop.promise[shop.order[o]] \in Int
                     /\ shop.priority[shop.order[o]] \in Nat
  BY PortfolioConstants DEF shop
<1>2. shop.old \in [Ops -> [on : Machines, from : Nat, to : Nat]] /\ shop.delay \in Nat
  BY <1>1 DEF IsSnapshot
<1>3. shop.old \in Plans
  BY <1>2 DEF Plans
<1>4. Common(shop) /\ shop.affected \subseteq Ops
  BY <1>1 DEF IsSnapshot, Common
<1> QED  BY <1>1, <1>2, <1>3, <1>4

\* What is validated is a plan without a violation that keeps what it may not
\* move.
LEMMA ValidatedMeans ==
  ASSUME request \in DOMAIN Shops, NEW p \in Plans, NEW S \in SUBSET Ops
  PROVE  Validated(p, S) <=> /\ p \in Sound
                             /\ \A o \in Ops \ (S \ shop.frozen) : p[o] = shop.old[o]
<1>1. JudgeView(shop).old = shop.old
  BY RequestFacts, ReadingFields DEF Judges
<1>2. DOMAIN p = Ops
  BY DEF Plans
<1> DEFINE j == JudgeView(shop)
<1>3. Accepted(shop, p, Ops \ (S \ shop.frozen)) <=>
        Valid(j, p, {}) /\ \A o \in Ops \ (S \ shop.frozen) : p[o] = j.old[o]
  <2> HIDE DEF j
  <2>1. Valid(j, p, Ops \ (S \ shop.frozen)) <=>
          Valid(j, p, {}) /\ \A o \in Ops \ (S \ shop.frozen) : p[o] = j.old[o]
    BY <1>2 DEF Valid
  <2> QED  BY <2>1 DEF Accepted, j
<1> QED  BY <1>1, <1>3 DEF Validated, Sound, Accepted

\* The greatest of finitely many values, or zero.
LEMMA MostOf ==
  ASSUME NEW S, IsFiniteSet(S), NEW f \in [S -> Int]
  PROVE  /\ Max({0} \cup {f[x] : x \in S}) \in Nat
         /\ \A x \in S : f[x] <= Max({0} \cup {f[y] : y \in S})
<1> DEFINE V == {0} \cup {f[x] : x \in S}
<1>1. IsFiniteSet(V)
  <2>1. IsFiniteSet({f[x] : x \in S})
    BY FiniteValues
  <2> QED  BY <2>1, FS_Singleton, FS_Union
<1>2. V \in SUBSET Int /\ 0 \in V
  OBVIOUS
<1>3. Max(V) \in V /\ \A x \in V : x <= Max(V)
  <2> HIDE DEF V
  <2> QED  BY <1>1, <1>2, MaxOfFinite
<1> QED  BY <1>2, <1>3

LEMMA TardinessType ==
  ASSUME NEW s, NEW p \in Plans, NEW w, IsFiniteSet(Ops), s.promise[w] \in Int
  PROVE  Tardiness(s, p, w) \in Nat
<1> DEFINE S == {o \in Ops : s.order[o] = w}
           f == [o \in S |-> p[o].to - s.promise[w]]
<1>1. f \in [S -> Int]
  BY DEF Plans
<1>2. IsFiniteSet(S)
  BY FS_Subset
<1>3. {f[o] : o \in S} = {p[o].to - s.promise[w] : o \in S}
  OBVIOUS
<1>4. Max({0} \cup {f[o] : o \in S}) \in Nat
  <2> HIDE DEF f, S
  <2> QED  BY <1>1, <1>2, MostOf
<1> QED  BY <1>3, <1>4 DEF Tardiness

LEMMA ScoreType ==
  ASSUME request \in DOMAIN Shops, NEW p \in Plans
  PROVE  Objective(shop, p) \in [1..7 -> Int]
<1> DEFINE Works == {shop.order[o] : o \in Ops}
           late == [w \in Works |-> Tardiness(shop, p, w)]
           weighed == [w \in Works |-> late[w] * shop.priority[w]]
           Abs(n) == IF n < 0 THEN -n ELSE n
           shift == [o \in Ops |-> Abs(p[o].from - shop.old[o].from)]
           span == [x \in Ops \X Ops |-> p[x[1]].to - p[x[2]].from]
<1>1. /\ shop.old \in Plans /\ IsFiniteSet(Ops)
      /\ \A o \in Ops : shop.promise[shop.order[o]] \in Int
                     /\ shop.priority[shop.order[o]] \in Nat
  BY RequestFacts
<1>2. IsFiniteSet(Works)
  <2> DEFINE f == [o \in Ops |-> shop.order[o]]
  <2>1. Works = {f[o] : o \in Ops} /\ DOMAIN f = Ops
    OBVIOUS
  <2> HIDE DEF f, Works
  <2> QED  BY <1>1, <2>1, FiniteValues
<1>3. late \in [Works -> Nat]
  <2>1. \A w \in Works : Tardiness(shop, p, w) \in Nat
    BY <1>1, TardinessType
  <2> QED  BY <2>1
<1>4. weighed \in [Works -> Nat]
  <2>1. \A w \in Works : shop.priority[w] \in Nat
    BY <1>1
  <2> HIDE DEF Works, late
  <2> QED  BY <2>1, <1>3
<1>5. shift \in [Ops -> Nat]
  <2>1. \A o \in Ops : p[o].from \in Int /\ shop.old[o].from \in Int
    BY <1>1 DEF Plans
  <2> QED  BY <2>1
<1>6. span \in [Ops \X Ops -> Int] /\ IsFiniteSet(Ops \X Ops)
  <2>1. \A x \in Ops \X Ops : p[x[1]].to \in Int /\ p[x[2]].from \in Int
    BY DEF Plans
  <2>2. IsFiniteSet(Ops \X Ops)
    BY <1>1, FS_Product
  <2> QED  BY <2>1, <2>2
<1>7. Total(weighed) \in Nat /\ Total(late) \in Nat /\ Total(shift) \in Nat
  <2> HIDE DEF weighed, late, shift, Works
  <2> QED  BY <1>1, <1>2, <1>3, <1>4, <1>5, UnitsFinite
<1>8. Cardinality({w \in Works : late[w] > 0}) \in Nat
  <2> HIDE DEF late, Works
  <2> QED  BY <1>2, FS_Subset, FS_CardinalityType
<1>9. Cardinality({o \in Ops : Moves(shop, p, o)}) \in Nat
  BY <1>1, FS_Subset, FS_CardinalityType
<1>10. Max({0} \cup {late[w] : w \in Works}) \in Nat
  <2>1. late \in [Works -> Int]
    <3> HIDE DEF late, Works
    <3> QED  BY <1>3
  <2> HIDE DEF late, Works
  <2> QED  BY <2>1, <1>2, MostOf
<1>11. Max({0} \cup {p[x[1]].to - p[x[2]].from : x \in Ops \X Ops}) \in Nat
  <2>1. {span[x] : x \in Ops \X Ops} = {p[x[1]].to - p[x[2]].from : x \in Ops \X Ops}
    OBVIOUS
  <2>2. Max({0} \cup {span[x] : x \in Ops \X Ops}) \in Nat
    <3> HIDE DEF span
    <3> QED  BY <1>6, MostOf
  <2> QED  BY <2>1, <2>2
<1>12. Objective(shop, p) =
         <<Total(weighed), Cardinality({w \in Works : late[w] > 0}), Total(late),
           Max({0} \cup {late[w] : w \in Works}), Total(shift),
           Cardinality({o \in Ops : Moves(shop, p, o)}),
           Max({0} \cup {p[x[1]].to - p[x[2]].from : x \in Ops \X Ops})>>
  BY DEF Objective
<1> HIDE DEF weighed, late, shift, Works
<1> QED  BY <1>7, <1>8, <1>9, <1>10, <1>11, <1>12
-----------------------------------------------------------------------------
(* The best candidate *)

Sources == {"ssgs", "cp_sat", "alns"}

\* The candidates for the request: what was validated, and its objective.
Judged ==
  {c \in [source : Sources, plan : Sound, scope : SUBSET Ops, score : [1..7 -> Int]] :
     c.score = Objective(shop, c.plan)}

\* All keys have the same length, and end with the rank of the source.
LEMMA KeyFacts ==
  \E n \in Nat :
    /\ Criteria \in [1..n -> 1..7]
    /\ \A c \in Judged :
         /\ RankingKey(c) \in [1..n -> Int] /\ Key(c) \in [1..(n + 1) -> Int]
         /\ \A i \in 1..n : Key(c)[i] = RankingKey(c)[i]
<1>1. PICK n \in Nat : Criteria \in [1..n -> 1..7]
  <2>1. Criteria \in [1..6 -> 1..7] \/ Criteria \in [1..5 -> 1..7]
    BY DEF Criteria
  <2> QED  BY <2>1
<1>2. ASSUME NEW c \in Judged
      PROVE  /\ RankingKey(c) \in [1..n -> Int] /\ Key(c) \in [1..(n + 1) -> Int]
             /\ \A i \in 1..n : Key(c)[i] = RankingKey(c)[i]
  <2>1. RankingKey(c) = [i \in 1..n |-> c.score[Criteria[i]]]
    BY <1>1 DEF RankingKey
  <2>2. RankingKey(c) \in [1..n -> Int]
    BY <2>1, <1>1, <1>2 DEF Judged
  <2>3. RankingKey(c) \in Seq(Int) /\ Len(RankingKey(c)) = n
    BY <2>2
  <2>4. SourceRank[c.source] \in Int
    BY <1>2 DEF Judged, Sources, SourceRank
  <2>5. /\ Key(c) \in Seq(Int) /\ Len(Key(c)) = n + 1
        /\ \A i \in 1..n : Key(c)[i] = RankingKey(c)[i]
    BY <2>3, <2>4 DEF Key
  <2>6. Key(c) \in [1..(n + 1) -> Int]
    BY <2>5
  <2> QED  BY <2>2, <2>5, <2>6
<1> QED  BY <1>1, <1>2

LEMMA BestFacts ==
  ASSUME NEW seq \in Seq(Judged), NEW places \in SUBSET DOMAIN seq, places # {}
  PROVE  \E i \in places : /\ Best(seq, places) = seq[i]
                           /\ \A j \in places : ~Less(Key(seq[j]), Key(seq[i]))
<1> DEFINE least == {i \in places : \A j \in places : ~Less(Key(seq[j]), Key(seq[i]))}
           R == {r \in places \X places : Less(Key(seq[r[1]]), Key(seq[r[2]]))}
<1>1. PICK n \in Nat : \A c \in Judged : Key(c) \in [1..n -> Int]
  <2>1. \A n \in Nat : n + 1 \in Nat
    OBVIOUS
  <2> QED  BY <2>1, KeyFacts
<1>2. \A i \in places : seq[i] \in Judged
  OBVIOUS
<1>3. \A i, j \in places : <<i, j>> \in R <=> Less(Key(seq[i]), Key(seq[j]))
  OBVIOUS
<1>4. /\ \A i \in places : ~Less(Key(seq[i]), Key(seq[i]))
      /\ \A i, j, h \in places : Less(Key(seq[i]), Key(seq[j])) /\ Less(Key(seq[j]), Key(seq[h]))
                                 => Less(Key(seq[i]), Key(seq[h]))
  <2>1. \A i \in places : Key(seq[i]) \in [1..n -> Int]
    BY <1>1, <1>2
  <2> QED  BY <2>1, LessFacts
<1>5. IsFiniteSet(places)
  <2>1. IsFiniteSet(1..Len(seq)) /\ DOMAIN seq = 1..Len(seq)
    BY FS_Interval
  <2> QED  BY <2>1, FS_Subset
<1>6. \E i \in places : \A j \in places : <<j, i>> \notin R
  <2> HIDE DEF R
  <2>1. places # {}
    OBVIOUS
  <2>2. \A i \in places : <<i, i>> \notin R
    BY <1>3, <1>4
  <2>3. \A i, j, h \in places : <<i, j>> \in R /\ <<j, h>> \in R => <<i, h>> \in R
    BY <1>3, <1>4
  <2> QED  BY <1>5, <2>1, <2>2, <2>3, HasMinimal
<1>7. least # {} /\ least \in SUBSET Nat
  <2>1. least # {}
    <3> HIDE DEF R
    <3> QED  BY <1>3, <1>6
  <2>2. places \subseteq Nat
    OBVIOUS
  <2> QED  BY <2>1, <2>2
<1>8. Min(least) \in least
  <2> HIDE DEF least
  <2> QED  BY <1>7, MinOfNat
<1>9. Best(seq, places) = seq[Min(least)]
  BY DEF Best
<1> QED  BY <1>8, <1>9

\* Every candidate has one on the front that has the same plan or dominates it,
\* and none on the front dominates another.
LEMMA FrontFacts ==
  ASSUME request \in DOMAIN Shops, NEW seq \in Seq(Judged)
  PROVE  /\ ParetoFront(seq) \subseteq DOMAIN seq
         /\ \A i \in DOMAIN seq : \E d \in ParetoFront(seq) :
              seq[d].plan = seq[i].plan \/ Dominates(seq[d].score, seq[i].score)
         /\ \A d, e \in ParetoFront(seq) : ~Dominates(seq[d].score, seq[e].score)
<1> DEFINE N == Len(seq)
           Skipped(front, n) ==
             \E d \in front : \/ seq[d].plan = seq[n].plan
                              \/ Dominates(seq[d].score, seq[n].score)
           Step(f, n) ==
             IF n = 0 THEN {}
             ELSE IF Skipped(f[n - 1], n) THEN f[n - 1]
             ELSE {d \in f[n - 1] : ~Dominates(seq[n].score, seq[d].score)} \cup {n}
           IsFront(f) == f = [n \in 0..N |-> Step(f, n)]
<1>1. N \in Nat /\ DOMAIN seq = 1..N /\ \A i \in 1..N : seq[i] \in Judged
  OBVIOUS
<1>2. ParetoFront(seq) = (CHOOSE f : IsFront(f))[N]
  BY DEF ParetoFront
<1>3. \A i, j \in 1..N : seq[i].plan = seq[j].plan => seq[i].score = seq[j].score
  BY <1>1 DEF Judged
<1>4. \A i \in 1..N : ~Dominates(seq[i].score, seq[i].score)
  BY <1>1, DominatesFacts DEF Judged
<1>5. \A i, j, k \in 1..N :
        Dominates(seq[i].score, seq[j].score) /\ Dominates(seq[j].score, seq[k].score)
        => Dominates(seq[i].score, seq[k].score)
  <2>1. \A i \in 1..N : seq[i].score \in [1..7 -> Int]
    BY <1>1 DEF Judged
  <2> QED  BY <2>1, DominatesFacts
<1> HIDE DEF N
\* The fronts are a function: each is made from the one before.
<1>6. \E f : IsFront(f)
  <2> DEFINE Upto(k) == \E f \in [0..N -> SUBSET Nat] :
                          \A n \in 0..N : n < k => f[n] = Step(f, n)
             Good == {k \in Nat : Upto(k)}
  <2>1. 0 \in Good
    <3> DEFINE f == [n \in 0..N |-> {}]
    <3>1. f \in [0..N -> SUBSET Nat] /\ \A n \in 0..N : n < 0 => f[n] = Step(f, n)
      BY <1>1
    <3> HIDE DEF f, Step
    <3> QED  BY <3>1
  <2>2. ASSUME NEW k \in Good PROVE k + 1 \in Good
    <3>1. PICK f \in [0..N -> SUBSET Nat] : \A n \in 0..N : n < k => f[n] = Step(f, n)
      BY <2>2
    <3> DEFINE g == [n \in 0..N |-> IF n = k THEN Step(f, k) ELSE f[n]]
    <3>2. \A n \in 0..N : n <= k => Step(g, n) = Step(f, n)
      <4> SUFFICES ASSUME NEW n \in 0..N, n <= k PROVE Step(g, n) = Step(f, n)
        OBVIOUS
      <4>1. n # 0 => n - 1 \in 0..N /\ n - 1 # k
        BY <1>1
      <4>2. n # 0 => g[n - 1] = f[n - 1]
        <5> HIDE DEF Step
        <5> QED  BY <4>1
      <4> HIDE DEF g
      <4> QED  BY <4>2
    <3>3. k \in 0..N => Step(f, k) \in SUBSET Nat
      <4> SUFFICES ASSUME k \in 0..N, k # 0 PROVE Step(f, k) \in SUBSET Nat
        OBVIOUS
      <4>1. k - 1 \in 0..N
        BY <1>1
      <4>2. f[k - 1] \in SUBSET Nat
        BY <4>1, <3>1
      <4> QED  BY <4>2
    <3>4. g \in [0..N -> SUBSET Nat]
      <4> HIDE DEF Step
      <4> QED  BY <3>1, <3>3
    <3>5. \A n \in 0..N : g[n] = IF n = k THEN Step(f, k) ELSE f[n]
      OBVIOUS
    <3> HIDE DEF Step, g
    <3>6. ASSUME NEW n \in 0..N, n < k + 1 PROVE g[n] = Step(g, n)
      <4>1. n = k \/ n < k
        BY <1>1, <3>6
      <4> QED  BY <4>1, <3>1, <3>2, <3>5
    <3>7. Upto(k + 1)
      BY <3>4, <3>6
    <3> HIDE DEF Upto
    <3> QED  BY <3>7
  <2>3. Good = Nat
    <3> HIDE DEF Good
    <3>1. Good \in SUBSET Nat
      BY DEF Good
    <3> QED  BY <2>1, <2>2, <3>1, NatGrows
  <2>4. PICK f \in [0..N -> SUBSET Nat] : \A n \in 0..N : n < N + 1 => f[n] = Step(f, n)
    <3>1. N + 1 \in Good
      <4> HIDE DEF Good
      <4> QED  BY <1>1, <2>3
    <3> HIDE DEF Step
    <3> QED  BY <3>1
  <2>5. IsFront(f)
    <3> HIDE DEF Step
    <3>1. \A n \in 0..N : f[n] = Step(f, n)
      BY <1>1, <2>4
    <3> QED  BY <3>1, <2>4
  <2> QED  BY <2>5
<1> DEFINE f == CHOOSE f : IsFront(f)
<1>7. \A n \in 0..N : f[n] = Step(f, n)
  <2>1. IsFront(f)
    <3> HIDE DEF IsFront
    <3> QED  BY <1>6
  <2> HIDE DEF f, Step
  <2> QED  BY <2>1
<1>8. ParetoFront(seq) = f[N]
  BY <1>2
<1> HIDE DEF f
<1> DEFINE Covers(F, n) == \A i \in 1..n : \E d \in F :
                             seq[d].plan = seq[i].plan \/ Dominates(seq[d].score, seq[i].score)
           Apart(F) == \A d, e \in F : ~Dominates(seq[d].score, seq[e].score)
           Fine(n) == f[n] \subseteq 1..n /\ Covers(f[n], n) /\ Apart(f[n])
           T == {n \in Nat : n \in 0..N => Fine(n)}
<1>9. 0 \in T
  <2>1. 0 \in 0..N
    BY <1>1
  <2>2. f[0] = {}
    BY <2>1, <1>7
  <2> QED  BY <2>2
<1>10. ASSUME NEW m \in T PROVE m + 1 \in T
  <2> SUFFICES ASSUME m + 1 \in 0..N PROVE Fine(m + 1)
    OBVIOUS
  <2> DEFINE n == m + 1
             F == f[m]
  <2>1. m \in 0..N /\ n \in 1..N /\ n # 0 /\ n - 1 = m
    BY <1>1
  <2>2. F \subseteq 1..m /\ Covers(F, m) /\ Apart(F)
    BY <2>1
  <2>3. f[n] = IF Skipped(F, n) THEN F
               ELSE {d \in F : ~Dominates(seq[n].score, seq[d].score)} \cup {n}
    BY <2>1, <1>7
  <2>4. 1..m \subseteq 1..N /\ 1..n \subseteq 1..N /\ 1..m \subseteq 1..n
        /\ n \in 1..n /\ \A i \in 1..n : i \in 1..m \/ i = n
    BY <2>1, <1>1
  <2> HIDE DEF n, F
  <2>5. CASE Skipped(F, n)
    <3>1. f[n] = F
      BY <2>3, <2>5
    <3>2. Covers(F, n)
      BY <2>2, <2>4, <2>5
    <3>3. Fine(n)
      BY <3>1, <3>2, <2>2, <2>4
    <3> QED  BY <3>3 DEF n
  <2>6. CASE ~Skipped(F, n)
    <3> DEFINE G == {d \in F : ~Dominates(seq[n].score, seq[d].score)} \cup {n}
    <3>1. f[n] = G
      BY <2>3, <2>6
    <3>2. G \subseteq 1..n
      BY <2>1, <2>2, <2>4
    <3>3. Covers(G, n)
      <4> SUFFICES ASSUME NEW i \in 1..n
                   PROVE  \E d \in G : \/ seq[d].plan = seq[i].plan
                                       \/ Dominates(seq[d].score, seq[i].score)
        OBVIOUS
      <4>1. CASE i = n
        BY <4>1
      <4>2. CASE i \in 1..m
        <5>1. PICK d \in F : \/ seq[d].plan = seq[i].plan
                             \/ Dominates(seq[d].score, seq[i].score)
          BY <4>2, <2>2
        <5>2. CASE d \in G
          BY <5>1, <5>2
        <5>3. CASE d \notin G
          <6>1. Dominates(seq[n].score, seq[d].score)
            BY <5>3
          <6>2. d \in 1..N /\ n \in 1..N /\ i \in 1..N
            BY <2>1, <2>2, <2>4, <4>2
          <6>3. Dominates(seq[n].score, seq[i].score)
            BY <6>1, <6>2, <5>1, <1>3, <1>5
          <6> QED  BY <6>3
        <5> QED  BY <5>2, <5>3
      <4> QED  BY <4>1, <4>2, <2>4
    <3>4. Apart(G)
      <4> SUFFICES ASSUME NEW d \in G, NEW e \in G, Dominates(seq[d].score, seq[e].score)
                   PROVE  FALSE
        OBVIOUS
      <4>1. ~(d = n /\ e = n)
        BY <1>4, <2>1
      <4>2. ~(d \in F /\ e \in F)
        BY <2>2
      <4>3. ~(d \in F /\ e = n)
        BY <2>6
      <4>4. ~(d = n /\ e \in F /\ e # n)
        OBVIOUS
      <4> QED  BY <4>1, <4>2, <4>3, <4>4
    <3> HIDE DEF G
    <3>5. Fine(n)
      BY <3>1, <3>2, <3>3, <3>4
    <3> QED  BY <3>5 DEF n
  <2> QED  BY <2>5, <2>6
<1>11. T = Nat
  <2> HIDE DEF T
  <2>1. T \in SUBSET Nat
    BY DEF T
  <2> QED  BY <1>9, <1>10, <2>1, NatGrows
<1>12. Fine(N)
  <2>1. N \in T /\ N \in 0..N
    <3> HIDE DEF T
    <3> QED  BY <1>1, <1>11
  <2> HIDE DEF Fine
  <2> QED  BY <2>1
<1>13. ParetoFront(seq) \subseteq DOMAIN seq
  BY <1>1, <1>8, <1>12
<1>14. \A i \in DOMAIN seq : \E d \in ParetoFront(seq) :
         seq[d].plan = seq[i].plan \/ Dominates(seq[d].score, seq[i].score)
  <2>1. Covers(f[N], N)
    BY <1>12
  <2> QED  BY <2>1, <1>1, <1>8
<1>15. \A d, e \in ParetoFront(seq) : ~Dominates(seq[d].score, seq[e].score)
  <2>1. Apart(f[N])
    BY <1>12
  <2> QED  BY <2>1, <1>8
<1> QED  BY <1>13, <1>14, <1>15
-----------------------------------------------------------------------------
(* The candidates *)

\* The candidates are judged, the incumbent is one of them or has the plan of
\* one, and the result is the best on their front.
PortfolioInv ==
  /\ request \in DOMAIN Shops
  /\ candidates \in Seq(Judged)
  /\ tries \in Nat
  /\ stage = "heuristic" => candidates = <<>>
  /\ stage \in {"alns", "done"} /\ candidates # <<>> =>
       /\ incumbent \in Judged
       /\ \E i \in DOMAIN candidates : candidates[i].plan = incumbent.plan
  /\ verdict \in {"offered", "discarded"} =>
       /\ stage = "done" /\ candidates # <<>>
       /\ result = Best(candidates, ParetoFront(candidates))
       /\ verdict = "discarded" => ~Offered(result)

-----------------------------------------------------------------------------
(* What the solvers answer *)

FirstAnswers ==
  {p \in Answers(shop.old, shop.old, Scope(shop), shop.delay)
         \cup Answers(shop.old, Rewritten(shop.old), Scope(shop), shop.delay) :
     Validated(p, Scope(shop))}

RepairAnswers(base, hood) ==
  {p \in Answers(base, Rewritten(base), RepairScope(hood), 0) :
     Validated(p, RepairScope(hood) \cup Changed(base))}

\* The origin of a solver is no later than any start, so that no start is moved
\* back by a minute.
LEMMA StartFacts ==
  ASSUME request \in DOMAIN Shops, NEW base \in Plans, NEW o \in Ops
  PROVE  /\ Origin(base) \in Int /\ Origin(base) <= Start(base, o)
         /\ Start(base, o) \in Int /\ base[o].from < Start(base, o) + Minute
         /\ \A m \in Machines : Duration(base, o, m) \in Int
<1>1. IsFiniteSet(Ops) /\ shop.captured \in Int /\ IsSnapshot(shop) /\ Minute \in Nat \ {0}
  BY RequestFacts, TimeConstants
<1>2. \A q \in Ops : base[q].from \in Int /\ base[q].to \in Int
  BY DEF Plans
<1>3. Origin(base) \in Int /\ Origin(base) <= base[o].from
  <2> DEFINE f == [q \in Ops |-> base[q].from]
             S == {shop.captured} \cup {f[q] : q \in Ops}
  <2>1. IsFiniteSet({f[q] : q \in Ops})
    BY <1>1, FiniteValues
  <2>2. IsFiniteSet(S)
    BY <2>1, FS_Singleton, FS_Union
  <2>3. S \in SUBSET Int /\ S # {} /\ base[o].from \in S
    BY <1>1, <1>2
  <2>4. Min(S) \in Int /\ Min(S) <= base[o].from
    <3> HIDE DEF S
    <3> QED  BY <2>2, <2>3, MinOfFinite
  <2>5. Origin(base) = Min(S)
    BY DEF Origin
  <2> QED  BY <2>4, <2>5
<1>4. /\ Start(base, o) \in Int /\ Origin(base) <= Start(base, o)
      /\ base[o].from < Start(base, o) + Minute
  <2>1. base[o].from - Origin(base) \in Int /\ base[o].from - Origin(base) >= 0
    BY <1>2, <1>3
  <2>2. /\ Floor(base[o].from - Origin(base)) \in Nat
        /\ base[o].from - Origin(base) < Floor(base[o].from - Origin(base)) + Minute
    BY <2>1, FloorFacts
  <2> QED  BY <1>1, <1>2, <1>3, <2>2 DEF Start
<1>5. ASSUME NEW m \in Machines PROVE Duration(base, o, m) \in Int
  <2> DEFINE d == Floor(base[o].to - base[o].from)
             S == {Minute, d}
  <2>1. d \in Int
    BY <1>2, FloorFacts
  <2>2. IsFiniteSet(S)
    <3>1. IsFiniteSet({Minute}) /\ IsFiniteSet({d}) /\ S = {Minute} \cup {d}
      BY FS_Singleton
    <3> HIDE DEF S
    <3> QED  BY <3>1, FS_Union
  <2>3. S \in SUBSET Int /\ S # {}
    BY <2>1, <1>1
  <2>4. Max(S) \in Int
    <3> HIDE DEF S
    <3> QED  BY <2>2, <2>3, MaxOfFinite
  <2>5. m \in DOMAIN shop.length[o] => shop.length[o][m] \in Int
    BY <1>1 DEF IsSnapshot
  <2> QED  BY <2>4, <2>5 DEF Duration
<1> QED  BY <1>3, <1>4, <1>5

LEMMA RewrittenType ==
  ASSUME request \in DOMAIN Shops, NEW base \in Plans
  PROVE  Rewritten(base) \in Plans
<1>1. ASSUME NEW o \in Ops
      PROVE  /\ base[o].on \in Machines
             /\ Start(base, o) \in Int /\ Start(base, o) + Duration(base, o, base[o].on) \in Int
  <2>1. base[o].on \in Machines
    BY DEF Plans
  <2> QED  BY <2>1, StartFacts
<1> QED  BY <1>1 DEF Rewritten, Plans

\* What a solver answers is a plan, as it was told outside the scope, and of
\* the rest what is not urgent starts no earlier than it was told.
LEMMA AnswerFacts ==
  ASSUME request \in DOMAIN Shops, NEW base \in Plans, NEW kept \in Plans,
         NEW scope, NEW delay \in Nat, NEW p \in Answers(base, kept, scope, delay)
  PROVE  /\ p \in Plans
         /\ \A o \in Ops \ scope : p[o] = kept[o]
         /\ \A o \in (Ops \cap scope) \ shop.urgent :
              p[o].from >= Start(base, o) + (IF o \in shop.affected THEN Rounded(delay) ELSE 0)
<1>1. ASSUME NEW o \in Ops, NEW c \in PlacesOf(base, o, delay)
      PROVE  /\ c \in [on : Machines, from : Int, to : Int]
             /\ o \notin shop.urgent =>
                  c.from >= Start(base, o) + (IF o \in shop.affected THEN Rounded(delay) ELSE 0)
  <2> DEFINE bound == (IF o \in shop.urgent THEN Origin(base) ELSE Start(base, o))
                      + (IF o \in shop.affected THEN Rounded(delay) ELSE 0)
             minutes == {t \in bound..Horizon : (t - Origin(base)) % Minute = 0}
             machines == shop.eligible[o] \cup {base[o].on}
  <2>1. bound \in Int /\ Horizon \in Int
    BY StartFacts, RoundedFacts, RequestFacts
  <2>2. machines \subseteq Machines
    BY RequestFacts DEF Plans, Common
  <2>3. PICK x \in machines \X minutes :
          c = [on |-> x[1], from |-> x[2], to |-> x[2] + Duration(base, o, x[1])]
    BY <1>1 DEF PlacesOf
  <2>4. x[1] \in Machines /\ x[2] \in Int /\ x[2] >= bound
    <3>1. \A t \in minutes : t \in Int /\ t >= bound
      <4> HIDE DEF bound
      <4> QED  BY <2>1
    <3> HIDE DEF minutes, machines
    <3> QED  BY <3>1, <2>2, <2>3
  <2>5. Duration(base, o, x[1]) \in Int
    BY <2>4, StartFacts
  <2>6. c.from >= bound /\ c \in [on : Machines, from : Int, to : Int]
    BY <2>3, <2>4, <2>5
  <2> QED  BY <2>6
<1> DEFINE places == [o \in Ops |-> IF o \in scope THEN PlacesOf(base, o, delay) ELSE {kept[o]}]
<1>2. /\ p \in [Ops -> UNION Range(places)]
      /\ \A o \in Ops : p[o] \in places[o]
  BY DEF Answers
<1>3. \A o \in Ops : p[o] \in [on : Machines, from : Int, to : Int]
  BY <1>1, <1>2 DEF Plans
<1>4. p \in Plans
  BY <1>2, <1>3 DEF Plans
<1> QED  BY <1>1, <1>2, <1>4

\* What the first solvers answer keeps what is out of the scope and delays what
\* is affected, but for a minute and a half.
LEMMA FirstAnswer ==
  ASSUME request \in DOMAIN Shops, NEW source \in Sources, NEW p \in FirstAnswers
  PROVE  /\ Candidate(source, p, Scope(shop)) \in Judged
         /\ p \in Sound
         /\ \A o \in Ops \ Scope(shop) : p[o] = shop.old[o]
         /\ \A o \in shop.affected \ (shop.frozen \cup shop.urgent) :
              2 * (p[o].from - shop.old[o].from - shop.delay) + 3 * Minute > 0
<1>1. /\ shop.old \in Plans /\ shop.delay \in Nat /\ Common(shop) /\ shop.affected \subseteq Ops
      /\ Minute \in Nat
  BY RequestFacts, TimeConstants
<1>2. Scope(shop) \subseteq Ops /\ shop.affected \ shop.frozen \subseteq Scope(shop)
  BY <1>1, ScopeType
<1>3. PICK kept \in Plans : p \in Answers(shop.old, kept, Scope(shop), shop.delay)
  BY <1>1, RewrittenType DEF FirstAnswers
<1>4. p \in Plans
  BY <1>1, <1>3, AnswerFacts
<1>5. p \in Sound /\ \A o \in Ops \ Scope(shop) : p[o] = shop.old[o]
  BY <1>2, <1>4, ValidatedMeans DEF FirstAnswers
<1>6. Candidate(source, p, Scope(shop)) \in Judged
  BY <1>2, <1>4, <1>5, ScoreType DEF Candidate, Judged
<1>7. ASSUME NEW o \in shop.affected \ (shop.frozen \cup shop.urgent)
      PROVE  2 * (p[o].from - shop.old[o].from - shop.delay) + 3 * Minute > 0
  <2>1. o \in (Ops \cap Scope(shop)) \ shop.urgent
    BY <1>1, <1>2
  <2>2. p[o].from >= Start(shop.old, o) + Rounded(shop.delay)
    BY <2>1, <1>1, <1>3, AnswerFacts
  <2>3. Start(shop.old, o) \in Int /\ shop.old[o].from < Start(shop.old, o) + Minute
    BY <2>1, <1>1, StartFacts
  <2>4. Rounded(shop.delay) \in Nat /\ 2 * shop.delay <= 2 * Rounded(shop.delay) + Minute
    BY <1>1, RoundedFacts
  <2>5. p[o].from \in Int /\ shop.old[o].from \in Int
    BY <2>1, <1>1, <1>4 DEF Plans
  <2> QED  BY <2>2, <2>3, <2>4, <2>5, <1>1
<1> QED  BY <1>5, <1>6, <1>7

\* A repair keeps what is out of its scope unless the base has moved it, and
\* moves nothing that is not urgent to a minute before its base.
LEMMA RepairAnswer ==
  ASSUME request \in DOMAIN Shops, NEW hood \in SUBSET Ops, NEW base \in Sound,
         NEW p \in RepairAnswers(base, hood)
  PROVE  /\ Candidate("alns", p, RepairScope(hood)) \in Judged
         /\ p \in Sound
         /\ \A o \in Ops \ RepairScope(hood) : base[o] = shop.old[o] => p[o] = shop.old[o]
         /\ \A o \in Ops \ shop.urgent : base[o].from < p[o].from + Minute
<1>1. base \in Plans /\ Rewritten(base) \in Plans /\ Minute \in Nat
  BY RewrittenType, TimeConstants DEF Sound
<1>2. p \in Answers(base, Rewritten(base), RepairScope(hood), 0)
  BY DEF RepairAnswers
<1>3. p \in Plans /\ \A o \in Ops \ RepairScope(hood) : p[o] = Rewritten(base)[o]
  BY <1>1, <1>2, AnswerFacts
<1>4. RepairScope(hood) \subseteq Ops /\ RepairScope(hood) \cap shop.frozen = {}
  BY DownstreamIsLeast DEF RepairScope
<1>5. /\ p \in Sound
      /\ \A o \in Ops \ RepairScope(hood) : o \notin Changed(base) => p[o] = shop.old[o]
  <2>1. RepairScope(hood) \cup Changed(base) \in SUBSET Ops
    BY <1>4 DEF Changed
  <2>2. Validated(p, RepairScope(hood) \cup Changed(base))
    BY DEF RepairAnswers
  <2> QED  BY <2>1, <2>2, <1>3, ValidatedMeans
<1>6. Candidate("alns", p, RepairScope(hood)) \in Judged
  BY <1>3, <1>4, <1>5, ScoreType DEF Candidate, Judged, Sources
<1>7. ASSUME NEW o \in Ops \ RepairScope(hood), base[o] = shop.old[o] PROVE p[o] = shop.old[o]
  BY <1>5, <1>7 DEF Changed, Moves
<1>8. ASSUME NEW o \in Ops \ shop.urgent PROVE base[o].from < p[o].from + Minute
  <2>1. Start(base, o) \in Int /\ base[o].from < Start(base, o) + Minute
    BY <1>1, StartFacts
  <2>2. p[o].from \in Int /\ base[o].from \in Int
    BY <1>1, <1>3 DEF Plans
  <2>3. CASE o \in RepairScope(hood)
    <3>1. p[o].from >= Start(base, o) + (IF o \in shop.affected THEN Rounded(0) ELSE 0)
      BY <2>3, <1>1, <1>2, AnswerFacts
    <3>2. Rounded(0) \in Nat
      BY RoundedFacts
    <3> QED  BY <3>1, <3>2, <2>1, <2>2, <1>1
  <2>4. CASE o \notin RepairScope(hood)
    <3>1. p[o].from = Start(base, o)
      <4>1. p[o] = Rewritten(base)[o]
        BY <2>4, <1>3
      <4>2. Rewritten(base)[o].from = Start(base, o)
        BY DEF Rewritten
      <4> QED  BY <4>1, <4>2
    <3> QED  BY <3>1, <2>1
  <2> QED  BY <2>3, <2>4
<1> QED  BY <1>5, <1>6, <1>7, <1>8

\* The neighborhoods hold what is affected, which is the first of them.
LEMMA HoodFacts ==
  ASSUME request \in DOMAIN Shops
  PROVE  /\ Neighborhoods \in Seq(SUBSET Ops) /\ Len(Neighborhoods) <= Iterations
         /\ \A i \in 1..Len(Neighborhoods) : shop.affected \subseteq Neighborhoods[i]
         /\ Len(Neighborhoods) > 0 => Neighborhoods[1] = shop.affected
<1> DEFINE after == Downstream(shop, shop.affected)
           onSame == {o \in Ops : \E a \in shop.affected : shop.old[o].on = shop.old[a].on}
           ofSame == {o \in Ops : \E a \in shop.affected : shop.order[o] = shop.order[a]}
           Add(hoods, h) == IF h = {} \/ h \in Range(hoods) THEN hoods ELSE Append(hoods, h)
           one == Add(<<>>, shop.affected)
           two == Add(one, after)
           three == Add(two, shop.affected \cup onSame)
           all == Add(three, after \cup ofSame)
           Hoods == {h \in SUBSET Ops : shop.affected \subseteq h}
           Fine(hoods) == hoods \in Seq(Hoods) /\ (Len(hoods) > 0 => hoods[1] = shop.affected)
           n == Min({Iterations, Len(all)})
<1>1. shop.affected \subseteq Ops /\ Iterations \in Nat
  BY RequestFacts, PortfolioConstants
<1>2. /\ after \in Hoods /\ (shop.affected = {} => after = {})
  <2>1. shop.affected \subseteq after /\ after \subseteq Ops
    BY <1>1, DownstreamIsLeast
  <2>2. ASSUME shop.affected = {} PROVE after = {}
    <3>1. Grown(shop, {}) /\ {} \in SUBSET Ops
      BY DEF Grown
    <3>2. after \subseteq {}
      BY <3>1, <2>2, <1>1, DownstreamIsLeast
    <3> QED  BY <3>2
  <2> QED  BY <2>1, <2>2
<1>3. /\ shop.affected \cup onSame \in Hoods /\ after \cup ofSame \in Hoods
      /\ shop.affected \in Hoods
      /\ shop.affected = {} => onSame = {} /\ ofSame = {}
  BY <1>1, <1>2
<1>4. ASSUME NEW hoods, Fine(hoods), NEW h \in Hoods, Len(hoods) > 0 \/ h = {}
      PROVE  Fine(Add(hoods, h)) /\ (Len(hoods) > 0 => Len(Add(hoods, h)) > 0)
  <2> HIDE DEF Hoods
  <2> QED  BY <1>4
<1>5. Fine(one) /\ (Len(one) > 0 \/ shop.affected = {})
  <2>1. CASE shop.affected = {}
    BY <2>1
  <2>2. CASE shop.affected # {}
    <3>1. Range(<<>>) = {}
      BY DEF Range
    <3>2. one = <<shop.affected>>
      BY <2>2, <3>1
    <3> HIDE DEF one, Hoods
    <3> QED  BY <3>2, <1>3
  <2> QED  BY <2>1, <2>2
<1> HIDE DEF Hoods, Fine, Add, one
<1>6. Fine(two) /\ (Len(two) > 0 \/ shop.affected = {})
  BY <1>2, <1>4, <1>5
<1> HIDE DEF two
<1>7. Fine(three) /\ (Len(three) > 0 \/ shop.affected = {})
  BY <1>3, <1>4, <1>6
<1> HIDE DEF three
<1>8. Fine(all)
  BY <1>2, <1>3, <1>4, <1>7
<1>9. Neighborhoods = SubSeq(all, 1, n)
  BY DEF Neighborhoods, Add, one, two, three
<1> HIDE DEF all
<1>10. all \in Seq(Hoods) /\ Len(all) \in Nat /\ (Len(all) > 0 => all[1] = shop.affected)
  BY <1>8 DEF Fine
<1>11. n \in Nat /\ n <= Iterations /\ n <= Len(all)
  <2>1. {Iterations, Len(all)} \in SUBSET Nat
    BY <1>1, <1>10
  <2> QED  BY <2>1, MinOfNat
<1> HIDE DEF n
<1>12. /\ Neighborhoods \in Seq(Hoods) /\ Len(Neighborhoods) = n
       /\ \A i \in 1..n : Neighborhoods[i] = all[i]
  BY <1>9, <1>10, <1>11
<1>13. \A i \in 1..n : all[i] \in Hoods
  BY <1>10, <1>11
<1>14. \A h \in Hoods : h \in SUBSET Ops /\ shop.affected \subseteq h
  BY DEF Hoods
<1>15. Neighborhoods \in Seq(SUBSET Ops)
  BY <1>12, <1>14
<1> QED  BY <1>10, <1>11, <1>12, <1>13, <1>14, <1>15

LEMMA SameRequest ==
  ASSUME request' = request
  PROVE  shop' = shop /\ Judged' = Judged
<1>1. shop' = shop
  BY DEF shop
<1> QED  BY <1>1 DEF Judged, Sound

\* The choice among the same candidates for the same request is the same.
LEMMA SameChoice ==
  ASSUME request' = request, candidates' = candidates
  PROVE  /\ ParetoFront(candidates)' = ParetoFront(candidates)
         /\ Best(candidates, ParetoFront(candidates))' = Best(candidates, ParetoFront(candidates))
<1>1. ParetoFront(candidates)' = ParetoFront(candidates)
  BY DEF ParetoFront
<1>2. shop' = shop
  BY SameRequest
<1>4. Best(candidates, ParetoFront(candidates))' = Best(candidates, ParetoFront(candidates))
  BY <1>1, <1>2 DEF Best, Key, RankingKey, Criteria
<1> QED  BY <1>1, <1>4

\* The best of some candidates is one of them.
LEMMA BestIsOneOf ==
  ASSUME NEW seq \in Seq(Judged), seq # <<>>
  PROVE  \E i \in DOMAIN seq : Best(seq, DOMAIN seq) = seq[i]
<1>1. DOMAIN seq = 1..Len(seq) /\ Len(seq) \in Nat /\ Len(seq) # 0
  OBVIOUS
<1>2. 1 \in DOMAIN seq
  BY <1>1
<1>3. DOMAIN seq # {}
  BY <1>2
<1> QED  BY <1>3, BestFacts

\* The three kinds of steps that change the candidates.
LEMMA HeuristicStep ==
  ASSUME PortfolioInv, Heuristic
  PROVE  /\ stage' = "direct" /\ verdict' = verdict /\ stage = "heuristic"
         /\ request' = request /\ tries' = tries
         /\ \/ candidates' = candidates
            \/ \E p \in FirstAnswers :
                 candidates' = <<Candidate("ssgs", p, Scope(shop))>>
BY DEF Heuristic, FirstAnswers

LEMMA DirectStep ==
  ASSUME PortfolioInv, Direct
  PROVE  /\ stage = "direct" /\ stage' = "alns" /\ verdict' = verdict
         /\ request' = request /\ tries' = tries
         /\ \/ candidates' = candidates
            \/ \E p \in FirstAnswers :
                 candidates' = Append(candidates, Candidate("cp_sat", p, Scope(shop)))
         /\ candidates' \in Seq(Judged)
         /\ candidates' # <<>> =>
              \E i \in DOMAIN candidates' : incumbent' = candidates'[i]
<1>1. /\ stage = "direct" /\ stage' = "alns" /\ verdict' = verdict
      /\ request' = request /\ tries' = tries
      /\ \/ candidates' = candidates
         \/ \E p \in FirstAnswers :
              candidates' = Append(candidates, Candidate("cp_sat", p, Scope(shop)))
  BY DEF Direct, FirstAnswers
<1>2. candidates \in Seq(Judged) /\ request \in DOMAIN Shops
  BY DEF PortfolioInv
<1>3. candidates' \in Seq(Judged)
  <2>1. \A p \in FirstAnswers :
          Candidate("cp_sat", p, Scope(shop)) \in Judged
    BY <1>2, FirstAnswer DEF Sources
  <2> QED  BY <1>1, <1>2, <2>1
<1>4. candidates' # <<>> => \E i \in DOMAIN candidates' : incumbent' = candidates'[i]
  <2>1. candidates' # <<>> => incumbent' = Best(candidates', DOMAIN candidates')
    BY DEF Direct
  <2> QED  BY <2>1, <1>3, BestIsOneOf
<1> QED  BY <1>1, <1>3, <1>4

\* A repair that finds nothing new leaves candidates and incumbent; one that
\* finds a plan adds it unless they have it, and may make it the incumbent.
Repairs(hood, p) ==
  /\ p \in RepairAnswers(incumbent.plan, hood)
  /\ LET found == Candidate("alns", p, RepairScope(hood)) IN
     /\ \/ candidates' = Append(candidates, found)
        \/ candidates' = candidates /\ ContainsSchedule(candidates, p)
     /\ incumbent' \in {found, incumbent}

LEMMA RepairStep ==
  ASSUME PortfolioInv, Repair
  PROVE  /\ stage = "alns" /\ stage' = "alns" /\ candidates # <<>> /\ verdict' = verdict
         /\ request' = request /\ tries' = tries + 1 /\ tries \in Nat
         /\ incumbent \in Judged /\ incumbent.plan \in Sound
         /\ tries + 1 \in 1..Len(Neighborhoods)
         /\ Neighborhoods[tries + 1] \in SUBSET Ops
         /\ \/ candidates' = candidates /\ incumbent' = incumbent
            \/ \E p : Repairs(Neighborhoods[tries + 1], p)
<1>1. /\ stage = "alns" /\ stage' = "alns" /\ candidates # <<>> /\ verdict' = verdict
      /\ request' = request /\ tries' = tries + 1 /\ tries < Len(Neighborhoods)
      /\ \/ candidates' = candidates /\ incumbent' = incumbent
         \/ \E p : Repairs(Neighborhoods[tries + 1], p)
  BY DEF Repair, Repairs, StartOf, RepairAnswers
<1>2. request \in DOMAIN Shops /\ tries \in Nat /\ incumbent \in Judged
  BY <1>1 DEF PortfolioInv
<1>3. incumbent.plan \in Sound
  BY <1>2 DEF Judged
<1>4. Neighborhoods \in Seq(SUBSET Ops)
  BY <1>2, HoodFacts
<1>5. tries + 1 \in 1..Len(Neighborhoods)
  BY <1>1, <1>2, <1>4
<1> QED  BY <1>1, <1>2, <1>3, <1>4, <1>5

LEMMA PortfolioInit == Init => PortfolioInv
BY DEF Init, PortfolioInv

LEMMA PortfolioNext == PortfolioInv /\ [Next]_vars => PortfolioInv'
<1> SUFFICES ASSUME PortfolioInv, [Next]_vars PROVE PortfolioInv'
  OBVIOUS
<1>1. /\ request \in DOMAIN Shops /\ candidates \in Seq(Judged) /\ tries \in Nat
      /\ verdict \in {"offered", "discarded"} => stage = "done"
  BY DEF PortfolioInv
<1>2. \A source \in Sources, p \in FirstAnswers :
        Candidate(source, p, Scope(shop)) \in Judged
  BY <1>1, FirstAnswer
<1>3. CASE Heuristic
  <2>1. Judged' = Judged
    BY <1>3, HeuristicStep, SameRequest
  <2>2. candidates' \in Seq(Judged)
    <3>1. \A c \in Judged : <<c>> \in Seq(Judged)
      OBVIOUS
    <3>2. "ssgs" \in Sources
      BY DEF Sources
    <3> QED  BY <3>1, <3>2, <1>1, <1>2, <1>3, HeuristicStep
  <2> QED  BY <2>1, <2>2, <1>1, <1>3, HeuristicStep DEF PortfolioInv
<1>4. CASE Direct
  <2>1. Judged' = Judged
    BY <1>4, DirectStep, SameRequest
  <2>2. candidates' \in Seq(Judged)
        /\ (candidates' # <<>> =>
              /\ incumbent' \in Judged
              /\ \E i \in DOMAIN candidates' : candidates'[i].plan = incumbent'.plan)
    BY <1>4, DirectStep
  <2> QED  BY <2>1, <2>2, <1>1, <1>4, DirectStep DEF PortfolioInv
<1>5. CASE Repair
  <2>1. Judged' = Judged /\ stage = "alns" /\ stage' = "alns" /\ tries' \in Nat
        /\ request' = request /\ verdict' = verdict
    BY <1>5, RepairStep, SameRequest
  <2>2. /\ candidates' \in Seq(Judged) /\ incumbent' \in Judged
        /\ \E i \in DOMAIN candidates' : candidates'[i].plan = incumbent'.plan
    <3>1. PICK i \in DOMAIN candidates : candidates[i].plan = incumbent.plan
      BY <1>5, RepairStep DEF PortfolioInv
    <3>2. CASE candidates' = candidates /\ incumbent' = incumbent
      BY <3>1, <3>2, <1>1, <1>5, RepairStep
    <3>3. ASSUME NEW p, Repairs(Neighborhoods[tries + 1], p)
          PROVE  /\ candidates' \in Seq(Judged) /\ incumbent' \in Judged
                 /\ \E j \in DOMAIN candidates' : candidates'[j].plan = incumbent'.plan
      <4> DEFINE found == Candidate("alns", p, RepairScope(Neighborhoods[tries + 1]))
      <4>1. /\ \/ candidates' = Append(candidates, found)
               \/ candidates' = candidates /\ ContainsSchedule(candidates, p)
            /\ incumbent' \in {found, incumbent}
        BY <3>3 DEF Repairs
      <4>2. found \in Judged
        BY <3>3, <1>1, <1>5, RepairStep, RepairAnswer DEF Repairs
      <4>3. found.plan = p
        BY DEF Candidate
      <4>4. incumbent \in Judged
        BY <1>5, RepairStep
      <4> HIDE DEF found
      <4>5. candidates' \in Seq(Judged) /\ incumbent' \in Judged
        BY <4>1, <4>2, <4>4, <1>1
      <4>6. CASE candidates' = Append(candidates, found)
        <5>1. /\ Len(candidates) + 1 \in DOMAIN candidates'
              /\ candidates'[Len(candidates) + 1] = found
              /\ i \in DOMAIN candidates' /\ candidates'[i] = candidates[i]
          BY <4>6, <1>1, <3>1
        <5> QED  BY <5>1, <4>1, <4>5, <3>1
      <4>7. CASE candidates' = candidates /\ ContainsSchedule(candidates, p)
        <5>1. PICK j \in DOMAIN candidates : candidates[j].plan = p
          BY <4>7 DEF ContainsSchedule, Range
        <5> QED  BY <5>1, <4>1, <4>3, <4>5, <4>7, <3>1
      <4> QED  BY <4>1, <4>6, <4>7
    <3> QED  BY <3>2, <3>3, <1>5, RepairStep
  <2> QED  BY <2>1, <2>2, <1>1 DEF PortfolioInv
<1>6. CASE Finish
  <2>1. /\ request' = request /\ candidates' = candidates /\ incumbent' = incumbent
        /\ tries' = tries /\ stage = "alns" /\ stage' = "done"
        /\ verdict' \in {"offered", "discarded"} =>
             /\ candidates # <<>>
             /\ result' = Best(candidates, ParetoFront(candidates))
             /\ verdict' = "discarded" => ~Offered(result')
    BY <1>6 DEF Finish
  <2>2. Judged' = Judged /\ shop' = shop
    BY <2>1, SameRequest
  <2>3. /\ ParetoFront(candidates)' = ParetoFront(candidates)
        /\ Best(candidates, ParetoFront(candidates))' = Best(candidates, ParetoFront(candidates))
        /\ Offered(result)' <=> Offered(result')
    <3>1. Offered(result)' <=> Offered(result')
      BY <2>1, <2>2 DEF Offered, Validated
    <3> QED  BY <3>1, <2>1, SameChoice
  <2> QED  BY <2>1, <2>2, <2>3, <1>1 DEF PortfolioInv
<1>7. CASE UNCHANGED vars
  <2>1. request' = request /\ candidates' = candidates /\ incumbent' = incumbent
        /\ tries' = tries /\ stage' = stage /\ result' = result /\ verdict' = verdict
    BY <1>7 DEF vars
  <2>2. Judged' = Judged /\ shop' = shop
    BY <2>1, SameRequest
  <2>3. /\ ParetoFront(candidates)' = ParetoFront(candidates)
        /\ Best(candidates, ParetoFront(candidates))' = Best(candidates, ParetoFront(candidates))
        /\ Offered(result)' <=> Offered(result)
    <3>1. Offered(result)' <=> Offered(result)
      BY <2>1, <2>2 DEF Offered, Validated
    <3> QED  BY <3>1, <2>1, SameChoice
  <2> QED  BY <2>1, <2>2, <2>3 DEF PortfolioInv
<1> QED  BY <1>3, <1>4, <1>5, <1>6, <1>7 DEF Next

THEOREM CandidatesJudged == Spec => []PortfolioInv
  BY PortfolioInit, PortfolioNext, PTL DEF Spec
-----------------------------------------------------------------------------
(* The properties *)

\* BestOfAll: the plan that is returned is the best of all candidates and of the
\* last incumbent under the goal, and none of them dominates it, although the
\* front drops candidates one by one on the way.
THEOREM ResultIsBest == Spec => []BestOfAll
<1>1. PortfolioInv => BestOfAll
  <2> SUFFICES ASSUME PortfolioInv, verdict \in {"offered", "discarded"},
                      NEW c \in Range(candidates) \cup {incumbent}
               PROVE  /\ ~Less(RankingKey(c), RankingKey(result))
                      /\ ~Dominates(c.score, result.score)
    BY DEF BestOfAll
  <2>1. /\ request \in DOMAIN Shops /\ candidates \in Seq(Judged) /\ candidates # <<>>
        /\ incumbent \in Judged
        /\ \E i \in DOMAIN candidates : candidates[i].plan = incumbent.plan
        /\ result = Best(candidates, ParetoFront(candidates))
    BY DEF PortfolioInv
  <2> DEFINE front == ParetoFront(candidates)
  <2>2. /\ front \subseteq DOMAIN candidates
        /\ \A i \in DOMAIN candidates : \E d \in front :
             \/ candidates[d].plan = candidates[i].plan
             \/ Dominates(candidates[d].score, candidates[i].score)
        /\ \A d, e \in front : ~Dominates(candidates[d].score, candidates[e].score)
    BY <2>1, FrontFacts
  <2>3. \A i \in DOMAIN candidates : candidates[i] \in Judged
    BY <2>1
  <2>4. c \in Judged /\ \E i \in DOMAIN candidates : candidates[i].plan = c.plan
    BY <2>1, <2>3 DEF Range
  <2>5. PICK d \in front : candidates[d].score = c.score \/ Dominates(candidates[d].score, c.score)
    <3>1. PICK i \in DOMAIN candidates : candidates[i].plan = c.plan
      BY <2>4
    <3>2. candidates[i].score = c.score
      BY <3>1, <2>3, <2>4 DEF Judged
    <3>3. PICK d \in front : \/ candidates[d].plan = candidates[i].plan
                             \/ Dominates(candidates[d].score, candidates[i].score)
      BY <2>2
    <3>4. candidates[d].plan = candidates[i].plan => candidates[d].score = candidates[i].score
      BY <2>2, <2>3, <3>3 DEF Judged
    <3> QED  BY <3>2, <3>3, <3>4
  <2>6. PICK r \in front : /\ result = candidates[r]
                           /\ \A j \in front : ~Less(Key(candidates[j]), Key(candidates[r]))
    <3>1. front # {}
      BY <2>5
    <3> HIDE DEF front
    <3> QED  BY <3>1, <2>1, <2>2, BestFacts DEF front
  <2> DEFINE e == candidates[d]
  <2>7. e \in Judged /\ result \in Judged
    BY <2>2, <2>3, <2>5, <2>6
  <2>8. /\ ~Less(Key(e), Key(result)) /\ ~Dominates(e.score, result.score)
        /\ e.score = c.score \/ Dominates(e.score, c.score)
    BY <2>2, <2>5, <2>6
  <2> HIDE DEF e, front
  <2>9. /\ e.score \in [1..7 -> Int] /\ c.score \in [1..7 -> Int]
        /\ result.score \in [1..7 -> Int]
    BY <2>4, <2>7 DEF Judged
  <2>10. ~Dominates(c.score, result.score)
    BY <2>8, <2>9, DominatesFacts
  <2>11. ~Less(RankingKey(c), RankingKey(result))
    <3>1. PICK n \in Nat :
            /\ Criteria \in [1..n -> 1..7]
            /\ \A x \in Judged :
                 /\ RankingKey(x) \in [1..n -> Int] /\ Key(x) \in [1..(n + 1) -> Int]
                 /\ \A i \in 1..n : Key(x)[i] = RankingKey(x)[i]
      BY KeyFacts
    <3>2. \A i \in 1..7 : e.score[i] <= c.score[i]
      BY <2>8, <2>9 DEF Dominates
    <3>3. \A i \in 1..n : RankingKey(e)[i] <= RankingKey(c)[i]
      BY <3>1, <3>2 DEF RankingKey
    <3>4. ASSUME Less(RankingKey(c), RankingKey(result)) PROVE FALSE
      <4>1. Less(RankingKey(e), RankingKey(result))
        BY <3>1, <3>3, <3>4, <2>4, <2>7, LessFacts
      <4>2. PICK i \in 1..n : /\ RankingKey(e)[i] < RankingKey(result)[i]
                              /\ \A j \in 1..(i - 1) : RankingKey(e)[j] = RankingKey(result)[j]
        BY <4>1, <3>1, <2>7 DEF Less
      <4>3. /\ Key(e)[i] < Key(result)[i]
            /\ \A j \in 1..(i - 1) : Key(e)[j] = Key(result)[j]
        <5>1. \A j \in 1..(i - 1) : j \in 1..n
          OBVIOUS
        <5> QED  BY <5>1, <4>2, <3>1, <2>7
      <4>4. i \in DOMAIN Key(e)
        BY <3>1, <2>7
      <4>5. Less(Key(e), Key(result))
        BY <4>3, <4>4 DEF Less
      <4> QED  BY <4>5, <2>8
    <3> QED  BY <3>4
  <2> QED  BY <2>10, <2>11
<1> QED  BY <1>1, CandidatesJudged, PTL

-----------------------------------------------------------------------------
(* Delays *)

\* The candidates that keep every delay, but for what the first solvers and n
\* repairs may lose.
Keeping(n) ==
  {c \in Judged : \A o \in shop.affected \ (shop.frozen \cup shop.urgent) :
     2 * (c.plan[o].from - shop.old[o].from - shop.delay) + (2 * n + 3) * Minute > 0}

\* All candidates keep the delays, and so does what the next repair starts from.
DelayInv ==
  /\ PortfolioInv
  /\ candidates \in Seq(Keeping(tries))
  /\ stage \in {"alns", "done"} /\ candidates # <<>> => incumbent \in Keeping(tries)

\* The first solvers delay what is affected.
LEMMA FirstKeeps ==
  ASSUME request \in DOMAIN Shops, NEW source \in Sources, NEW p \in FirstAnswers,
         NEW n \in Nat
  PROVE  Candidate(source, p, Scope(shop)) \in Keeping(n)
<1>1. Candidate(source, p, Scope(shop)).plan = p
  BY DEF Candidate
<1>2. p \in Plans /\ shop.old \in Plans /\ shop.delay \in Nat /\ shop.affected \subseteq Ops
  BY FirstAnswer, RequestFacts DEF Sound
<1>3. (2 * n + 3) * Minute >= 3 * Minute /\ (2 * n + 3) * Minute \in Int /\ Minute \in Nat
  <2>1. n * Minute \in Nat /\ (2 * n + 3) * Minute = 2 * (n * Minute) + 3 * Minute
    BY TimeConstants
  <2> QED  BY <2>1, TimeConstants
<1>4. ASSUME NEW o \in shop.affected \ (shop.frozen \cup shop.urgent)
      PROVE  2 * (p[o].from - shop.old[o].from - shop.delay) + (2 * n + 3) * Minute > 0
  <2>1. p[o].from \in Int /\ shop.old[o].from \in Int
    BY <1>2 DEF Plans
  <2>2. 2 * (p[o].from - shop.old[o].from - shop.delay) + 3 * Minute > 0
    BY FirstAnswer
  <2> QED  BY <2>1, <2>2, <1>2, <1>3
<1> QED  BY <1>1, <1>4, FirstAnswer DEF Keeping

\* A repair asks for no delay, but moves nothing back by a minute.
LEMMA RepairKeeps ==
  ASSUME request \in DOMAIN Shops, NEW n \in Nat, incumbent \in Keeping(n),
         NEW hood \in SUBSET Ops, NEW p \in RepairAnswers(incumbent.plan, hood)
  PROVE  Candidate("alns", p, RepairScope(hood)) \in Keeping(n + 1)
<1>1. Candidate("alns", p, RepairScope(hood)).plan = p
  BY DEF Candidate
<1>2. /\ shop.old \in Plans /\ shop.delay \in Nat /\ shop.affected \subseteq Ops
      /\ Minute \in Nat
  BY RequestFacts, TimeConstants
<1>3. incumbent.plan \in Sound
  BY DEF Keeping, Judged
<1>4. /\ Candidate("alns", p, RepairScope(hood)) \in Judged
      /\ p \in Sound
      /\ \A o \in Ops \ shop.urgent : incumbent.plan[o].from < p[o].from + Minute
  BY <1>3, RepairAnswer
<1>5. ASSUME NEW o \in shop.affected \ (shop.frozen \cup shop.urgent)
      PROVE  2 * (p[o].from - shop.old[o].from - shop.delay) + (2 * (n + 1) + 3) * Minute > 0
  <2>1. o \in Ops \ shop.urgent
    BY <1>2
  <2>2. /\ p[o].from \in Int /\ incumbent.plan[o].from \in Int /\ shop.old[o].from \in Int
    BY <2>1, <1>2, <1>3, <1>4 DEF Plans, Sound
  <2>3. /\ incumbent.plan[o].from < p[o].from + Minute
        /\ 2 * (incumbent.plan[o].from - shop.old[o].from - shop.delay)
             + (2 * n + 3) * Minute > 0
    BY <2>1, <1>4 DEF Keeping
  <2>4. /\ (2 * (n + 1) + 3) * Minute = (2 * n + 3) * Minute + 2 * Minute
        /\ (2 * n + 3) * Minute \in Int
    BY <1>2
  <2> QED  BY <2>2, <2>3, <2>4, <1>2
<1> QED  BY <1>1, <1>4, <1>5 DEF Keeping

\* With more repairs more may be lost.
LEMMA KeepingGrows ==
  ASSUME request \in DOMAIN Shops, NEW n \in Nat
  PROVE  Keeping(n) \subseteq Keeping(n + 1)
<1>1. /\ shop.old \in Plans /\ shop.delay \in Nat /\ shop.affected \subseteq Ops
      /\ Minute \in Nat
  BY RequestFacts, TimeConstants
<1> SUFFICES ASSUME NEW c \in Keeping(n),
                    NEW o \in shop.affected \ (shop.frozen \cup shop.urgent)
             PROVE  2 * (c.plan[o].from - shop.old[o].from - shop.delay)
                      + (2 * (n + 1) + 3) * Minute > 0
  BY DEF Keeping
<1>2. c.plan[o].from \in Int /\ shop.old[o].from \in Int
  BY <1>1 DEF Keeping, Judged, Sound, Plans
<1>3. 2 * (c.plan[o].from - shop.old[o].from - shop.delay) + (2 * n + 3) * Minute > 0
  BY DEF Keeping
<1>4. /\ (2 * (n + 1) + 3) * Minute = (2 * n + 3) * Minute + 2 * Minute
      /\ (2 * n + 3) * Minute \in Int
  BY <1>1
<1> QED  BY <1>1, <1>2, <1>3, <1>4

LEMMA DelayInit == Init => DelayInv
BY PortfolioInit DEF Init, DelayInv

LEMMA DelayNext == DelayInv /\ [Next]_vars => DelayInv'
<1> SUFFICES ASSUME DelayInv, [Next]_vars PROVE DelayInv'
  OBVIOUS
<1>1. /\ PortfolioInv /\ PortfolioInv' /\ request \in DOMAIN Shops
      /\ candidates \in Seq(Keeping(tries)) /\ tries \in Nat
  BY PortfolioNext DEF DelayInv, PortfolioInv
<1>2. ASSUME request' = request PROVE Keeping(tries)' = Keeping(tries')
  BY <1>2, SameRequest DEF Keeping
<1> DEFINE Now == Keeping(tries)
<1>3. CASE Heuristic
  <2>1. Keeping(tries)' = Now /\ stage' = "direct"
    BY <1>1, <1>2, <1>3, HeuristicStep
  <2>2. candidates' \in Seq(Now)
    <3>1. \A c \in Now : <<c>> \in Seq(Now)
      OBVIOUS
    <3>2. "ssgs" \in Sources
      BY DEF Sources
    <3> QED  BY <3>1, <3>2, <1>1, <1>3, HeuristicStep, FirstKeeps
  <2> QED  BY <2>1, <2>2, <1>1 DEF DelayInv
<1>4. CASE Direct
  <2>1. Keeping(tries)' = Now
    BY <1>1, <1>2, <1>4, DirectStep
  <2>2. candidates' \in Seq(Now)
    <3>1. "cp_sat" \in Sources
      BY DEF Sources
    <3>2. \A c \in Now : Append(candidates, c) \in Seq(Now)
      BY <1>1
    <3> QED  BY <3>1, <3>2, <1>1, <1>4, DirectStep, FirstKeeps
  <2>3. candidates' # <<>> => incumbent' \in Now
    BY <2>2, <1>1, <1>4, DirectStep
  <2> QED  BY <2>1, <2>2, <2>3, <1>1 DEF DelayInv
<1>5. CASE Repair
  <2> DEFINE Later == Keeping(tries + 1)
  <2>1. Keeping(tries)' = Later /\ incumbent \in Now /\ Now \subseteq Later
    BY <1>1, <1>2, <1>5, RepairStep, KeepingGrows DEF DelayInv
  <2>2. candidates \in Seq(Later) /\ incumbent \in Later
    <3> HIDE DEF Now, Later
    <3>1. candidates \in Seq(Now)
      BY <1>1 DEF Now
    <3> QED  BY <3>1, <2>1
  <2>3. candidates' \in Seq(Later) /\ incumbent' \in Later
    <3>1. ASSUME NEW p, Repairs(Neighborhoods[tries + 1], p)
          PROVE  candidates' \in Seq(Later) /\ incumbent' \in Later
      <4> DEFINE found == Candidate("alns", p, RepairScope(Neighborhoods[tries + 1]))
      <4>1. /\ candidates' = Append(candidates, found) \/ candidates' = candidates
            /\ incumbent' \in {found, incumbent}
        BY <3>1 DEF Repairs
      <4>2. found \in Later
        BY <3>1, <2>1, <1>1, <1>5, RepairStep, RepairKeeps DEF Repairs
      <4> HIDE DEF found, Later
      <4> QED  BY <4>1, <4>2, <2>2
    <3> QED  BY <3>1, <2>2, <1>1, <1>5, RepairStep
  <2> QED  BY <2>1, <2>3, <1>1 DEF DelayInv
<1>6. CASE Finish
  <2>1. /\ request' = request /\ candidates' = candidates /\ incumbent' = incumbent
        /\ tries' = tries /\ stage = "alns" /\ stage' = "done"
    BY <1>6 DEF Finish
  <2> QED  BY <2>1, <1>1, <1>2 DEF DelayInv
<1>7. CASE UNCHANGED vars
  <2>1. /\ request' = request /\ candidates' = candidates /\ incumbent' = incumbent
        /\ tries' = tries /\ stage' = stage
    BY <1>7 DEF vars
  <2> QED  BY <2>1, <1>1, <1>2 DEF DelayInv
<1> QED  BY <1>3, <1>4, <1>5, <1>6, <1>7 DEF Next

\* The result is one of the candidates.
LEMMA ResultIsOneOf ==
  ASSUME PortfolioInv, verdict \in {"offered", "discarded"}
  PROVE  \E i \in DOMAIN candidates : result = candidates[i]
<1>1. /\ request \in DOMAIN Shops /\ candidates \in Seq(Judged) /\ candidates # <<>>
      /\ result = Best(candidates, ParetoFront(candidates))
  BY DEF PortfolioInv
<1>2. ParetoFront(candidates) \subseteq DOMAIN candidates /\ ParetoFront(candidates) # {}
  <2>1. 1 \in DOMAIN candidates
    BY <1>1
  <2> QED  BY <2>1, <1>1, FrontFacts
<1> QED  BY <1>1, <1>2, BestFacts

\* DelaysAreKept: an operation of the result that is affected and neither frozen
\* nor urgent starts no earlier than its delay says, but for a minute and a half
\* and a minute for each repair without a delay that was tried.
THEOREM DelaysStay == Spec => []DelaysAreKept
<1>1. DelayInv => DelaysAreKept
  <2> SUFFICES ASSUME DelayInv, verdict \in {"offered", "discarded"}
               PROVE  \A o \in shop.affected \ (shop.frozen \cup shop.urgent) :
                        2 * (result.plan[o].from - shop.old[o].from - shop.delay)
                          + (2 * tries + 3) * Minute > 0
    BY DEF DelaysAreKept
  <2>1. \E i \in DOMAIN candidates : result = candidates[i]
    BY ResultIsOneOf DEF DelayInv
  <2>2. result \in Keeping(tries)
    BY <2>1 DEF DelayInv
  <2> QED  BY <2>2 DEF Keeping
<1>2. Spec => []DelayInv
  BY DelayInit, DelayNext, PTL DEF Spec
<1> QED  BY <1>1, <1>2, PTL
-----------------------------------------------------------------------------
(* Offers *)

\* The candidates that HybridSolver offers, and those whose discarding is known.
Offerable ==
  {c \in Judged : Offered(c) \/ (shop.strategy = "global" /\ c.source = "alns")}

\* The candidates that move only what a repair of the affected operations may.
Contained ==
  {c \in Judged : \A o \in Ops \ RepairScope(shop.affected) : c.plan[o] = shop.old[o]}

\* Until the second repair has been tried, a local recovery moves nothing that
\* the scope of every repair does not hold.
OfferInv ==
  /\ PortfolioInv
  /\ candidates \in Seq(Offerable)
  /\ shop.strategy # "global" /\ tries <= 1 =>
       /\ candidates \in Seq(Contained)
       /\ stage \in {"alns", "done"} /\ candidates # <<>> => incumbent \in Contained

\* What the first solvers return is offered, and contained if they are local.
LEMMA FirstIsOffered ==
  ASSUME request \in DOMAIN Shops, NEW source \in Sources,
         NEW p \in FirstAnswers
  PROVE  /\ Candidate(source, p, Scope(shop)) \in Offerable
         /\ shop.strategy # "global" => Candidate(source, p, Scope(shop)) \in Contained
<1> DEFINE c == Candidate(source, p, Scope(shop))
<1>1. c.plan = p /\ c.scope = Scope(shop)
  BY DEF Candidate
<1>2. /\ c \in Judged /\ p \in Sound
      /\ \A o \in Ops \ Scope(shop) : p[o] = shop.old[o]
  BY FirstAnswer
<1>3. Common(shop) /\ shop.affected \subseteq Ops
  BY RequestFacts
<1>4. Scope(shop) \subseteq Ops /\ Scope(shop) \cap shop.frozen = {}
  BY <1>3, ScopeType
<1> HIDE DEF c
<1>5. Offered(c)
  BY <1>1, <1>2, <1>4, ValidatedMeans DEF Offered, Sound
<1>6. ASSUME shop.strategy # "global" PROVE Scope(shop) \subseteq RepairScope(shop.affected)
  <2> DEFINE D == Downstream(shop, shop.affected)
  <2>1. shop.affected \subseteq D /\ Grown(shop, D)
    BY <1>3, DownstreamIsLeast
  <2> HIDE DEF D
  <2>2. \A o \in Ops : o \in shop.affected \/ shop.preds[o] \cap shop.affected # {} => o \in D
    BY <2>1 DEF Grown
  <2> QED  BY <2>2, <1>6 DEF Scope, RepairScope, D
<1>7. shop.strategy # "global" => c \in Contained
  BY <1>1, <1>2, <1>6 DEF Contained
<1> QED  BY <1>2, <1>5, <1>7 DEF Offerable, c

\* A repair of what holds the affected operations is offered if it starts from a
\* contained plan, and is contained itself if it is the repair of just them.
LEMMA RepairIsOffered ==
  ASSUME request \in DOMAIN Shops, incumbent \in Judged,
         NEW hood \in SUBSET Ops, shop.affected \subseteq hood,
         NEW p \in RepairAnswers(incumbent.plan, hood)
  PROVE  /\ shop.strategy = "global" \/ incumbent \in Contained
              => Candidate("alns", p, RepairScope(hood)) \in Offerable
         /\ incumbent \in Contained /\ hood = shop.affected
              => Candidate("alns", p, RepairScope(hood)) \in Contained
<1> DEFINE c == Candidate("alns", p, RepairScope(hood))
<1>1. c.plan = p /\ c.scope = RepairScope(hood) /\ c.source = "alns"
  BY DEF Candidate
<1>2. incumbent.plan \in Sound
  BY DEF Judged
<1>3. /\ c \in Judged /\ p \in Sound
      /\ \A o \in Ops \ RepairScope(hood) :
           incumbent.plan[o] = shop.old[o] => p[o] = shop.old[o]
  BY <1>2, RepairAnswer
<1>4. RepairScope(shop.affected) \subseteq RepairScope(hood)
  <2>1. shop.affected \subseteq Ops
    BY RequestFacts
  <2>2. Downstream(shop, shop.affected) \subseteq Downstream(shop, hood)
    BY <2>1, DownstreamGrows
  <2> QED  BY <2>2 DEF RepairScope
<1> HIDE DEF c
<1>5. ASSUME incumbent \in Contained PROVE \A o \in Ops \ RepairScope(hood) : p[o] = shop.old[o]
  BY <1>3, <1>4, <1>5 DEF Contained
<1>6. ASSUME incumbent \in Contained PROVE Offered(c)
  <2>1. RepairScope(hood) \ shop.frozen = RepairScope(hood) /\ RepairScope(hood) \in SUBSET Ops
    BY DownstreamIsLeast DEF RepairScope
  <2> QED  BY <2>1, <1>1, <1>3, <1>5, <1>6, ValidatedMeans DEF Offered, Sound
<1>7. shop.strategy = "global" \/ incumbent \in Contained => c \in Offerable
  BY <1>1, <1>3, <1>6 DEF Offerable
<1>8. incumbent \in Contained /\ hood = shop.affected => c \in Contained
  BY <1>1, <1>3, <1>5 DEF Contained
<1> QED  BY <1>7, <1>8 DEF c

LEMMA OfferInit == Init => OfferInv
BY PortfolioInit DEF Init, OfferInv

LEMMA OfferNext ==
  ASSUME Iterations <= 2
  PROVE  OfferInv /\ [Next]_vars => OfferInv'
<1> SUFFICES ASSUME OfferInv, [Next]_vars PROVE OfferInv'
  OBVIOUS
<1> DEFINE Local == shop.strategy # "global"
<1>1. /\ PortfolioInv /\ PortfolioInv' /\ request \in DOMAIN Shops /\ tries \in Nat
      /\ candidates \in Seq(Offerable)
      /\ Local /\ tries <= 1 => candidates \in Seq(Contained)
  BY PortfolioNext DEF OfferInv, PortfolioInv
<1>2. ASSUME request' = request
      PROVE  Offerable' = Offerable /\ Contained' = Contained /\ Local' = Local
  <2>1. shop' = shop /\ Judged' = Judged
    BY <1>2, SameRequest
  <2> QED  BY <2>1, <1>2 DEF Offerable, Contained, Offered, Validated, RepairScope
<1>3. CASE Heuristic
  <2>1. /\ Offerable' = Offerable /\ Contained' = Contained /\ Local' = Local
        /\ stage' = "direct" /\ tries' = tries
    BY <1>1, <1>2, <1>3, HeuristicStep
  <2>2. /\ candidates' \in Seq(Offerable)
        /\ Local /\ tries <= 1 => candidates' \in Seq(Contained)
    <3>1. \A S : \A c \in S : <<c>> \in Seq(S)
      OBVIOUS
    <3>2. "ssgs" \in Sources
      BY DEF Sources
    <3> QED  BY <3>1, <3>2, <1>1, <1>3, HeuristicStep, FirstIsOffered
  <2> QED  BY <2>1, <2>2, <1>1 DEF OfferInv
<1>4. CASE Direct
  <2>1. /\ Offerable' = Offerable /\ Contained' = Contained /\ Local' = Local
        /\ tries' = tries
    BY <1>1, <1>2, <1>4, DirectStep
  <2>2. /\ candidates' \in Seq(Offerable)
        /\ Local /\ tries <= 1 => candidates' \in Seq(Contained)
    <3>1. \A S : \A s \in Seq(S), c \in S : Append(s, c) \in Seq(S)
      OBVIOUS
    <3>2. "cp_sat" \in Sources
      BY DEF Sources
    <3> QED  BY <3>1, <3>2, <1>1, <1>4, DirectStep, FirstIsOffered
  <2>3. Local /\ tries <= 1 /\ candidates' # <<>> => incumbent' \in Contained
    BY <2>2, <1>1, <1>4, DirectStep
  <2> QED  BY <2>1, <2>2, <2>3, <1>1 DEF OfferInv
<1>5. CASE Repair
  <2> DEFINE hood == Neighborhoods[tries + 1]
  <2>1. /\ Offerable' = Offerable /\ Contained' = Contained /\ Local' = Local
        /\ tries' = tries + 1 /\ incumbent \in Judged
    BY <1>1, <1>2, <1>5, RepairStep
  <2>2. /\ hood \in SUBSET Ops /\ shop.affected \subseteq hood /\ tries <= 1
        /\ tries = 0 => hood = shop.affected
    <3>1. tries + 1 \in 1..Len(Neighborhoods) /\ hood \in SUBSET Ops
      BY <1>1, <1>5, RepairStep
    <3>2. /\ Len(Neighborhoods) <= Iterations /\ Len(Neighborhoods) \in Nat
          /\ \A i \in 1..Len(Neighborhoods) : shop.affected \subseteq Neighborhoods[i]
          /\ Len(Neighborhoods) > 0 => Neighborhoods[1] = shop.affected
      BY <1>1, HoodFacts
    <3>3. Iterations \in Nat
      BY PortfolioConstants
    <3>4. tries + 1 <= 2 /\ Len(Neighborhoods) > 0
      BY <3>1, <3>2, <3>3, <1>1
    <3> QED  BY <3>1, <3>2, <3>4, <1>1
  <2>3. Local => incumbent \in Contained
    BY <2>2, <1>1, <1>5, RepairStep DEF OfferInv
  <2> HIDE DEF hood
  <2>4. /\ candidates' \in Seq(Offerable)
        /\ Local /\ tries = 0 => candidates' \in Seq(Contained) /\ incumbent' \in Contained
    <3>1. ASSUME NEW p, Repairs(hood, p)
          PROVE  /\ candidates' \in Seq(Offerable)
                 /\ Local /\ tries = 0 =>
                      candidates' \in Seq(Contained) /\ incumbent' \in Contained
      <4> DEFINE found == Candidate("alns", p, RepairScope(hood))
      <4>1. /\ candidates' = Append(candidates, found) \/ candidates' = candidates
            /\ incumbent' \in {found, incumbent}
        BY <3>1 DEF Repairs
      <4>2. p \in RepairAnswers(incumbent.plan, hood)
        BY <3>1 DEF Repairs
      <4>3. found \in Offerable /\ (Local /\ tries = 0 => found \in Contained)
        BY <4>2, <2>1, <2>2, <2>3, <1>1, RepairIsOffered
      <4> HIDE DEF found
      <4>4. candidates' \in Seq(Offerable)
        BY <4>1, <4>3, <1>1
      <4>5. ASSUME Local, tries = 0 PROVE candidates' \in Seq(Contained)
        <5>1. candidates \in Seq(Contained) /\ found \in Contained
          BY <4>3, <4>5, <1>1
        <5> QED  BY <5>1, <4>1
      <4> QED  BY <4>1, <4>3, <4>4, <4>5, <2>3
    <3>2. \/ candidates' = candidates /\ incumbent' = incumbent
          \/ \E p : Repairs(hood, p)
      BY <1>1, <1>5, RepairStep DEF hood
    <3> QED  BY <3>1, <3>2, <2>2, <2>3, <1>1
  <2>5. tries' <= 1 => tries = 0
    BY <2>1, <1>1
  <2> QED  BY <2>1, <2>4, <2>5, <1>1 DEF OfferInv
<1>6. CASE Finish
  <2>1. /\ request' = request /\ candidates' = candidates /\ incumbent' = incumbent
        /\ tries' = tries /\ stage = "alns" /\ stage' = "done"
    BY <1>6 DEF Finish
  <2> QED  BY <2>1, <1>1, <1>2 DEF OfferInv
<1>7. CASE UNCHANGED vars
  <2>1. /\ request' = request /\ candidates' = candidates /\ incumbent' = incumbent
        /\ tries' = tries /\ stage' = stage
    BY <1>7 DEF vars
  <2> QED  BY <2>1, <1>1, <1>2 DEF OfferInv
<1> QED  BY <1>3, <1>4, <1>5, <1>6, <1>7 DEF Next

\* LocalRepairsAreOffered: with the two repairs that HybridSolver asks for, it
\* discards no result but one of the global strategy that a repair has found.
THEOREM LocalIsOffered ==
  ASSUME Iterations <= 2
  PROVE  Spec => []LocalRepairsAreOffered
<1>1. OfferInv => LocalRepairsAreOffered
  <2> SUFFICES ASSUME OfferInv, verdict = "discarded"
               PROVE  shop.strategy = "global" /\ result.source = "alns"
    BY DEF LocalRepairsAreOffered
  <2>1. \E i \in DOMAIN candidates : result = candidates[i]
    BY ResultIsOneOf DEF OfferInv
  <2>2. result \in Offerable /\ ~Offered(result)
    BY <2>1 DEF OfferInv, PortfolioInv
  <2> QED  BY <2>2 DEF Offerable
<1>2. Spec => []OfferInv
  <2>1. OfferInv /\ [Next]_vars => OfferInv'
    BY OfferNext
  <2> QED  BY <2>1, OfferInit, PTL DEF Spec
<1> QED  BY <1>1, <1>2, PTL
================================================================================
