-------------------------- MODULE ScheduleRulesProofs --------------------------
(***************************************************************************)
(* Facts about the operators of ScheduleRules that the proofs about the    *)
(* schedulers rest on: least and greatest elements, loads, scopes.         *)
(***************************************************************************)
EXTENDS ScheduleRules, FiniteSetTheorems, TLAPS

-----------------------------------------------------------------------------
(* Least and greatest elements *)

\* Every set of naturals has a least element.
LEMMA NatLeast ==
  ASSUME NEW T \in SUBSET Nat, T # {}
  PROVE  \E n \in T : \A m \in T : n <= m
<1> DEFINE R == OpToRel(<, Nat)
<1>1. PICK n \in T : \A m \in T : ~(<<m, n>> \in R)
  <2>1. IsWellFoundedOn(R, Nat)
    BY NatLessThanWellFounded
  <2> HIDE DEF R
  <2> QED  BY <2>1, WFMin, Zenon
<1>2. \A m \in T : ~(m < n)
  BY <1>1 DEF OpToRel
<1> QED  BY <1>2

\* Induction, for a set of naturals.
LEMMA NatGrows ==
  ASSUME NEW T \in SUBSET Nat, 0 \in T, \A n \in T : n + 1 \in T
  PROVE  T = Nat
<1> SUFFICES ASSUME Nat \ T # {} PROVE FALSE
  OBVIOUS
<1>1. PICK n \in Nat \ T : \A m \in Nat \ T : n <= m
  BY NatLeast
<1>2. n - 1 \in Nat /\ n - 1 < n
  BY <1>1
<1>3. n - 1 \in T
  BY <1>1, <1>2
<1> QED  BY <1>1, <1>3

\* A finite set has an element before which a strict order has none.
LEMMA HasMinimal ==
  ASSUME NEW S, IsFiniteSet(S), S # {}, NEW R,
         \A x \in S : <<x, x>> \notin R,
         \A x, y, z \in S : <<x, y>> \in R /\ <<y, z>> \in R => <<x, z>> \in R
  PROVE  \E x \in S : \A y \in S : <<y, x>> \notin R
<1> DEFINE Has(U) == \E x \in U : \A y \in U : <<y, x>> \notin R
           Good == {n \in Nat : \A U \in SUBSET S :
                      U # {} /\ IsFiniteSet(U) /\ Cardinality(U) = n => Has(U)}
<1>1. 0 \in Good
  BY FS_EmptySet
<1>2. ASSUME NEW n \in Good PROVE n + 1 \in Good
  <2> SUFFICES ASSUME NEW U \in SUBSET S, U # {}, IsFiniteSet(U), Cardinality(U) = n + 1
               PROVE  Has(U)
    OBVIOUS
  <2>1. PICK u : u \in U
    OBVIOUS
  <2>2. IsFiniteSet(U \ {u}) /\ Cardinality(U \ {u}) = n
    <3>1. IsFiniteSet(U \ {u}) /\ Cardinality(U \ {u}) = Cardinality(U) - 1
      BY <2>1, FS_RemoveElement
    <3> QED  BY <3>1
  <2>3. CASE U = {u}
    BY <2>3
  <2>4. CASE U # {u}
    <3>1. Has(U \ {u})
      BY <2>1, <2>2, <2>4
    <3>2. PICK x \in U \ {u} : \A y \in U \ {u} : <<y, x>> \notin R
      BY <3>1
    <3>3. CASE <<u, x>> \notin R
      BY <3>2, <3>3
    <3>4. CASE <<u, x>> \in R
      <4>1. \A y \in U : <<y, u>> \notin R
        BY <2>1, <3>2, <3>4
      <4> QED  BY <2>1, <4>1
    <3> QED  BY <3>3, <3>4
  <2> QED  BY <2>3, <2>4
<1>3. Good = Nat
  <2> HIDE DEF Good
  <2> QED  BY <1>1, <1>2, NatGrows DEF Good
<1>4. Cardinality(S) \in Nat
  BY FS_CardinalityType
<1>5. Has(S)
  BY <1>3, <1>4
<1> QED  BY <1>5

LEMMA MinOfNat ==
  ASSUME NEW S \in SUBSET Nat, S # {}
  PROVE  Min(S) \in S /\ \A x \in S : Min(S) <= x
<1>1. \E x \in S : \A y \in S : x <= y
  BY NatLeast
<1> QED  BY <1>1 DEF Min

\* A finite set of integers has a greatest element.
LEMMA MaxOfFinite ==
  ASSUME NEW S \in SUBSET Int, S # {}, IsFiniteSet(S)
  PROVE  Max(S) \in S /\ \A x \in S : x <= Max(S)
<1> DEFINE R == {r \in Int \X Int : r[1] > r[2]}
<1>1. \A x, y \in Int : <<x, y>> \in R <=> x > y
  OBVIOUS
<1> HIDE DEF R
<1>2. /\ \A x \in S : <<x, x>> \notin R
      /\ \A x, y, z \in S : <<x, y>> \in R /\ <<y, z>> \in R => <<x, z>> \in R
  BY <1>1
<1>3. PICK x \in S : \A y \in S : <<y, x>> \notin R
  BY <1>2, HasMinimal
<1>4. \A y \in S : x >= y
  <2> TAKE y \in S
  <2>1. x \in Int /\ y \in Int
    OBVIOUS
  <2>2. ~(y > x)
    BY <2>1, <1>1, <1>3
  <2> QED  BY <2>1, <2>2
<1> QED  BY <1>4 DEF Max

\* The values that a function takes on a finite set are finitely many.
LEMMA FiniteValues ==
  ASSUME NEW S, IsFiniteSet(S), NEW f, DOMAIN f = S
  PROVE  IsFiniteSet({f[x] : x \in S})
<1> DEFINE V == {f[x] : x \in S}
<1>1. [x \in S |-> f[x]] \in Surjection(S, V)
  BY DEF Surjection
<1> HIDE DEF V
<1>2. IsFiniteSet(V)
  BY <1>1, FS_Surjection
<1> QED  BY <1>2 DEF V
-----------------------------------------------------------------------------
(* Sums and loads *)

Units(f) == UNION {{x} \X (1..f[x]) : x \in DOMAIN f}

\* The units of f are finitely many, and those of a part of f are among them.
LEMMA UnitsFinite ==
  ASSUME NEW S, IsFiniteSet(S), NEW f \in [S -> Nat]
  PROVE  IsFiniteSet(Units(f)) /\ Total(f) \in Nat
<1> DEFINE u == [x \in S |-> {x} \X (1..f[x])]
<1>1. \A x \in S : IsFiniteSet(u[x])
  <2> TAKE x \in S
  <2>1. IsFiniteSet(1..f[x])  BY FS_Interval
  <2>2. IsFiniteSet({x})  BY FS_Singleton
  <2> QED  BY <2>1, <2>2, FS_Product
<1>2. IsFiniteSet({u[x] : x \in S})
  <2> HIDE DEF u
  <2>1. DOMAIN u = S  BY DEF u
  <2> QED  BY <2>1, FiniteValues
<1>3. IsFiniteSet(UNION {u[x] : x \in S})
  BY <1>1, <1>2, FS_UNION
<1>4. Units(f) = UNION {u[x] : x \in S}
  BY DEF Units
<1>5. IsFiniteSet(Units(f))
  BY <1>3, <1>4
<1> QED  BY <1>5, FS_CardinalityType DEF Total, Units

\* A further argument adds its value to the sum.
LEMMA TotalOfMore ==
  ASSUME NEW S, IsFiniteSet(S), NEW x, x \notin S, NEW f \in [S \cup {x} -> Nat]
  PROVE  Total(f) = Total([y \in S |-> f[y]]) + f[x]
<1> DEFINE g == [y \in S |-> f[y]]
           new == {x} \X (1..f[x])
<1>1. g \in [S -> Nat]
  OBVIOUS
<1>2. IsFiniteSet(Units(g)) /\ Total(g) \in Nat
  BY <1>1, UnitsFinite
<1>3. IsFiniteSet(new) /\ Cardinality(new) = f[x]
  <2>1. IsFiniteSet(1..f[x]) /\ Cardinality(1..f[x]) = f[x]
    BY FS_Interval
  <2>2. IsFiniteSet({x}) /\ Cardinality({x}) = 1
    BY FS_Singleton
  <2>3. /\ IsFiniteSet({x} \X (1..f[x]))
        /\ Cardinality({x} \X (1..f[x])) = Cardinality({x}) * Cardinality(1..f[x])
    BY <2>1, <2>2, FS_Product
  <2> QED  BY <2>1, <2>2, <2>3
<1>4. Units(f) = Units(g) \cup new
  BY DEF Units
<1>5. Units(g) \cap new = {}
  BY DEF Units
<1>6. Cardinality(Units(g) \cup new) = Cardinality(Units(g)) + Cardinality(new)
  <2>1. Cardinality(Units(g) \cap new) = 0
    <3> HIDE DEF new, g
    <3> QED  BY <1>5, FS_EmptySet
  <2>2. Cardinality(Units(g)) \in Nat /\ Cardinality(new) \in Nat
    BY <1>2, <1>3, FS_CardinalityType
  <2>3. Cardinality(Units(g) \cup new)
          = Cardinality(Units(g)) + Cardinality(new) - Cardinality(Units(g) \cap new)
    <3> HIDE DEF new, g
    <3> QED  BY <1>2, <1>3, FS_Union
  <2> HIDE DEF new, g
  <2> QED  BY <2>1, <2>2, <2>3
<1> QED  BY <1>3, <1>4, <1>6 DEF Total, Units

\* What uses are: each begins, ends and takes some units.
AreUses(uses) ==
  /\ IsFiniteSet(uses)
  /\ \A u \in uses : u.from \in Int /\ u.to \in Int /\ u.amount \in Nat

ActiveAt(u, t) == u.from <= t /\ t < u.to

LEMMA LoadType ==
  ASSUME NEW uses, AreUses(uses), NEW t \in Int
  PROVE  Load(uses, t) \in Nat
<1> DEFINE S == {x \in uses : x.from <= t /\ t < x.to}
           f == [u \in S |-> u.amount]
<1>1. IsFiniteSet(S)
  BY FS_Subset DEF AreUses
<1>2. f \in [S -> Nat]
  BY DEF AreUses
<1>3. Total(f) \in Nat
  <2> HIDE DEF f, S
  <2> QED  BY <1>1, <1>2, UnitsFinite
<1> QED  BY <1>3 DEF Load

\* A further use adds what it takes, while it lasts.
LEMMA LoadOfMore ==
  ASSUME NEW uses, AreUses(uses), NEW t \in Int,
         NEW u, u.from \in Int, u.to \in Int, u.amount \in Nat
  PROVE  /\ AreUses(uses \cup {u})
         /\ Load(uses \cup {u}, t) <= Load(uses, t) + u.amount
         /\ ~ActiveAt(u, t) => Load(uses \cup {u}, t) = Load(uses, t)
<1> DEFINE S == {x \in uses : x.from <= t /\ t < x.to}
           f == [x \in S |-> x.amount]
           more == {x \in uses \cup {u} : x.from <= t /\ t < x.to}
           g == [x \in more |-> x.amount]
<1>1. AreUses(uses \cup {u})
  BY FS_AddElement DEF AreUses
<1>2. Load(uses, t) = Total(f) /\ Load(uses \cup {u}, t) = Total(g)
  BY DEF Load
<1>3. Load(uses, t) \in Nat
  BY LoadType
<1>4. CASE ~ActiveAt(u, t) \/ u \in uses
  <2>1. more = S
    BY <1>4 DEF ActiveAt
  <2>2. Load(uses \cup {u}, t) = Load(uses, t)
    BY <2>1, <1>2
  <2> QED  BY <2>2, <1>1, <1>3
<1>5. CASE ActiveAt(u, t) /\ u \notin uses
  <2>1. more = S \cup {u} /\ u \notin S
    BY <1>5 DEF ActiveAt
  <2>2. IsFiniteSet(S)
    BY FS_Subset DEF AreUses
  <2>3. g \in [S \cup {u} -> Nat]
    BY <2>1 DEF AreUses
  <2>4. [x \in S |-> g[x]] = f /\ g[u] = u.amount
    BY <2>1
  <2>5. Total(g) = Total([x \in S |-> g[x]]) + g[u]
    <3> HIDE DEF S, g, more, f
    <3> QED  BY <2>1, <2>2, <2>3, TotalOfMore
  <2>6. Total(g) = Total(f) + u.amount
    BY <2>4, <2>5
  <2> HIDE DEF S, g, more, f
  <2> QED  BY <2>6, <1>1, <1>2, <1>3, <1>5
<1> QED  BY <1>4, <1>5
-----------------------------------------------------------------------------
(* Scopes *)

\* Downstream is a set of operations with S that cannot grow, and the least.
LEMMA DownstreamIsLeast ==
  ASSUME NEW s, NEW S \in SUBSET Ops
  PROVE  /\ S \subseteq Downstream(s, S) /\ Downstream(s, S) \subseteq Ops
         /\ Grown(s, Downstream(s, S))
         /\ \A T \in SUBSET Ops : S \subseteq T /\ Grown(s, T) => Downstream(s, S) \subseteq T
<1>1. S \subseteq Downstream(s, S) /\ Downstream(s, S) \subseteq Ops
  BY DEF Downstream
<1>2. \A T \in SUBSET Ops : S \subseteq T /\ Grown(s, T) => Downstream(s, S) \subseteq T
  BY DEF Downstream
<1>3. Grown(s, Downstream(s, S))
  <2> SUFFICES ASSUME NEW o \in Ops, NEW q \in s.preds[o], q \in Downstream(s, S),
                      NEW T \in SUBSET Ops, S \subseteq T, Grown(s, T)
               PROVE  o \in T
    BY DEF Grown, Downstream
  <2>1. q \in T
    BY <1>2
  <2> QED  BY <2>1 DEF Grown
<1> QED  BY <1>1, <1>2, <1>3

\* A wider disruption reaches no less.
LEMMA DownstreamGrows ==
  ASSUME NEW s, NEW S \in SUBSET Ops, NEW T \in SUBSET Ops, S \subseteq T
  PROVE  Downstream(s, S) \subseteq Downstream(s, T)
<1>1. S \subseteq Downstream(s, T)
  BY DownstreamIsLeast
<1> QED  BY <1>1, DownstreamIsLeast

LEMMA ScopeType ==
  ASSUME NEW s, Common(s)
  PROVE  /\ Scope(s) \subseteq Ops /\ Scope(s) \cap s.frozen = {}
         /\ s.affected \ s.frozen \subseteq Scope(s)
<1>1. s.affected \subseteq Ops /\ s.strategy \in {"global", "wait", "local"}
  BY DEF Common
<1>2. s.affected \subseteq Downstream(s, s.affected)
  BY <1>1, DownstreamIsLeast
<1> QED  BY <1>1, <1>2 DEF Scope
-----------------------------------------------------------------------------
(* What is read of a snapshot *)

LEMMA FloorFacts ==
  ASSUME NEW t \in Int
  PROVE  /\ Floor(t) \in Int /\ Floor(t) <= t /\ t < Floor(t) + Minute
         /\ t >= 0 => Floor(t) \in Nat
<1>1. Minute \in Nat \ {0} /\ t % Minute \in 0..(Minute - 1)
  BY TimeConstants
<1>2. t = Minute * (t \div Minute) + (t % Minute) /\ t \div Minute \in Int
  BY TimeConstants
<1>3. ASSUME t >= 0 PROVE t \div Minute >= 0
  BY <1>1, <1>2, <1>3
<1>4. ASSUME t >= 0 PROVE Minute * (t \div Minute) >= 0
  BY <1>1, <1>2, <1>3, <1>4
<1> QED  BY <1>1, <1>2, <1>4 DEF Floor

LEMMA ClipFacts ==
  ASSUME NEW t \in Times
  PROVE  /\ Clip(t) \in Nat
         /\ t \in Int => t < Clip(t) + Minute /\ (t >= 0 => Clip(t) <= t) /\ (t < 0 => Clip(t) = 0)
  BY FloorFacts, TimeConstants DEF Clip, Times

LEMMA RoundedFacts ==
  ASSUME NEW d \in Nat
  PROVE  /\ Rounded(d) \in Nat
         /\ 2 * Rounded(d) <= 2 * d + Minute /\ 2 * d <= 2 * Rounded(d) + Minute
<1> DEFINE q == d \div Minute  r == d % Minute
<1>1. /\ Minute \in Nat \ {0} /\ q \in Int /\ r \in 0..(Minute - 1)
      /\ d = Minute * q + r
  BY TimeConstants
<1>2. q >= 0
  BY <1>1
<1>3. q * Minute \in Nat /\ q * Minute = d - r /\ (q + 1) * Minute = d - r + Minute
  BY <1>1, <1>2
<1>4. Rounded(d) = IF 2 * r > Minute \/ (2 * r = Minute /\ q % 2 = 1)
                   THEN (q + 1) * Minute ELSE q * Minute
  BY DEF Rounded
<1> HIDE DEF q, r
<1> QED  BY <1>1, <1>3, <1>4

\* A finite set of integers has a least element.
LEMMA MinOfFinite ==
  ASSUME NEW S \in SUBSET Int, S # {}, IsFiniteSet(S)
  PROVE  Min(S) \in S /\ \A x \in S : Min(S) <= x
<1> DEFINE R == {r \in Int \X Int : r[1] < r[2]}
<1>1. \A x, y \in Int : <<x, y>> \in R <=> x < y
  OBVIOUS
<1> HIDE DEF R
<1>2. /\ \A x \in S : <<x, x>> \notin R
      /\ \A x, y, z \in S : <<x, y>> \in R /\ <<y, z>> \in R => <<x, z>> \in R
  BY <1>1
<1>3. PICK x \in S : \A y \in S : <<y, x>> \notin R
  BY <1>2, HasMinimal
<1>4. \A y \in S : x <= y
  <2> TAKE y \in S
  <2>1. x \in Int /\ y \in Int
    OBVIOUS
  <2>2. ~(y < x)
    BY <2>1, <1>1, <1>3
  <2> QED  BY <2>1, <2>2
<1> QED  BY <1>4 DEF Min

\* What the search and the validator read of a snapshot, field by field.
Reads(s, r) ==
  /\ r.old = [o \in Ops |-> [on |-> s.old[o].on, from |-> Floor(s.old[o].from),
                            to |-> Floor(s.old[o].to)]]
  /\ r.length = [o \in Ops |-> [m \in Machines |->
                  IF m \in DOMAIN s.length[o] THEN s.length[o][m]
                  ELSE Max({Minute, Floor(s.old[o].to - s.old[o].from)})]]
  /\ r.release = [o \in Ops |->
                   {Clip(t) : t \in s.release[o] \cup s.parts[o]}
                   \cup {Min({Clip(t) : t \in a}) : a \in s.materials[o] \ {{}}}]
  /\ r.due = [o \in Ops |-> {Clip(t) : t \in s.due[o]}]
  /\ r.calendar = Shortened(s.calendar) /\ r.outages = Shortened(s.outages)
  /\ r.delay = Rounded(s.delay)
  /\ r.eligible = s.eligible /\ r.unfit = s.unfit /\ r.allowed = s.allowed
  /\ r.limit = s.limit /\ r.quota = s.quota /\ r.preds = s.preds
  /\ r.parents = s.parents /\ r.materials = s.materials /\ r.needs = s.needs
  /\ r.family = s.family /\ r.setup = s.setup /\ r.trips = s.trips
  /\ r.flows = s.flows /\ r.capacity = s.capacity /\ r.affected = s.affected
  /\ r.frozen = s.frozen /\ r.urgent = s.urgent /\ r.strategy = s.strategy

Judges(s, j) ==
  /\ j.release = [o \in Ops |->
                   Known(s.release[o] \cup s.batched[o])
                   \cup {Min(Known(a)) : a \in {x \in s.materials[o] : Known(x) # {}}}]
  /\ j.due = [o \in Ops |-> Known(s.due[o])]
  /\ j.calendar = Real(s.calendar)
  /\ j.trips = {x \in s.trips : {x.pred, x.succ} \subseteq Ops}
  /\ j.old = s.old /\ j.allowed = s.allowed
  /\ j.quota = s.quota /\ j.preds = s.preds
  /\ j.parents = s.parents /\ j.materials = s.materials /\ j.needs = s.needs
  /\ j.family = s.family /\ j.setup = s.setup
  /\ j.flows = s.flows /\ j.capacity = s.capacity

LEMMA ReadingFields ==
  ASSUME NEW s, IsSnapshot(s)
  PROVE  Reads(s, SearchView(s)) /\ Judges(s, JudgeView(s))
<1>1. Fields \subseteq DOMAIN s
  BY DEF IsSnapshot
<1>2. Reads(s, SearchView(s))
  BY <1>1 DEF SearchView, Fields, Reads
<1>3. Judges(s, JudgeView(s))
  BY <1>1 DEF JudgeView, Fields, Judges
<1> QED  BY <1>2, <1>3

\* The windows that the search reads come from windows of the snapshot.
LEMMA ShortenedFacts ==
  ASSUME NEW W, IsFiniteSet(W), Horizon \in Nat,
         \A w \in W : {"from", "to"} \subseteq DOMAIN w /\ {w.from, w.to} \subseteq Times
  PROVE  /\ IsFiniteSet(Shortened(W))
         /\ \A v \in Shortened(W) : \E w \in W :
              /\ v.from = Clip(w.from) /\ v.from \in Nat
              /\ v.to = Min({Clip(w.to), Horizon}) /\ v.to \in Nat
              /\ \A k \in DOMAIN w \ {"from", "to"} : v[k] = w[k]
         /\ \A w \in W : Clip(w.from) < Clip(w.to) =>
              \E v \in Shortened(W) :
                /\ v.from = Clip(w.from) /\ v.to = Min({Clip(w.to), Horizon})
                /\ \A k \in DOMAIN w \ {"from", "to"} : v[k] = w[k]
<1> DEFINE kept == {x \in W : Clip(x.from) < Clip(x.to)}
           f == [w \in kept |-> [w EXCEPT !.from = Clip(w.from), !.to = Min({Clip(w.to), Horizon})]]
<1>1. Shortened(W) = {f[w] : w \in kept}
  BY DEF Shortened
<1>2. IsFiniteSet(kept) /\ DOMAIN f = kept
  BY FS_Subset
<1>3. IsFiniteSet(Shortened(W))
  <2> HIDE DEF f, kept
  <2> QED  BY <1>1, <1>2, FiniteValues
<1>4. ASSUME NEW w \in kept
      PROVE  /\ f[w].from = Clip(w.from) /\ f[w].from \in Nat
             /\ f[w].to = Min({Clip(w.to), Horizon}) /\ f[w].to \in Nat
             /\ \A k \in DOMAIN w \ {"from", "to"} : f[w][k] = w[k]
  <2>1. f[w] = [w EXCEPT !.from = Clip(w.from), !.to = Min({Clip(w.to), Horizon})]
    OBVIOUS
  <2>2. Clip(w.from) \in Nat /\ Clip(w.to) \in Nat
    BY ClipFacts
  <2>3. Min({Clip(w.to), Horizon}) \in Nat
    <3>1. {Clip(w.to), Horizon} \in SUBSET Nat /\ {Clip(w.to), Horizon} # {}
      BY <2>2
    <3> QED  BY <3>1, MinOfNat
  <2> HIDE DEF f
  <2> QED  BY <2>1, <2>2, <2>3
<1>5. \A v \in Shortened(W) : \E w \in kept : v = f[w]
  BY <1>1
<1>6. \A w \in W : Clip(w.from) < Clip(w.to) => w \in kept /\ f[w] \in Shortened(W)
  BY <1>1
<1> HIDE DEF f
<1>7. ASSUME NEW v \in Shortened(W)
      PROVE  \E w \in W :
               /\ v.from = Clip(w.from) /\ v.from \in Nat
               /\ v.to = Min({Clip(w.to), Horizon}) /\ v.to \in Nat
               /\ \A k \in DOMAIN w \ {"from", "to"} : v[k] = w[k]
  <2>1. PICK w \in kept : v = f[w]
    BY <1>5
  <2> QED  BY <2>1, <1>4
<1>8. ASSUME NEW w \in W, Clip(w.from) < Clip(w.to)
      PROVE  \E v \in Shortened(W) :
               /\ v.from = Clip(w.from) /\ v.to = Min({Clip(w.to), Horizon})
               /\ \A k \in DOMAIN w \ {"from", "to"} : v[k] = w[k]
  BY <1>8, <1>6, <1>4
<1> QED  BY <1>3, <1>7, <1>8

LEMMA ReadingIsShop ==
  ASSUME NEW s, IsSnapshot(s), Horizon \in Nat
  PROVE  IsShop(SearchView(s))
<1> DEFINE r == SearchView(s)
<1> HIDE DEF r
<1>0. Minute \in Nat \ {0} /\ Reads(s, r)
  BY TimeConstants, ReadingFields DEF r
<1>1. Common(r)
  <2>1. Common(s)
    BY DEF IsSnapshot
  <2>2. \A f, g : Setup(r, f, g) = Setup(s, f, g)
    BY <1>0 DEF Setup, Reads
  <2>3. /\ r.eligible = s.eligible /\ r.limit = s.limit /\ r.quota = s.quota
        /\ r.needs = s.needs /\ r.family = s.family /\ r.trips = s.trips
        /\ r.flows = s.flows /\ r.capacity = s.capacity /\ r.affected = s.affected
        /\ r.strategy = s.strategy
    BY <1>0 DEF Reads
  <2> QED  BY <2>1, <2>2, <2>3 DEF Common
<1>2. ASSUME NEW o \in Ops
      PROVE  r.old[o] \in [on : Machines, from : Nat, to : Int]
  <2>1. s.old[o].on \in Machines /\ s.old[o].from \in Nat /\ s.old[o].to \in Nat
    BY DEF IsSnapshot
  <2>2. r.old[o] = [on |-> s.old[o].on, from |-> Floor(s.old[o].from), to |-> Floor(s.old[o].to)]
    BY <1>0 DEF Reads
  <2>3. Floor(s.old[o].from) \in Nat /\ Floor(s.old[o].to) \in Nat
    BY <2>1, FloorFacts
  <2> QED  BY <2>1, <2>2, <2>3
<1>3. r.old \in [Ops -> [on : Machines, from : Nat, to : Int]]
  <2>1. \E f : r.old = [o \in Ops |-> f[o]]
    BY <1>0 DEF Reads
  <2> QED  BY <2>1, <1>2
<1>4. ASSUME NEW o \in Ops, NEW m \in Machines
      PROVE  r.length[o][m] \in Nat \ {0}
  <2> DEFINE d == Floor(s.old[o].to - s.old[o].from)
             S == {Minute, d}
  <2>1. s.old[o].from \in Nat /\ s.old[o].to \in Nat
    BY DEF IsSnapshot
  <2>2. d \in Int
    BY <2>1, FloorFacts
  <2>3. IsFiniteSet(S)
    <3>1. IsFiniteSet({Minute}) /\ IsFiniteSet({d}) /\ S = {Minute} \cup {d}
      BY FS_Singleton
    <3> HIDE DEF S
    <3> QED  BY <3>1, FS_Union
  <2>4. S \in SUBSET Int /\ S # {} /\ Minute \in S
    BY <2>2, <1>0
  <2>5. Max(S) \in Int /\ Max(S) >= Minute
    <3> HIDE DEF S
    <3> QED  BY <2>3, <2>4, <1>0, MaxOfFinite
  <2>6. Max(S) \in Nat \ {0}
    BY <2>5, <1>0
  <2>7. r.length[o][m] = IF m \in DOMAIN s.length[o] THEN s.length[o][m] ELSE Max(S)
    BY <1>0 DEF Reads
  <2>8. m \in DOMAIN s.length[o] => s.length[o][m] \in Nat \ {0}
    BY DEF IsSnapshot
  <2> QED  BY <2>6, <2>7, <2>8
<1>5. ASSUME NEW o \in Ops
      PROVE  r.release[o] \subseteq Nat /\ IsFiniteSet(r.release[o])
  <2> DEFINE A == s.release[o] \cup s.parts[o]
             M == s.materials[o] \ {{}}
             f == [t \in A |-> Clip(t)]
             g == [a \in M |-> Min({Clip(t) : t \in a})]
  <2>1. /\ A \subseteq Times /\ IsFiniteSet(A) /\ IsFiniteSet(M)
        /\ \A a \in M : a \subseteq Times /\ a # {}
    <3>1. /\ s.release[o] \subseteq Times /\ IsFiniteSet(s.release[o])
          /\ s.parts[o] \subseteq Times /\ IsFiniteSet(s.parts[o])
          /\ \A a \in s.materials[o] : a \subseteq Times
          /\ IsFiniteSet(s.materials[o])
      BY DEF IsSnapshot
    <3> QED  BY <3>1, FS_Union, FS_Subset
  <2>2. r.release[o] = {f[t] : t \in A} \cup {g[a] : a \in M}
    <3>1. r.release[o] = {Clip(t) : t \in A} \cup {Min({Clip(t) : t \in a}) : a \in M}
      BY <1>0 DEF Reads
    <3>2. {f[t] : t \in A} = {Clip(t) : t \in A}
      OBVIOUS
    <3>3. \A a \in M : g[a] = Min({Clip(t) : t \in a})
      OBVIOUS
    <3>4. {g[a] : a \in M} = {Min({Clip(t) : t \in a}) : a \in M}
      <4> HIDE DEF g, M
      <4> QED  BY <3>3, Zenon
    <3> HIDE DEF f, g, A, M
    <3> QED  BY <3>1, <3>2, <3>4, Zenon
  <2>3. \A t \in A : f[t] \in Nat
    BY <2>1, ClipFacts
  <2>4. ASSUME NEW a \in M PROVE g[a] \in Nat
    <3> DEFINE C == {Clip(t) : t \in a}
    <3>1. C \in SUBSET Nat /\ C # {}
      BY <2>1, ClipFacts
    <3>2. Min(C) \in Nat
      <4> HIDE DEF C
      <4> QED  BY <3>1, MinOfNat
    <3> QED  BY <3>2
  <2>5. DOMAIN f = A /\ DOMAIN g = M
    OBVIOUS
  <2> HIDE DEF f, g, A, M
  <2>6. IsFiniteSet({f[t] : t \in A}) /\ IsFiniteSet({g[a] : a \in M})
    BY <2>1, <2>5, FiniteValues
  <2>7. IsFiniteSet({f[t] : t \in A} \cup {g[a] : a \in M})
    BY <2>6, FS_Union
  <2> QED  BY <2>2, <2>3, <2>4, <2>7
<1>6. ASSUME NEW o \in Ops PROVE r.due[o] \subseteq Nat
  <2>1. s.due[o] \subseteq Times
    BY DEF IsSnapshot
  <2>2. r.due[o] = {Clip(t) : t \in s.due[o]}
    BY <1>0 DEF Reads
  <2> QED  BY <2>1, <2>2, ClipFacts
<1>7. /\ IsFiniteSet(r.calendar)
      /\ \A w \in r.calendar : w.from \in Int /\ w.to \in Int
  <2>1. /\ IsFiniteSet(s.calendar)
        /\ \A w \in s.calendar : {"from", "to"} \subseteq DOMAIN w /\ {w.from, w.to} \subseteq Times
    BY DEF IsSnapshot
  <2>2. r.calendar = Shortened(s.calendar)
    BY <1>0 DEF Reads
  <2>3. IsFiniteSet(Shortened(s.calendar)) /\ \A v \in Shortened(s.calendar) : v.from \in Nat /\ v.to \in Nat
    BY <2>1, ShortenedFacts
  <2> QED  BY <2>2, <2>3
<1>8. /\ IsFiniteSet(r.outages)
      /\ \A w \in r.outages : w.from \in Int /\ w.to \in Int /\ w.amount \in Nat
  <2>1. /\ IsFiniteSet(s.outages)
        /\ \A w \in s.outages :
             /\ {"from", "to"} \subseteq DOMAIN w /\ {w.from, w.to} \subseteq Times
             /\ "amount" \in DOMAIN w \ {"from", "to"} /\ w.amount \in Nat
    BY DEF IsSnapshot
  <2>2. r.outages = Shortened(s.outages)
    BY <1>0 DEF Reads
  <2>3. /\ IsFiniteSet(Shortened(s.outages))
        /\ \A v \in Shortened(s.outages) : \E w \in s.outages :
             /\ v.from \in Nat /\ v.to \in Nat
             /\ \A k \in DOMAIN w \ {"from", "to"} : v[k] = w[k]
    <3> DEFINE W == s.outages
    <3>1. /\ IsFiniteSet(W)
          /\ \A w \in W : {"from", "to"} \subseteq DOMAIN w /\ {w.from, w.to} \subseteq Times
      BY <2>1
    <3> HIDE DEF W
    <3>2. /\ IsFiniteSet(Shortened(W))
          /\ \A v \in Shortened(W) : \E w \in W :
               /\ v.from \in Nat /\ v.to \in Nat
               /\ \A k \in DOMAIN w \ {"from", "to"} : v[k] = w[k]
      BY <3>1, ShortenedFacts
    <3> QED  BY <3>2 DEF W
  <2> QED  BY <2>1, <2>2, <2>3
<1>9. r.delay \in Nat
  <2>1. s.delay \in Nat
    BY DEF IsSnapshot
  <2> QED  BY <2>1, <1>0, RoundedFacts DEF Reads
<1> QED  BY <1>1, <1>3, <1>4, <1>5, <1>6, <1>7, <1>8, <1>9 DEF IsShop, r

\* The release times that the validator looks at are times.
LEMMA ReleaseType ==
  ASSUME NEW s, IsSnapshot(s), NEW o \in Ops, NEW t \in JudgeView(s).release[o]
  PROVE  t \in Int
<1>1. /\ s.release[o] \subseteq Times /\ s.batched[o] \subseteq Times
      /\ \A a \in s.materials[o] : a \subseteq Times /\ IsFiniteSet(a)
  BY DEF IsSnapshot
<1>2. \A A \in SUBSET Times : Known(A) \in SUBSET Int
  BY DEF Known, Times
<1>3. Judges(s, JudgeView(s))
  BY ReadingFields
<1>4. CASE t \in Known(s.release[o] \cup s.batched[o])
  BY <1>1, <1>2, <1>4
<1>5. ASSUME NEW a \in s.materials[o], Known(a) # {}, t = Min(Known(a))
      PROVE  t \in Int
  <2>1. IsFiniteSet(Known(a))
    BY <1>1, FS_Subset DEF Known
  <2>2. Known(a) \in SUBSET Int
    BY <1>1, <1>2
  <2>3. Min(Known(a)) \in Known(a)
    BY <2>1, <2>2, <1>5, MinOfFinite
  <2> QED  BY <2>2, <2>3, <1>5
<1> QED  BY <1>3, <1>4, <1>5 DEF Judges
================================================================================
