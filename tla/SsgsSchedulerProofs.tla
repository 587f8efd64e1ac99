-------------------------- MODULE SsgsSchedulerProofs --------------------------
(***************************************************************************)
(* Proofs about SsgsScheduler, for every shop: in which order operations   *)
(* are placed and what the status says of it, that nothing placed is       *)
(* disturbed later, and that in a regular shop every plan is valid.        *)
(***************************************************************************)
EXTENDS SsgsScheduler, ScheduleRulesProofs

\* What the search may have read.
Readings == {SearchView(s) : s \in Shops}

LEMMA ShopFacts ==
  ASSUME NEW s \in Readings
  PROVE  /\ IsShop(s) /\ IsFiniteSet(Ops)
         /\ Scope(s) \subseteq Ops /\ IsFiniteSet(Scope(s))
         /\ Fixed(s) \cup Scope(s) = Ops /\ Fixed(s) \cap Scope(s) = {}
         /\ Scope(s) \cap s.frozen = {}
<1>1. IsShop(s) /\ IsFiniteSet(Ops)
  BY SsgsConstants, ReadingIsShop DEF Readings
<1>2. Scope(s) \subseteq Ops /\ Scope(s) \cap s.frozen = {}
  BY <1>1, ScopeType DEF IsShop
<1>3. IsFiniteSet(Scope(s))
  BY <1>1, <1>2, FS_Subset
<1> QED  BY <1>1, <1>2, <1>3 DEF Fixed
-----------------------------------------------------------------------------
(* The order of placement *)

Unplaced(o) == (Before(shop, o) \cap Scope(shop)) \ DOMAIN plan

\* What is in the plan is closed under predecessors in the scope, the heap holds
\* what may come next, and no part of a circle is ever placed.
OrderInv ==
  /\ shop \in Readings /\ snap \in Shops /\ shop = SearchView(snap)
  /\ Fixed(shop) \subseteq DOMAIN plan /\ DOMAIN plan \subseteq Ops
  /\ waiting = [o \in Scope(shop) |-> Cardinality(Unplaced(o))]
  /\ ready = {o \in Scope(shop) \ DOMAIN plan : Unplaced(o) = {}}
  /\ \A o \in Scope(shop) \cap DOMAIN plan : Before(shop, o) \subseteq DOMAIN plan
  /\ \A S \in SUBSET Scope(shop) : Circular(S) => S \cap DOMAIN plan = {}
  /\ outcome = "cycle" => DOMAIN plan # Ops /\ ready = {}
  /\ outcome = "blocked" => \E o \in Scope(shop) : ~(Before(shop, o) \subseteq Ops)
  /\ outcome \in {"feasible", "invalid"} => DOMAIN plan = Ops

LEMMA UnplacedFinite ==
  ASSUME shop \in Readings, NEW o
  PROVE  /\ IsFiniteSet(Unplaced(o)) /\ Cardinality(Unplaced(o)) \in Nat
         /\ Cardinality(Unplaced(o)) = 0 <=> Unplaced(o) = {}
<1>1. IsFiniteSet(Scope(shop))
  BY ShopFacts
<1>2. IsFiniteSet(Unplaced(o))
  BY <1>1, FS_Subset DEF Unplaced
<1> QED  BY <1>2, FS_CardinalityType, FS_EmptySet

LEMMA OrderInit == Init => OrderInv
<1> SUFFICES ASSUME Init PROVE OrderInv
  OBVIOUS
<1>1. /\ shop \in Readings /\ snap \in Shops /\ shop = SearchView(snap)
      /\ outcome = "running" /\ DOMAIN plan = Fixed(shop)
  BY DEF Init, Readings
<1>2. /\ Scope(shop) \subseteq Ops /\ IsFiniteSet(Scope(shop))
      /\ Fixed(shop) \cup Scope(shop) = Ops /\ Fixed(shop) \cap Scope(shop) = {}
  BY <1>1, ShopFacts
<1>3. \A o \in Scope(shop) : Unplaced(o) = Before(shop, o) \cap Scope(shop)
  BY <1>1, <1>2 DEF Unplaced
<1>4. waiting = [o \in Scope(shop) |-> Cardinality(Unplaced(o))]
  BY <1>3 DEF Init
<1>5. ready = {o \in Scope(shop) \ DOMAIN plan : Unplaced(o) = {}}
  BY <1>1, <1>2, <1>3 DEF Init
<1> QED  BY <1>1, <1>2, <1>4, <1>5 DEF OrderInv

\* What placing an operation adds to the plan.
LEMMA PlaceAdds ==
  ASSUME NEW o, Place(o)
  PROVE  /\ \E machines \in SUBSET Tried(o) : \E c \in Candidates(o, machines) :
              plan' = [x \in DOMAIN plan \cup {o} |-> IF x = o THEN c ELSE plan[x]]
         /\ DOMAIN plan' = DOMAIN plan \cup {o}
         /\ \A x \in DOMAIN plan \ {o} : plan'[x] = plan[x]
<1>1. \A machines \in Searched(o) : machines \subseteq Tried(o)
  BY DEF Searched
<1> QED  BY <1>1 DEF Place

LEMMA OrderPlace ==
  ASSUME OrderInv, NEW o \in ready, Place(o)
  PROVE  OrderInv'
<1>1. /\ shop \in Readings /\ shop' = shop /\ outcome = "running" /\ outcome' = outcome
      /\ snap' = snap
      /\ o \in Scope(shop) \ DOMAIN plan /\ Unplaced(o) = {}
      /\ DOMAIN plan' = DOMAIN plan \cup {o}
      /\ Before(shop, o) \subseteq DOMAIN plan
  BY PlaceAdds DEF OrderInv, Place, Running, Blocked
<1>2. /\ Scope(shop) \subseteq Ops /\ Scope(shop') = Scope(shop)
      /\ Fixed(shop') = Fixed(shop)
      /\ \A q : Before(shop', q) = Before(shop, q)
  BY <1>1, ShopFacts
<1>3. \A q : Unplaced(q)' = Unplaced(q) \ {o}
  BY <1>1, <1>2 DEF Unplaced
<1>4. \A q : o \in Unplaced(q) <=> o \in Before(shop, q)
  BY <1>1 DEF Unplaced
<1>5. \A q \in Scope(shop) :
        Cardinality(Unplaced(q)') =
          IF o \in Before(shop, q) THEN Cardinality(Unplaced(q)) - 1 ELSE Cardinality(Unplaced(q))
  BY <1>1, <1>3, <1>4, UnplacedFinite, FS_RemoveElement
<1>6. waiting' = [q \in Scope(shop) |-> Cardinality(Unplaced(q)')]
  BY <1>5 DEF OrderInv, Place
<1>7. \A q \in Scope(shop) \ DOMAIN plan :
        q \in Released(o) <=> Unplaced(q)' = {} /\ Unplaced(q) # {}
  <2> TAKE q \in Scope(shop) \ DOMAIN plan
  <2>1. q \in Released(o) <=> o \in Unplaced(q) /\ Cardinality(Unplaced(q)) = 1
    BY <1>4 DEF Released, OrderInv
  <2>2. IsFiniteSet(Unplaced(q))
    BY <1>1, UnplacedFinite
  <2>3. Cardinality(Unplaced(q)) = 1 <=> \E x : Unplaced(q) = {x}
    BY <2>2, FS_Singleton
  <2>4. o \in Unplaced(q) /\ Unplaced(q) = {o} <=> Unplaced(q) \ {o} = {} /\ Unplaced(q) # {}
    BY Zenon
  <2> QED  BY <2>1, <2>3, <2>4, <1>3
<1>8. Released(o) \subseteq Scope(shop) \ DOMAIN plan
  <2>1. \A q \in Released(o) : q \in Scope(shop) /\ o \in Before(shop, q)
    BY DEF Released, OrderInv
  <2> QED  BY <2>1, <1>1 DEF OrderInv
<1>9. o \notin Before(shop, o)
  BY <1>1
<1>10. ready' = {q \in Scope(shop) \ DOMAIN plan' : Unplaced(q)' = {}}
  <2>1. ready' = (ready \ {o}) \cup Released(o)
    BY DEF Place
  <2>2. o \notin Released(o)
    BY <1>9 DEF Released
  <2>3. \A q \in Scope(shop) \ DOMAIN plan : q # o =>
          (q \in ready \cup Released(o) <=> Unplaced(q)' = {})
    BY <1>3, <1>7 DEF OrderInv
  <2>4. ready \subseteq Scope(shop) \ DOMAIN plan
    BY DEF OrderInv
  <2> QED  BY <2>1, <2>2, <2>3, <2>4, <1>1, <1>8
<1>11. \A q \in Scope(shop) \cap DOMAIN plan' : Before(shop, q) \subseteq DOMAIN plan'
  BY <1>1 DEF OrderInv
<1>12. ASSUME NEW S \in SUBSET Scope(shop), S # {}, \A q \in S : Before(shop, q) \cap S # {}
       PROVE  S \cap DOMAIN plan' = {}
  <2>1. S \cap DOMAIN plan = {}
    BY <1>12 DEF OrderInv, Circular
  <2>2. o \notin S
    BY <2>1, <1>1, <1>12
  <2> QED  BY <2>1, <2>2, <1>1
<1>13. Fixed(shop) \subseteq DOMAIN plan' /\ DOMAIN plan' \subseteq Ops
  BY <1>1, <1>2 DEF OrderInv
<1>14. (\A S \in SUBSET Scope(shop) : Circular(S) => S \cap DOMAIN plan = {})'
  BY <1>2, <1>12 DEF Circular
<1> QED
  BY <1>1, <1>2, <1>6, <1>10, <1>11, <1>13, <1>14 DEF OrderInv

\* A step that ends the search leaves everything else as it is.
LEMMA OrderReturn ==
  ASSUME OrderInv, outcome = "running", NEW status, Return(status),
         status = "cycle" => DOMAIN plan # Ops /\ ready = {},
         status = "blocked" => \E o \in Scope(shop) : ~(Before(shop, o) \subseteq Ops),
         status \in {"feasible", "invalid"} => DOMAIN plan = Ops
  PROVE  OrderInv'
<1>1. /\ shop' = shop /\ snap' = snap /\ plan' = plan /\ waiting' = waiting
      /\ ready' = ready
      /\ outcome' = status
  BY DEF Return
<1>2. \A q : Unplaced(q)' = Unplaced(q)
  BY <1>1 DEF Unplaced
<1>3. \A S : Circular(S)' <=> Circular(S)
  BY <1>1 DEF Circular
<1> QED  BY <1>1, <1>2, <1>3 DEF OrderInv

LEMMA OrderNext == OrderInv /\ [Next]_vars => OrderInv'
<1> SUFFICES ASSUME OrderInv, [Next]_vars PROVE OrderInv'
  OBVIOUS
<1>1. ASSUME NEW o \in ready, Place(o) PROVE OrderInv'
  BY <1>1, OrderPlace
<1>2. ASSUME NEW o \in ready, Fail(o) PROVE OrderInv'
  <2>1. /\ outcome = "running"
        /\ \E st \in {"lacking", "blocked", "no_slot"} :
             Return(st) /\ (st = "blocked" => Blocked(o))
    BY <1>2 DEF Fail, Running
  <2>2. Blocked(o) => ~(Before(shop, o) \subseteq Ops) /\ o \in Scope(shop)
    <3>1. /\ o \in Scope(shop) /\ Unplaced(o) = {} /\ shop \in Readings
          /\ Fixed(shop) \subseteq DOMAIN plan
      BY DEF OrderInv
    <3>2. Fixed(shop) \cup Scope(shop) = Ops
      BY <3>1, ShopFacts
    <3> QED  BY <3>1, <3>2 DEF Blocked, Unplaced
  <2> QED  BY <2>1, <2>2, OrderReturn
<1>3. CASE Finish
  <2>1. /\ outcome = "running" /\ ready = {}
        /\ \E st \in {"cycle", "feasible", "invalid"} :
             Return(st) /\ (st = "cycle" <=> DOMAIN plan # Ops)
    BY <1>3 DEF Finish
  <2> QED  BY <2>1, OrderReturn
<1>4. CASE TimeOut
  BY <1>4, OrderReturn DEF TimeOut, Running
<1>5. CASE UNCHANGED vars
  <2>1. \A q : Unplaced(q)' = Unplaced(q)
    BY <1>5 DEF Unplaced, vars
  <2>2. \A S : Circular(S)' <=> Circular(S)
    BY <1>5 DEF Circular, vars
  <2> QED  BY <1>5, <2>1, <2>2 DEF OrderInv, vars
<1> QED  BY <1>1, <1>2, <1>3, <1>4, <1>5 DEF Next

THEOREM PlacedInOrder == Spec => []OrderInv
  BY OrderInit, OrderNext, PTL DEF Spec

\* StatusTellsTheOrder: a plan that is complete has no circular precedences, and
\* one that is not says whether they are circular or name what does not exist.
THEOREM StatusIsTrue == Spec => []StatusTellsTheOrder
<1>1. OrderInv => StatusTellsTheOrder
  <2> SUFFICES ASSUME OrderInv PROVE StatusTellsTheOrder
    OBVIOUS
  <2>1. /\ shop \in Readings /\ Fixed(shop) \subseteq DOMAIN plan /\ DOMAIN plan \subseteq Ops
        /\ Scope(shop) \subseteq Ops /\ Fixed(shop) \cup Scope(shop) = Ops
    BY ShopFacts DEF OrderInv
  <2>2. ASSUME outcome = "cycle" PROVE Circular(Scope(shop) \ DOMAIN plan)
    <3>1. Scope(shop) \ DOMAIN plan # {}
      BY <2>1, <2>2 DEF OrderInv
    <3>2. \A o \in Scope(shop) \ DOMAIN plan : Unplaced(o) # {}
      BY <2>2 DEF OrderInv
    <3> QED  BY <3>1, <3>2 DEF Circular, Unplaced
  <2>3. ASSUME outcome \in {"feasible", "invalid"}, NEW S \in SUBSET Scope(shop), Circular(S)
        PROVE FALSE
    BY <2>1, <2>3 DEF OrderInv, Circular
  <2> QED  BY <2>2, <2>3 DEF StatusTellsTheOrder, OrderInv
<1> QED  BY <1>1, PlacedInOrder, PTL
-----------------------------------------------------------------------------
(* Where an operation may go *)

\* The plan has places for operations.
PlanOK ==
  /\ shop \in Readings /\ DOMAIN plan \subseteq Ops
  /\ plan \in [DOMAIN plan -> [on : Machines, from : Nat, to : Int]]

LEMMA IntervalFacts ==
  ASSUME PlanOK, NEW m
  PROVE  /\ IsFiniteSet(Intervals(m))
         /\ \A x \in Intervals(m) :
              /\ x.from \in Int /\ x.to \in Int
              /\ \A o \in Ops : /\ Setup(shop, x.family, shop.family[o]) \in Nat
                              /\ Setup(shop, shop.family[o], x.family) \in Nat
<1>1. IsShop(shop) /\ IsFiniteSet(Ops)
  BY ShopFacts DEF PlanOK
<1> DEFINE mine == {o \in DOMAIN plan : plan[o].on = m}
           shut == {w \in shop.calendar : w.on = m}
           f == [o \in mine |-> [by |-> o, from |-> plan[o].from, to |-> plan[o].to,
                                 family |-> shop.family[o]]]
           g == [w \in shut |-> [by |-> None, from |-> w.from, to |-> w.to, family |-> None]]
<1>2. IsFiniteSet(mine)
  BY <1>1, FS_Subset DEF PlanOK
<1>3. IsFiniteSet(shut)
  BY <1>1, FS_Subset DEF IsShop, Common
<1>4. Intervals(m) = {f[o] : o \in mine} \cup {g[w] : w \in shut}
  BY DEF Intervals
<1>5. IsFiniteSet(Intervals(m))
  <2>1. DOMAIN f = mine /\ DOMAIN g = shut
    OBVIOUS
  <2> HIDE DEF f, g, mine, shut
  <2>2. IsFiniteSet({f[o] : o \in mine}) /\ IsFiniteSet({g[w] : w \in shut})
    BY <2>1, <1>2, <1>3, FiniteValues
  <2> QED  BY <2>2, <1>4, FS_Union
<1>6. ASSUME NEW x \in Intervals(m), NEW o \in Ops
      PROVE  /\ x.from \in Int /\ x.to \in Int
             /\ Setup(shop, x.family, shop.family[o]) \in Nat
             /\ Setup(shop, shop.family[o], x.family) \in Nat
  <2>1. CASE \E q \in mine : x = f[q]
    BY <2>1, <1>1 DEF IsShop, Common, PlanOK
  <2>2. CASE \E w \in shut : x = g[w]
    BY <2>2, <1>1 DEF IsShop, Common, Setup
  <2> QED  BY <1>6, <2>1, <2>2, <1>4
<1>7. ASSUME NEW x \in Intervals(m) PROVE x.from \in Int /\ x.to \in Int
  <2>1. CASE \E q \in mine : x = f[q]
    BY <2>1 DEF PlanOK
  <2>2. CASE \E w \in shut : x = g[w]
    BY <2>2, <1>1 DEF IsShop, Common
  <2> QED  BY <1>7, <2>1, <2>2, <1>4
<1> QED  BY <1>5, <1>6, <1>7

LEMMA AfterFacts ==
  ASSUME PlanOK, NEW m, NEW o \in Ops, NEW t \in Nat, NEW ivs \in SUBSET Intervals(m)
  PROVE  /\ After(o, t, ivs) \in Nat /\ After(o, t, ivs) >= t
         /\ \A x \in ivs : x.to + Setup(shop, x.family, shop.family[o]) <= After(o, t, ivs)
<1> DEFINE f == [x \in ivs |-> x.to + Setup(shop, x.family, shop.family[o])]
           S == {t} \cup {f[x] : x \in ivs}
<1>1. \A x \in ivs : f[x] \in Int
  BY IntervalFacts
<1>2. IsFiniteSet(S)
  <2>1. IsFiniteSet(ivs)
    BY IntervalFacts, FS_Subset
  <2>2. DOMAIN f = ivs
    OBVIOUS
  <2> HIDE DEF f
  <2>3. IsFiniteSet({f[x] : x \in ivs})
    BY <2>1, <2>2, FiniteValues
  <2> QED  BY <2>3, FS_Singleton, FS_Union
<1>3. S \in SUBSET Int /\ S # {}
  BY <1>1
<1>4. Max(S) \in S /\ \A x \in S : x <= Max(S)
  <2> HIDE DEF S
  <2> QED  BY <1>2, <1>3, MaxOfFinite
<1>5. After(o, t, ivs) = Max(S)
  BY DEF After
<1> QED  BY <1>1, <1>3, <1>4, <1>5

\* o may start at t on m: the intervals before some point leave it to o with
\* their setups, and o leaves the next one its setup.
Clear(o, m, t) ==
  LET Leaves(x) == x.to + Setup(shop, x.family, shop.family[o]) <= t
  IN \/ \A x \in Intervals(m) : Leaves(x)
     \/ \E iv \in Intervals(m) :
          GapFits(o, m, t, iv) /\ \A x \in Intervals(m) : Precedes(x, iv) => Leaves(x)

\* The walk of _machine_slot ends at such a start.
LEMMA MachineSlotIsClear ==
  ASSUME PlanOK, NEW m, NEW o \in Ops, NEW t \in Nat
  PROVE  /\ MachineSlot(o, m, t) \in Nat /\ MachineSlot(o, m, t) >= t
         /\ Clear(o, m, MachineSlot(o, m, t))
<1> DEFINE Prior(iv) == {x \in Intervals(m) : Precedes(x, iv)}
           Start(iv) == After(o, t, Prior(iv))
           stops == {x \in Intervals(m) : GapFits(o, m, Start(x), x)}
           S == {After(o, t, Intervals(m))} \cup {Start(iv) : iv \in stops}
<1>1. S \in SUBSET Nat /\ S # {} /\ \A x \in S : x >= t
  <2>1. \A iv \in stops : Start(iv) \in Nat /\ Start(iv) >= t
    <3> TAKE iv \in stops
    <3>1. Prior(iv) \in SUBSET Intervals(m)
      OBVIOUS
    <3> QED  BY <3>1, AfterFacts
  <2>2. After(o, t, Intervals(m)) \in Nat /\ After(o, t, Intervals(m)) >= t
    BY AfterFacts
  <2> QED  BY <2>1, <2>2
<1>2. MachineSlot(o, m, t) = Min(S)
  BY DEF MachineSlot
<1>3. Min(S) \in S
  <2> HIDE DEF S
  <2> QED  BY <1>1, MinOfNat
<1>4. CASE Min(S) = After(o, t, Intervals(m))
  <2>1. \A x \in Intervals(m) :
          x.to + Setup(shop, x.family, shop.family[o]) <= After(o, t, Intervals(m))
    BY AfterFacts
  <2> QED  BY <2>1, <1>1, <1>2, <1>3, <1>4 DEF Clear
<1>5. CASE \E iv \in stops : Min(S) = Start(iv)
  <2>1. PICK iv \in stops : Min(S) = Start(iv)
    BY <1>5
  <2>2. \A x \in Prior(iv) :
          x.to + Setup(shop, x.family, shop.family[o]) <= Start(iv)
    <3>1. Prior(iv) \in SUBSET Intervals(m)
      OBVIOUS
    <3> QED  BY <3>1, AfterFacts
  <2> QED  BY <2>1, <2>2, <1>1, <1>2, <1>3 DEF Clear
<1> QED  BY <1>3, <1>4, <1>5

\* What a start that _find_slot returns is good for.
Suits(o, m, latest, t) ==
  LET end == t + shop.length[o][m]
  IN /\ t \in Nat /\ end <= latest
     /\ HasTools(o, t, end) /\ HasTransport(o, end) /\ HasBuffer(o, t) /\ Clear(o, m, t)

LEMMA SlotSuits ==
  ASSUME PlanOK, NEW m \in Machines, NEW o \in Ops, NEW earliest \in Nat, NEW latest \in Int,
         NEW x \in Slot(o, m, earliest, latest)
  PROVE  Suits(o, m, latest, x) /\ x >= earliest
<1> DEFINE at(t) == MachineSlot(o, m, t)
           end(t) == at(t) + shop.length[o][m]
           Free(t) == HasTools(o, at(t), end(t)) /\ HasTransport(o, end(t))
           Step(f, t) ==
             IF end(t) > latest THEN {}
             ELSE IF ~Free(t) THEN f[at(t) + Minute]
             ELSE IF HasBuffer(o, at(t)) THEN {at(t)} ELSE {}
           IsSearch(f) == f = [t \in Nat |-> Step(f, t)]
<1>1. \A t \in Nat : at(t) \in Nat /\ at(t) >= t /\ Clear(o, m, at(t))
  BY MachineSlotIsClear
<1>2. shop.length[o][m] \in Nat /\ Minute \in Nat \ {0}
  BY ShopFacts, TimeConstants DEF PlanOK, IsShop, Common
<1>3. Slot(o, m, earliest, latest) = (CHOOSE f : IsSearch(f))[earliest]
  BY DEF Slot
<1> HIDE DEF at
\* The search is a function: it can be built from the last start backwards.
<1>4. \E f : IsSearch(f)
  <2> DEFINE Upto(n) == \E f \in [Nat -> SUBSET Nat] :
                          \A t \in Nat : t + n > latest => f[t] = Step(f, t)
             Bad == {n \in Nat : ~Upto(n)}
  <2>1. Upto(0)
    <3> DEFINE f == [t \in Nat |-> {}]
    <3>1. f \in [Nat -> SUBSET Nat]
      OBVIOUS
    <3>2. \A t \in Nat : t + 0 > latest => f[t] = Step(f, t)
      BY <1>1, <1>2
    <3> QED  BY <3>1, <3>2
  <2>2. ASSUME NEW n \in Nat, Upto(n) PROVE Upto(n + 1)
    <3>1. PICK f \in [Nat -> SUBSET Nat] : \A t \in Nat : t + n > latest => f[t] = Step(f, t)
      BY <2>2
    <3> DEFINE u == latest - n
               g == [f EXCEPT ![u] = Step(f, u)]
    <3>2. CASE u \in Nat
      <4>1. \A t \in Nat : t >= u => Step(g, t) = Step(f, t)
        <5> SUFFICES ASSUME NEW t \in Nat, t >= u PROVE Step(g, t) = Step(f, t)
          OBVIOUS
        <5>1. at(t) + Minute \in Nat /\ at(t) + Minute # u
          BY <1>1, <1>2, <3>2
        <5>2. g[at(t) + Minute] = f[at(t) + Minute]
          BY <5>1, <3>1
        <5> HIDE DEF g, end, Free
        <5> QED  BY <5>2
      <4>2. Step(f, u) \in SUBSET Nat
        <5>1. at(u) \in Nat /\ at(u) + Minute \in Nat
          BY <1>1, <1>2, <3>2
        <5>2. f[at(u) + Minute] \in SUBSET Nat
          BY <5>1, <3>1
        <5> HIDE DEF end, Free, u
        <5> QED  BY <5>1, <5>2
      <4>3. g \in [Nat -> SUBSET Nat] /\ g[u] = Step(f, u)
            /\ \A t \in Nat : t # u => g[t] = f[t]
        <5> HIDE DEF Step
        <5> QED  BY <4>2, <3>1, <3>2
      <4>4. ASSUME NEW t \in Nat, t + (n + 1) > latest PROVE g[t] = Step(g, t)
        <5>1. t >= u /\ (t # u => t + n > latest)
          BY <4>4
        <5> HIDE DEF Step, g
        <5> QED  BY <5>1, <4>1, <4>3, <3>1
      <4> HIDE DEF Step, g
      <4> QED  BY <4>3, <4>4
    <3>3. CASE u \notin Nat
      <4>1. \A t \in Nat : t + n > latest
        BY <3>3
      <4> HIDE DEF Step
      <4> QED  BY <4>1, <3>1
    <3> QED  BY <3>2, <3>3
  <2>3. Bad = {}
    <3> SUFFICES ASSUME Bad # {} PROVE FALSE
      OBVIOUS
    <3> HIDE DEF Upto
    <3>1. PICK n \in Bad : \A k \in Bad : n <= k
      BY NatLeast
    <3>2. n # 0
      BY <3>1, <2>1
    <3>3. n - 1 \in Nat /\ n - 1 \notin Bad
      BY <3>1, <3>2
    <3>4. Upto((n - 1) + 1)
      BY <3>3, <2>2
    <3> QED  BY <3>4, <3>1
  <2>4. PICK n \in Nat : n > latest
    <3>1. CASE latest < 0
      BY <3>1
    <3>2. CASE latest >= 0
      <4>1. latest + 1 \in Nat /\ latest + 1 > latest
        BY <3>2
      <4> QED  BY <4>1
    <3> QED  BY <3>1, <3>2
  <2>5. PICK f \in [Nat -> SUBSET Nat] : \A t \in Nat : t + n > latest => f[t] = Step(f, t)
    <3> HIDE DEF Step
    <3> QED  BY <2>3
  <2>6. IsSearch(f)
    <3> HIDE DEF Step
    <3>1. \A t \in Nat : f[t] = Step(f, t)
      BY <2>4, <2>5
    <3> QED  BY <3>1, <2>5
  <2> QED  BY <2>6
<1> DEFINE f == CHOOSE f : IsSearch(f)
<1>5. \A t \in Nat : f[t] = Step(f, t)
  <2>1. IsSearch(f)
    <3> HIDE DEF IsSearch
    <3> QED  BY <1>4
  <2> HIDE DEF f, Step
  <2> QED  BY <2>1
<1> HIDE DEF f
<1> DEFINE Good(t) == \A y \in f[t] : Suits(o, m, latest, y) /\ y >= t
           Bad == {n \in Nat : \E t \in Nat : t + n > latest /\ ~Good(t)}
<1>6. Bad = {}
  <2> SUFFICES ASSUME Bad # {} PROVE FALSE
    OBVIOUS
  <2>1. PICK n \in Bad : \A k \in Bad : n <= k
    BY NatLeast
  <2>2. PICK t \in Nat : t + n > latest /\ ~Good(t)
    BY <2>1
  <2>3. PICK y \in f[t] : ~(Suits(o, m, latest, y) /\ y >= t)
    BY <2>2
  <2>4. y \in Step(f, t)
    BY <2>3, <1>5
  <2>5. end(t) <= latest
    BY <2>4, <1>1, <1>2
  <2>6. CASE ~Free(t)
    <3>1. y \in f[at(t) + Minute]
      BY <2>4, <2>5, <2>6
    <3>2. n # 0 /\ at(t) + Minute \in Nat /\ (at(t) + Minute) + (n - 1) > latest /\ n - 1 \in Nat
      <4>1. at(t) \in Nat /\ t \in Nat /\ t <= at(t) /\ at(t) <= latest
        BY <1>1, <1>2, <2>2, <2>5
      <4>2. n \in Nat /\ t + n > latest
        BY <2>1, <2>2
      <4> HIDE DEF Free, end, Bad
      <4> QED  BY <4>1, <4>2, <1>2
    <3>3. n - 1 \notin Bad
      <4>1. n \in Nat
        BY <2>1
      <4> HIDE DEF Bad
      <4> QED  BY <4>1, <2>1
    <3>4. Good(at(t) + Minute)
      BY <3>2, <3>3
    <3>5. Suits(o, m, latest, y) /\ y >= at(t) + Minute
      BY <3>1, <3>4
    <3>6. y >= t
      BY <3>5, <1>1, <1>2 DEF Suits
    <3> QED  BY <3>5, <3>6, <2>3
  <2>7. CASE Free(t)
    <3>1. HasBuffer(o, at(t)) /\ y = at(t)
      BY <2>4, <2>5, <2>7
    <3> QED  BY <3>1, <2>3, <2>5, <2>7, <1>1 DEF Suits
  <2> QED  BY <2>6, <2>7
<1>7. PICK n \in Nat : n > latest
  <2>1. CASE latest < 0
    BY <2>1
  <2>2. CASE latest >= 0
    <3>1. latest + 1 \in Nat /\ latest + 1 > latest
      BY <2>2
    <3> QED  BY <3>1
  <2> QED  BY <2>1, <2>2
<1>8. Good(earliest)
  <2>1. earliest + n > latest
    BY <1>7
  <2> HIDE DEF Good
  <2> QED  BY <2>1, <1>6
<1>9. x \in f[earliest]
  BY <1>3 DEF f
<1> QED  BY <1>8, <1>9

\* The waits and the bounds that the search is given.
LEMMA LagFacts ==
  ASSUME shop \in Readings, NEW o, NEW q
  PROVE  /\ Lag(o, q) \in Nat
         /\ \A x \in shop.trips : x.pred = q /\ x.succ = o => x.eta <= Lag(o, q)
<1> DEFINE mine == {x \in shop.trips : x.pred = q /\ x.succ = o}
           f == [x \in mine |-> x.eta]
           S == {0} \cup {f[x] : x \in mine}
<1>1. IsShop(shop)
  BY ShopFacts
<1>2. \A x \in mine : f[x] \in Nat
  BY <1>1 DEF IsShop, Common
<1>3. IsFiniteSet(S)
  <2>1. IsFiniteSet(mine)
    BY <1>1, FS_Subset DEF IsShop, Common
  <2>2. DOMAIN f = mine
    OBVIOUS
  <2> HIDE DEF f, mine
  <2>3. IsFiniteSet({f[x] : x \in mine})
    BY <2>1, <2>2, FiniteValues
  <2> QED  BY <2>3, FS_Singleton, FS_Union
<1>4. S \in SUBSET Nat /\ S # {} /\ S \in SUBSET Int
  <2> HIDE DEF f, mine
  <2> QED  BY <1>2
<1>5. Max(S) \in S /\ \A x \in S : x <= Max(S)
  <2> HIDE DEF S
  <2> QED  BY <1>3, <1>4, MaxOfFinite
<1>6. Lag(o, q) = Max(S)
  BY DEF Lag
<1> QED  BY <1>2, <1>4, <1>5, <1>6

LEMMA EarliestFacts ==
  ASSUME PlanOK, NEW o \in Ops, Before(shop, o) \subseteq DOMAIN plan
  PROVE  /\ Earliest(o) \in Nat /\ \A t \in shop.release[o] : t <= Earliest(o)
         /\ \A q \in Before(shop, o) : plan[q].to + Lag(o, q) <= Earliest(o)
<1> DEFINE usual == IF o \in shop.urgent THEN 0 ELSE shop.old[o].from
           delayed == usual + (IF o \in shop.affected THEN shop.delay ELSE 0)
           f == [q \in Before(shop, o) |-> plan[q].to + Lag(o, q)]
           S == {delayed} \cup shop.release[o] \cup {f[q] : q \in Before(shop, o)}
<1>1. IsShop(shop) /\ IsFiniteSet(Ops) /\ shop \in Readings
  BY ShopFacts DEF PlanOK
<1>2. \A q \in Before(shop, o) : f[q] \in Int
  BY <1>1, LagFacts DEF PlanOK
<1>3. delayed \in Nat /\ shop.release[o] \subseteq Nat /\ IsFiniteSet(shop.release[o])
  BY <1>1 DEF IsShop, Common
<1>4. IsFiniteSet(S)
  <2>1. IsFiniteSet(Before(shop, o))
    BY <1>1, FS_Subset DEF PlanOK
  <2>2. DOMAIN f = Before(shop, o)
    OBVIOUS
  <2> HIDE DEF f, delayed
  <2>3. IsFiniteSet({f[q] : q \in Before(shop, o)})
    BY <2>1, <2>2, FiniteValues
  <2>4. IsFiniteSet({delayed})
    BY FS_Singleton
  <2> QED  BY <2>3, <2>4, <1>3, FS_Union
<1>5. S \in SUBSET Int /\ S # {}
  <2> HIDE DEF f, delayed
  <2> QED  BY <1>2, <1>3
<1>6. Max(S) \in S /\ \A x \in S : x <= Max(S)
  <2> HIDE DEF S
  <2> QED  BY <1>4, <1>5, MaxOfFinite
<1>7. Earliest(o) = Max(S)
  BY DEF Earliest
<1>8. /\ Earliest(o) \in Int /\ delayed <= Earliest(o)
      /\ \A t \in shop.release[o] : t <= Earliest(o)
      /\ \A q \in Before(shop, o) : f[q] <= Earliest(o)
  <2>1. delayed \in S /\ shop.release[o] \subseteq S /\ \A q \in Before(shop, o) : f[q] \in S
    OBVIOUS
  <2> HIDE DEF S, f, delayed
  <2> QED  BY <2>1, <1>5, <1>6, <1>7
<1> QED  BY <1>3, <1>8

LEMMA LatestFacts ==
  ASSUME PlanOK, NEW o \in Ops, Fixed(shop) \subseteq DOMAIN plan
  PROVE  /\ Latest(o) \in Nat /\ Latest(o) <= Horizon
         /\ \A t \in shop.due[o] : Latest(o) <= t
         /\ \A q \in Fixed(shop) : o \in Before(shop, q) => Latest(o) <= plan[q].from
<1> DEFINE later == {x \in Fixed(shop) : o \in Before(shop, x)}
           S == {Horizon} \cup shop.due[o] \cup {plan[q].from : q \in later}
<1>1. IsShop(shop) /\ Horizon \in Nat
  BY ShopFacts, SsgsConstants DEF PlanOK
<1>2. S \in SUBSET Nat /\ S # {}
  BY <1>1 DEF IsShop, Common, PlanOK
<1>3. Min(S) \in S /\ \A x \in S : Min(S) <= x
  <2> HIDE DEF S
  <2> QED  BY <1>2, MinOfNat
<1>4. Latest(o) = Min(S)
  BY DEF Latest
<1> QED  BY <1>2, <1>3, <1>4

\* A place that was found, and the plan with it.
Found(o, c) ==
  /\ c.on \in Tried(o) /\ c.on \in Machines
  /\ c.to = c.from + shop.length[o][c.on] /\ c.from >= Earliest(o)
  /\ Suits(o, c.on, Latest(o), c.from)

LEMMA PlaceFound ==
  ASSUME OrderInv, PlanOK, NEW o \in ready, Place(o)
  PROVE  /\ PlanOK' /\ shop' = shop /\ shop \in Readings
         /\ o \in Scope(shop) \ DOMAIN plan /\ o \in Ops
         /\ Before(shop, o) \subseteq DOMAIN plan /\ {} \notin shop.materials[o]
         /\ DOMAIN plan' = DOMAIN plan \cup {o}
         /\ \A x \in DOMAIN plan : x # o /\ plan'[x] = plan[x]
         /\ Found(o, plan'[o])
         /\ plan'[o].from \in Nat /\ plan'[o].to \in Int
         /\ shop.length[o][plan'[o].on] \in Nat \ {0}
<1>1. /\ shop' = shop /\ shop \in Readings /\ o \in Scope(shop) \ DOMAIN plan
      /\ Before(shop, o) \subseteq DOMAIN plan /\ {} \notin shop.materials[o]
      /\ Fixed(shop) \subseteq DOMAIN plan
  BY DEF OrderInv, Place, Blocked, Lacks
<1>2. o \in Ops /\ IsShop(shop)
  BY <1>1, ShopFacts
<1> PICK machines \in SUBSET Tried(o) : \E c \in Candidates(o, machines) :
       plan' = [x \in DOMAIN plan \cup {o} |-> IF x = o THEN c ELSE plan[x]]
  BY PlaceAdds
<1>3. PICK c \in Candidates(o, machines) :
        plan' = [x \in DOMAIN plan \cup {o} |-> IF x = o THEN c ELSE plan[x]]
  OBVIOUS
<1> PICK m \in machines : \E t \in Slot(o, m, Earliest(o), Latest(o)) :
       c = [on |-> m, from |-> t, to |-> t + shop.length[o][m]]
  BY DEF Candidates
<1>4. PICK t \in Slot(o, m, Earliest(o), Latest(o)) :
        c = [on |-> m, from |-> t, to |-> t + shop.length[o][m]]
  OBVIOUS
<1>5. Earliest(o) \in Nat /\ Latest(o) \in Int
  <2>1. Earliest(o) \in Nat
    BY <1>1, <1>2, EarliestFacts
  <2>2. Latest(o) \in Nat
    BY <1>1, <1>2, LatestFacts
  <2> QED  BY <2>1, <2>2
<1>7. m \in Tried(o) /\ m \in Machines
  <2>1. m \in Tried(o)
    OBVIOUS
  <2>2. shop.eligible[o] \subseteq Machines /\ shop.old[o].on \in Machines
    BY <1>2 DEF IsShop, Common
  <2> QED  BY <2>1, <2>2 DEF Tried
<1>6. Suits(o, m, Latest(o), t) /\ t >= Earliest(o)
  BY <1>2, <1>5, <1>4, <1>7, SlotSuits
<1>8. shop.length[o][m] \in Nat \ {0}
  BY <1>2, <1>7 DEF IsShop, Common
<1>9. Found(o, c) /\ c \in [on : Machines, from : Nat, to : Int]
  BY <1>4, <1>6, <1>7, <1>8 DEF Found, Suits
<1>10. plan'[o] = c /\ \A x \in DOMAIN plan : x # o /\ plan'[x] = plan[x]
  BY <1>1, <1>3
<1>11. DOMAIN plan' = DOMAIN plan \cup {o}
  BY <1>3
<1>12. PlanOK'
  BY <1>1, <1>2, <1>3, <1>9, <1>10, <1>11 DEF PlanOK
<1> QED  BY <1>1, <1>2, <1>4, <1>8, <1>9, <1>10, <1>11, <1>12

\* A clear start shares its machine with nothing.
LEMMA ClearIsAlone ==
  ASSUME PlanOK, NEW o \in Ops, NEW m \in Machines, NEW t \in Nat, Clear(o, m, t),
         NEW x \in Intervals(m)
  PROVE  x.to <= t \/ t + shop.length[o][m] <= x.from
<1>1. /\ x.from \in Int /\ x.to \in Int /\ Setup(shop, x.family, shop.family[o]) \in Nat
  BY IntervalFacts
<1>2. CASE x.to + Setup(shop, x.family, shop.family[o]) <= t
  BY <1>1, <1>2
<1>3. ASSUME NEW iv \in Intervals(m), GapFits(o, m, t, iv), ~Precedes(x, iv)
      PROVE  t + shop.length[o][m] <= x.from
  <2>1. iv.from \in Int /\ Setup(shop, shop.family[o], iv.family) \in Nat
    BY IntervalFacts
  <2>2. shop.length[o][m] \in Nat
    BY ShopFacts DEF PlanOK, IsShop, Common
  <2>3. ~(x.from < iv.from)
    BY <1>3 DEF Precedes
  <2> QED  BY <1>1, <1>3, <2>1, <2>2, <2>3 DEF GapFits
<1> QED  BY <1>2, <1>3 DEF Clear

\* So what was found overlaps no operation and no window.
LEMMA FoundIsAlone ==
  ASSUME PlanOK, NEW o \in Ops, NEW c, Found(o, c)
  PROVE  /\ \A q \in DOMAIN plan : ~Overlap(c, plan[q]) /\ ~Overlap(plan[q], c)
         /\ \A w \in shop.calendar : ~Overlap(c, w)
<1>1. /\ c.on \in Machines /\ c.from \in Nat /\ Clear(o, c.on, c.from) /\ c.to = c.from + shop.length[o][c.on]
  BY DEF Found, Suits
<1>2. shop.length[o][c.on] \in Nat
  BY <1>1, ShopFacts DEF PlanOK, IsShop, Common
<1>3. ASSUME NEW q \in DOMAIN plan, plan[q].on = c.on
      PROVE  plan[q].to <= c.from \/ c.to <= plan[q].from
  <2> DEFINE x == [by |-> q, from |-> plan[q].from, to |-> plan[q].to,
                   family |-> shop.family[q]]
  <2>1. x \in Intervals(c.on)
    BY <1>3 DEF Intervals
  <2>2. x.to <= c.from \/ c.from + shop.length[o][c.on] <= x.from
    <3> HIDE DEF x
    <3> QED  BY <1>1, <2>1, ClearIsAlone
  <2> QED  BY <2>2, <1>1
<1>4. ASSUME NEW w \in shop.calendar, w.on = c.on
      PROVE  w.to <= c.from \/ c.to <= w.from
  <2> DEFINE x == [by |-> None, from |-> w.from, to |-> w.to, family |-> None]
  <2>1. x \in Intervals(c.on)
    BY <1>4 DEF Intervals
  <2>2. x.to <= c.from \/ c.from + shop.length[o][c.on] <= x.from
    <3> HIDE DEF x
    <3> QED  BY <1>1, <2>1, ClearIsAlone
  <2> QED  BY <2>2, <1>1
<1>5. \A w \in shop.calendar : w.from \in Int /\ w.to \in Int
  BY ShopFacts DEF PlanOK, IsShop, Common
<1>6. ASSUME NEW q \in DOMAIN plan
      PROVE  ~Overlap(c, plan[q]) /\ ~Overlap(plan[q], c)
  <2>1. plan[q].from \in Int /\ plan[q].to \in Int
    BY DEF PlanOK
  <2> QED  BY <1>1, <1>2, <1>3, <2>1 DEF Overlap
<1>7. ASSUME NEW w \in shop.calendar PROVE ~Overlap(c, w)
  BY <1>1, <1>2, <1>4, <1>5 DEF Overlap
<1> QED  BY <1>6, <1>7
-----------------------------------------------------------------------------
(* Nothing that was placed is disturbed *)

\* The uses of a tool or skill are uses, and an operation that is placed adds
\* its own if it needs the tool.
LEMMA ToolUses ==
  ASSUME NEW s, IsShop(s), IsFiniteSet(Ops), NEW p, DOMAIN p \subseteq Ops,
         p \in [DOMAIN p -> [on : Machines, from : Nat, to : Int]], NEW r
  PROVE  AreUses(ResourceUses(s, p, r))
<1> DEFINE mine == {x \in DOMAIN p : r \in s.needs[x]}
           out == {x \in s.outages : x.of = r}
           f == [o \in mine |-> [by |-> o, from |-> p[o].from, to |-> p[o].to, amount |-> 1]]
           g == [w \in out |-> [by |-> w, from |-> w.from, to |-> w.to, amount |-> w.amount]]
<1>1. IsFiniteSet(mine) /\ IsFiniteSet(out)
  BY FS_Subset DEF IsShop, Common
<1>2. DOMAIN f = mine /\ DOMAIN g = out
  OBVIOUS
<1>3. IsFiniteSet({f[x] : x \in mine}) /\ IsFiniteSet({g[x] : x \in out})
  <2> HIDE DEF f, g, mine, out
  <2> QED  BY <1>1, <1>2, FiniteValues
<1>4. ResourceUses(s, p, r) = {f[x] : x \in mine} \cup {g[x] : x \in out}
  BY DEF ResourceUses
<1>5. IsFiniteSet(ResourceUses(s, p, r))
  <2> HIDE DEF f, g, mine, out
  <2>1. IsFiniteSet({f[x] : x \in mine} \cup {g[x] : x \in out})
    BY <1>3, FS_Union
  <2> QED  BY <2>1, <1>4
<1>6. ASSUME NEW u \in ResourceUses(s, p, r)
      PROVE  u.from \in Int /\ u.to \in Int /\ u.amount \in Nat
  <2>1. CASE \E x \in mine : u = f[x]
    BY <2>1
  <2>2. CASE \E x \in out : u = g[x]
    BY <2>2 DEF IsShop, Common
  <2> QED  BY <2>1, <2>2, <1>4, <1>6
<1> QED  BY <1>5, <1>6 DEF AreUses

UseOf(o, c) == [by |-> o, from |-> c.from, to |-> c.to, amount |-> 1]

LEMMA MoreToolUses ==
  ASSUME OrderInv, PlanOK, NEW o \in ready, Place(o), NEW r
  PROVE  ResourceUses(shop, plan', r) =
           IF r \in shop.needs[o]
           THEN ResourceUses(shop, plan, r) \cup {UseOf(o, plan'[o])}
           ELSE ResourceUses(shop, plan, r)
<1> DEFINE out == {[by |-> w, from |-> w.from, to |-> w.to, amount |-> w.amount] :
                     w \in {x \in shop.outages : x.of = r}}
           Uses(p) == {[by |-> q, from |-> p[q].from, to |-> p[q].to, amount |-> 1] :
                         q \in {x \in DOMAIN p : r \in shop.needs[x]}}
<1>1. /\ DOMAIN plan' = DOMAIN plan \cup {o} /\ o \notin DOMAIN plan
      /\ \A x \in DOMAIN plan : x # o /\ plan'[x] = plan[x]
  BY PlaceFound
<1>2. Uses(plan') = Uses(plan) \cup (IF r \in shop.needs[o] THEN {UseOf(o, plan'[o])} ELSE {})
  BY <1>1 DEF UseOf
<1>3. \A p : ResourceUses(shop, p, r) = Uses(p) \cup out
  BY DEF ResourceUses
<1> HIDE DEF Uses, out
<1> QED  BY <1>2, <1>3

\* At each minute of a use that there is capacity for, and at each other one at
\* which the others kept to it, the load is within the capacity.
LEMMA LoadWithMore ==
  ASSUME NEW uses, AreUses(uses), NEW cap \in Int, NEW t \in Int,
         NEW u, u.from \in Int, u.to \in Int, u.amount \in Nat,
         HasCapacity(uses, cap, u.amount, u.from, u.to),
         ActiveAt(u, t) \/ Load(uses, t) <= cap
  PROVE  Load(uses \cup {u}, t) <= cap
<1>1. /\ AreUses(uses \cup {u})
      /\ Load(uses \cup {u}, t) <= Load(uses, t) + u.amount
      /\ ~ActiveAt(u, t) => Load(uses \cup {u}, t) = Load(uses, t)
  BY LoadOfMore
<1>2. Load(uses, t) \in Nat /\ Load(uses \cup {u}, t) \in Nat
  BY <1>1, LoadType
<1>3. CASE ActiveAt(u, t)
  <2>1. t \in u.from..(u.to - 1)
    BY <1>3 DEF ActiveAt
  <2>2. Load(uses, t) + u.amount <= cap
    BY <2>1 DEF HasCapacity
  <2> QED  BY <1>1, <1>2, <2>2
<1>4. CASE ~ActiveAt(u, t)
  BY <1>1, <1>4
<1> QED  BY <1>3, <1>4

LEMMA FitsWithMore ==
  ASSUME NEW uses, AreUses(uses), NEW cap \in Int, Fits(uses, cap),
         NEW u, u.from \in Int, u.to \in Int, u.amount \in Nat,
         HasCapacity(uses, cap, u.amount, u.from, u.to)
  PROVE  Fits(uses \cup {u}, cap)
<1> SUFFICES ASSUME NEW v \in uses \cup {u}, v.to > v.from
             PROVE  Load(uses \cup {u}, v.from) <= cap
  BY DEF Fits
<1>1. v.from \in Int /\ v.to \in Int
  BY DEF AreUses
<1>2. v = u => ActiveAt(u, v.from)
  BY <1>1 DEF ActiveAt
<1>3. v \in uses => Load(uses, v.from) <= cap
  BY DEF Fits
<1> QED  BY <1>1, <1>2, <1>3, LoadWithMore

\* What holds of the plan in the times that the search reads, exactly.
Stays == \A q \in Fixed(shop) : plan[q] = shop.old[q]

Bounded(o) == plan[o].from < plan[o].to /\ plan[o].to <= Horizon

Apart(o) ==
  /\ \A q \in DOMAIN plan \ {o} : ~Overlap(plan[o], plan[q])
  /\ \A w \in shop.calendar : ~Overlap(plan[o], w)

InTurn(o) ==
  /\ \A q \in Before(shop, o) : plan[q].to + Lag(o, q) <= plan[o].from
  /\ \A q \in Fixed(shop) : o \in Before(shop, q) => plan[o].to <= plan[q].from

FitsAsRead ==
  \A o \in Ops : InScope(o) => Bounded(o) /\ Apart(o) /\ InTurn(o) /\ Tooled(o)

FitInv == OrderInv /\ PlanOK /\ Stays /\ FitsAsRead

LEMMA FitInit == Init => FitInv
<1> SUFFICES ASSUME Init PROVE FitInv
  OBVIOUS
<1>1. OrderInv
  BY OrderInit
<1>2. /\ shop \in Readings /\ IsShop(shop) /\ plan = [o \in Fixed(shop) |-> shop.old[o]]
      /\ Fixed(shop) \cup Scope(shop) = Ops /\ Fixed(shop) \cap Scope(shop) = {}
  BY ShopFacts DEF Init, Readings
<1>3. PlanOK
  BY <1>2 DEF PlanOK, IsShop, Common
<1>4. FitsAsRead
  BY <1>2 DEF FitsAsRead, InScope
<1>5. Stays
  BY <1>2 DEF Stays
<1> QED  BY <1>1, <1>3, <1>4, <1>5 DEF FitInv

LEMMA FitPlace ==
  ASSUME FitInv, NEW o \in ready, Place(o)
  PROVE  FitInv'
<1>1. OrderInv /\ PlanOK /\ Stays /\ FitsAsRead /\ OrderInv'
  BY OrderPlace DEF FitInv
<1>2. /\ PlanOK' /\ shop' = shop /\ shop \in Readings
      /\ o \in Scope(shop) \ DOMAIN plan /\ o \in Ops
      /\ Before(shop, o) \subseteq DOMAIN plan
      /\ DOMAIN plan' = DOMAIN plan \cup {o}
      /\ \A x \in DOMAIN plan : x # o /\ plan'[x] = plan[x]
      /\ Found(o, plan'[o])
      /\ plan'[o].from \in Nat /\ plan'[o].to \in Int
      /\ shop.length[o][plan'[o].on] \in Nat \ {0}
  BY <1>1, PlaceFound
<1>3. IsShop(shop) /\ IsFiniteSet(Ops) /\ Fixed(shop) \subseteq DOMAIN plan
  BY <1>1, <1>2, ShopFacts DEF OrderInv
<1>4. /\ \A q \in DOMAIN plan : ~Overlap(plan'[o], plan[q]) /\ ~Overlap(plan[q], plan'[o])
      /\ \A w \in shop.calendar : ~Overlap(plan'[o], w)
  BY <1>1, <1>2, FoundIsAlone
<1>5. \A a, b : Lag(a, b)' = Lag(a, b)
  BY <1>2 DEF Lag
<1>6. ASSUME NEW x \in Ops, x \in Scope(shop) \cap DOMAIN plan'
      PROVE  Bounded(x)' /\ Apart(x)' /\ InTurn(x)' /\ Tooled(x)'
  <2>1. CASE x # o
    <3>1. x \in DOMAIN plan /\ Bounded(x) /\ Apart(x) /\ InTurn(x) /\ Tooled(x)
          /\ Before(shop, x) \subseteq DOMAIN plan
      BY <1>1, <1>2, <1>6, <2>1 DEF FitsAsRead, InScope, OrderInv
    <3>2. Apart(x)'
      BY <3>1, <2>1, <1>2, <1>4 DEF Apart
    <3>3. InTurn(x)'
      BY <3>1, <1>2, <1>3, <1>5 DEF InTurn
    <3>4. Tooled(x)'
      <4> SUFFICES ASSUME NEW r \in shop.needs[x],
                          NEW t \in plan[x].from..(plan[x].to - 1)
                   PROVE  Load(ResourceUses(shop, plan', r), t) <= shop.capacity[r]
        BY <1>2, <3>1 DEF Tooled
      <4>1. Load(ResourceUses(shop, plan, r), t) <= shop.capacity[r]
        BY <3>1 DEF Tooled
      <4>2. CASE r \notin shop.needs[o]
        BY <4>1, <4>2, <1>1, MoreToolUses
      <4>3. CASE r \in shop.needs[o]
        <5> DEFINE u == UseOf(o, plan'[o])
        <5>1. ResourceUses(shop, plan', r) = ResourceUses(shop, plan, r) \cup {u}
          BY <4>3, <1>1, MoreToolUses
        <5>2. AreUses(ResourceUses(shop, plan, r))
          BY <1>1, <1>3, ToolUses DEF PlanOK
        <5>3. /\ u.from = plan'[o].from /\ u.to = plan'[o].from + shop.length[o][plan'[o].on]
              /\ u.amount = 1
          BY <1>2 DEF UseOf, Found
        <5>4. HasCapacity(ResourceUses(shop, plan, r), shop.capacity[r], u.amount, u.from, u.to)
          BY <5>3, <4>3, <1>2 DEF Found, Suits, HasTools
        <5>5. /\ t \in Int /\ shop.capacity[r] \in Int /\ u.from \in Int /\ u.to \in Int
              /\ u.amount \in Nat
          BY <1>1, <1>2, <1>3, <3>1, <5>3 DEF PlanOK, IsShop, Common
        <5> HIDE DEF u
        <5> QED  BY <5>1, <5>2, <5>3, <5>4, <5>5, <4>1, LoadWithMore
      <4> QED  BY <4>2, <4>3
    <3>5. Bounded(x)'
      BY <3>1, <1>2 DEF Bounded
    <3> QED  BY <3>2, <3>3, <3>4, <3>5
  <2>2. CASE x = o
    <3>1. Apart(o)'
      BY <1>2, <1>4 DEF Apart
    <3>2. InTurn(o)'
      <4>1. \A q \in Before(shop, o) : plan[q].to + Lag(o, q) <= Earliest(o)
            /\ Earliest(o) \in Nat
        BY <1>1, <1>2, EarliestFacts
      <4>2. plan'[o].from >= Earliest(o)
        BY <1>2 DEF Found
      <4>3. ASSUME NEW q \in Before(shop, o)
            PROVE  plan'[q].to + Lag(o, q)' <= plan'[o].from
        <5>1. plan'[q] = plan[q] /\ plan[q].to \in Int /\ Lag(o, q) \in Nat
          BY <1>1, <1>2, LagFacts DEF PlanOK
        <5> QED  BY <4>1, <4>2, <5>1, <1>2, <1>5
      <4>4. ASSUME NEW q \in Fixed(shop), o \in Before(shop, q)
            PROVE  plan'[o].to <= plan'[q].from
        <5>1. Latest(o) \in Nat /\ Latest(o) <= plan[q].from
          BY <4>4, <1>1, <1>2, <1>3, LatestFacts
        <5>2. plan'[o].to <= Latest(o)
          BY <1>2 DEF Found, Suits
        <5>3. plan'[q] = plan[q] /\ plan[q].from \in Nat
          BY <1>1, <1>2, <1>3 DEF PlanOK
        <5> QED  BY <5>1, <5>2, <5>3, <1>2
      <4> QED  BY <4>3, <4>4, <1>2 DEF InTurn
    <3>3. Tooled(o)'
      <4> SUFFICES ASSUME NEW r \in shop.needs[o],
                          NEW t \in plan'[o].from..(plan'[o].to - 1)
                   PROVE  Load(ResourceUses(shop, plan', r), t) <= shop.capacity[r]
        BY <1>2 DEF Tooled
      <4> DEFINE u == UseOf(o, plan'[o])
      <4>1. ResourceUses(shop, plan', r) = ResourceUses(shop, plan, r) \cup {u}
        BY <1>1, MoreToolUses
      <4>2. AreUses(ResourceUses(shop, plan, r))
        BY <1>1, <1>3, ToolUses DEF PlanOK
      <4>3. /\ u.from = plan'[o].from /\ u.to = plan'[o].from + shop.length[o][plan'[o].on]
            /\ u.amount = 1
        BY <1>2 DEF UseOf, Found
      <4>4. HasCapacity(ResourceUses(shop, plan, r), shop.capacity[r], u.amount, u.from, u.to)
        BY <4>3, <1>2 DEF Found, Suits, HasTools
      <4>5. /\ t \in Int /\ shop.capacity[r] \in Int /\ u.from \in Int /\ u.to \in Int
            /\ u.amount \in Nat
        BY <1>2, <1>3, <4>3 DEF IsShop, Common
      <4>6. ActiveAt(u, t)
        BY <4>3, <4>5, <1>2 DEF ActiveAt, Found
      <4> HIDE DEF u
      <4> QED  BY <4>1, <4>2, <4>4, <4>5, <4>6, LoadWithMore
    <3>4. Bounded(o)'
      <4>1. Latest(o) \in Nat /\ Latest(o) <= Horizon /\ Horizon \in Nat
        BY <1>1, <1>2, <1>3, LatestFacts, SsgsConstants
      <4>2. /\ plan'[o].to = plan'[o].from + shop.length[o][plan'[o].on]
            /\ plan'[o].to <= Latest(o)
        BY <1>2 DEF Found, Suits
      <4> QED  BY <4>1, <4>2, <1>2 DEF Bounded
    <3> QED  BY <2>2, <3>1, <3>2, <3>3, <3>4
  <2> QED  BY <2>1, <2>2
<1>7. FitsAsRead'
  BY <1>2, <1>6 DEF FitsAsRead, InScope
<1>8. Stays'
  BY <1>1, <1>2, <1>3 DEF Stays, Fixed, Scope, Downstream, Grown
<1> QED  BY <1>1, <1>2, <1>7, <1>8 DEF FitInv

\* Whatever ends the search leaves the plan as it is.
LEMMA EndsLeavePlan ==
  /\ \A o : Fail(o) => UNCHANGED <<snap, shop, plan, stocked>>
  /\ Finish \/ TimeOut \/ UNCHANGED vars => UNCHANGED <<snap, shop, plan, stocked>>
BY DEF Fail, Finish, TimeOut, Return, vars

LEMMA FitNext == FitInv /\ [Next]_vars => FitInv'
<1> SUFFICES ASSUME FitInv, [Next]_vars PROVE FitInv'
  OBVIOUS
<1>1. ASSUME NEW o \in ready, Place(o) PROVE FitInv'
  BY <1>1, FitPlace
<1>2. ASSUME UNCHANGED <<snap, shop, plan, stocked>> PROVE FitInv'
  <2>1. OrderInv'
    BY OrderNext DEF FitInv
  <2>2. PlanOK'
    BY <1>2 DEF FitInv, PlanOK
  <2>3. FitsAsRead'
    BY <1>2 DEF FitInv, FitsAsRead, InScope, Bounded, Apart, InTurn, Tooled, Lag
  <2>4. Stays'
    BY <1>2 DEF FitInv, Stays
  <2> QED  BY <2>1, <2>2, <2>3, <2>4 DEF FitInv
<1> QED  BY <1>1, <1>2, EndsLeavePlan DEF Next

\* An exact time is less than a minute after the one that is read.
LEMMA BuiltFacts ==
  ASSUME FitInv, NEW q \in DOMAIN plan
  PROVE  /\ q \in Scope(shop) => Built[q] = plan[q]
         /\ q \in Fixed(shop) => /\ Built[q].on = plan[q].on /\ Built[q].from >= plan[q].from
                                 /\ Built[q].to < plan[q].to + Minute
         /\ Built[q].from \in Int /\ Built[q].to \in Int
         /\ plan[q].from \in Nat /\ plan[q].to \in Int
<1>1. /\ snap \in Shops /\ shop = SearchView(snap) /\ IsSnapshot(snap)
      /\ q \in Ops /\ Fixed(shop) \cap Scope(shop) = {} /\ Fixed(shop) \cup Scope(shop) = Ops
      /\ plan[q].from \in Nat /\ plan[q].to \in Int
  BY ShopFacts, SsgsConstants DEF FitInv, OrderInv, PlanOK
<1>2. CASE q \in Scope(shop)
  BY <1>1, <1>2 DEF Built
<1>3. CASE q \in Fixed(shop)
  <2>1. Built[q] = snap.old[q] /\ plan[q] = shop.old[q]
    BY <1>3 DEF Built, FitInv, Stays
  <2>2. shop.old[q] = [on |-> snap.old[q].on, from |-> Floor(snap.old[q].from),
                       to |-> Floor(snap.old[q].to)]
    <3>1. Reads(snap, shop)
      BY <1>1, ReadingFields
    <3>2. shop.old = [x \in Ops |-> [on |-> snap.old[x].on, from |-> Floor(snap.old[x].from),
                                    to |-> Floor(snap.old[x].to)]]
      BY <3>1 DEF Reads
    <3> QED  BY <3>2, <1>1
  <2>3. snap.old[q].from \in Nat /\ snap.old[q].to \in Nat
    <3>1. snap.old \in [Ops -> [on : Machines, from : Nat, to : Nat]]
      BY <1>1 DEF IsSnapshot
    <3> QED  BY <3>1, <1>1
  <2>4. /\ Floor(snap.old[q].from) <= snap.old[q].from
        /\ snap.old[q].to < Floor(snap.old[q].to) + Minute
    BY <2>3, FloorFacts
  <2> QED  BY <1>1, <1>3, <2>1, <2>2, <2>3, <2>4
<1> QED  BY <1>1, <1>2, <1>3

\* A window of the validator is one that the search keeps clear, short of a
\* minute, for what it places within the horizon.
LEMMA WindowFacts ==
  ASSUME FitInv, NEW o \in DOMAIN plan, Bounded(o),
         \A v \in shop.calendar : ~Overlap(plan[o], v),
         NEW w \in JudgeView(snap).calendar
  PROVE  ~Collide(plan[o], w)
<1>1. /\ IsSnapshot(snap) /\ Horizon \in Nat /\ Minute \in Nat \ {0}
      /\ plan[o].from \in Nat /\ plan[o].to \in Int
      /\ shop = SearchView(snap)
  BY SsgsConstants, TimeConstants DEF FitInv, OrderInv, PlanOK
<1>2. shop.calendar = Shortened(snap.calendar) /\ JudgeView(snap).calendar = Real(snap.calendar)
  BY <1>1, ReadingFields DEF Reads, Judges
<1>3. /\ w \in snap.calendar /\ w.from \in Int /\ w.to \in Int /\ w.from < w.to
      /\ "on" \in DOMAIN w \ {"from", "to"}
  <2>1. w \in snap.calendar /\ None \notin {w.from, w.to} /\ w.from < w.to
    BY <1>2 DEF Real
  <2>2. {w.from, w.to} \subseteq Times /\ "on" \in DOMAIN w
    BY <1>1, <2>1 DEF IsSnapshot
  <2> QED  BY <2>1, <2>2 DEF Times
<1>4. /\ Clip(w.from) \in Nat /\ Clip(w.to) \in Nat
      /\ w.to < Clip(w.to) + Minute /\ (w.from >= 0 => Clip(w.from) <= w.from)
      /\ (w.from < 0 => Clip(w.from) = 0)
  BY <1>3, ClipFacts DEF Times
<1> SUFFICES ASSUME plan[o].on = w.on, plan[o].from + Minute <= w.to,
                    w.from + Minute <= plan[o].to, w.from + Minute <= w.to
             PROVE  FALSE
  BY DEF Collide
<1>5. CASE Clip(w.from) < Clip(w.to)
  <2>1. PICK v \in Shortened(snap.calendar) :
          /\ v.from = Clip(w.from) /\ v.to = Min({Clip(w.to), Horizon})
          /\ v.on = w.on
    <3> DEFINE W == snap.calendar
    <3>1. /\ IsFiniteSet(W) /\ w \in W
          /\ \A x \in W : {"from", "to"} \subseteq DOMAIN x /\ {x.from, x.to} \subseteq Times
      BY <1>1, <1>3 DEF IsSnapshot
    <3> HIDE DEF W
    <3>2. \E v \in Shortened(W) :
            /\ v.from = Clip(w.from) /\ v.to = Min({Clip(w.to), Horizon})
            /\ \A k \in DOMAIN w \ {"from", "to"} : v[k] = w[k]
      BY <3>1, <1>1, <1>5, ShortenedFacts
    <3> QED  BY <3>2, <1>3 DEF W
  <2>2. v.to \in Nat /\ (v.to = Clip(w.to) \/ v.to = Horizon)
    <3> DEFINE M == {Clip(w.to), Horizon}
    <3>1. M \in SUBSET Nat /\ M # {}
      BY <1>1, <1>4
    <3>2. Min(M) \in M
      <4> HIDE DEF M
      <4> QED  BY <3>1, MinOfNat
    <3> QED  BY <3>1, <3>2, <2>1
  <2>3. plan[o].to <= v.from \/ v.to <= plan[o].from
    BY <2>1, <2>2, <1>1, <1>2, <1>4 DEF Overlap
  <2> QED  BY <2>1, <2>2, <2>3, <1>1, <1>3, <1>4 DEF Bounded
<1>6. CASE Clip(w.to) <= Clip(w.from)
  BY <1>1, <1>3, <1>4, <1>6 DEF Bounded
<1> QED  BY <1>4, <1>5, <1>6

\* PlacedFits: whatever is inserted into gaps later, what was placed keeps its
\* machine, its order and its tools, up to the minute that reading a time costs.
THEOREM PlacedStaysFit == Spec => []PlacedFits
<1>1. FitInv => PlacedFits
  <2> SUFFICES ASSUME FitInv, NEW o \in Ops, InScope(o)
               PROVE  Alone(o) /\ Sequenced(o) /\ Tooled(o)
    BY DEF PlacedFits
  <2>1. /\ o \in DOMAIN plan /\ o \in Scope(shop) /\ Minute \in Nat \ {0}
        /\ Bounded(o) /\ Apart(o) /\ InTurn(o) /\ Tooled(o)
        /\ shop \in Readings /\ DOMAIN plan \subseteq Ops
        /\ Before(shop, o) \subseteq DOMAIN plan /\ Fixed(shop) \subseteq DOMAIN plan
        /\ Fixed(shop) \cup Scope(shop) = Ops
    BY ShopFacts, TimeConstants DEF FitInv, FitsAsRead, InScope, OrderInv
  <2>2. plan[o].from \in Nat /\ plan[o].to \in Int
    BY <2>1, BuiltFacts
  <2>3. Alone(o)
    <3>1. ASSUME NEW q \in DOMAIN plan \ {o}, q \in Fixed(shop)
          PROVE  ~Collide(plan[o], Built[q])
      <4>1. ~Overlap(plan[o], plan[q])
        BY <2>1 DEF Apart
      <4>2. /\ Built[q].on = plan[q].on /\ Built[q].from >= plan[q].from
            /\ Built[q].to < plan[q].to + Minute
            /\ Built[q].from \in Int /\ Built[q].to \in Int
            /\ plan[q].from \in Nat /\ plan[q].to \in Int
        BY <3>1, BuiltFacts
      <4> QED  BY <4>1, <4>2, <2>1, <2>2 DEF Overlap, Collide
    <3>2. \A w \in JudgeView(snap).calendar : ~Collide(plan[o], w)
      BY <2>1, WindowFacts DEF Apart
    <3>3. \A q \in DOMAIN plan \ {o} : InScope(q) => ~Overlap(plan[o], plan[q])
      BY <2>1 DEF Apart
    <3>4. \A q \in DOMAIN plan : ~InScope(q) => q \in Fixed(shop)
      BY <2>1 DEF InScope
    <3> QED  BY <3>1, <3>2, <3>3, <3>4 DEF Alone
  <2>4. Sequenced(o)
    <3>1. ASSUME NEW q \in Before(shop, o)
          PROVE  IF InScope(q) THEN Built[q].to + Lag(o, q) <= plan[o].from
                 ELSE Built[q].to + Lag(o, q) < plan[o].from + Minute
      <4>1. plan[q].to + Lag(o, q) <= plan[o].from
        BY <2>1 DEF InTurn
      <4>2. /\ q \in Scope(shop) => Built[q] = plan[q]
            /\ q \in Fixed(shop) => Built[q].to < plan[q].to + Minute
            /\ Built[q].to \in Int /\ plan[q].to \in Int
        BY <2>1, BuiltFacts
      <4>3. Lag(o, q) \in Nat
        BY <2>1, LagFacts
      <4>4. q \in Scope(shop) \/ q \in Fixed(shop)
        BY <2>1
      <4> QED  BY <4>1, <4>2, <4>3, <4>4, <2>1, <2>2 DEF InScope
    <3>2. ASSUME NEW q \in Fixed(shop), o \in Before(shop, q)
          PROVE  plan[o].to <= Built[q].from
      <4>1. plan[o].to <= plan[q].from
        BY <2>1, <3>2 DEF InTurn
      <4>2. /\ Built[q].from >= plan[q].from /\ Built[q].from \in Int
            /\ plan[q].from \in Nat
        BY <2>1, BuiltFacts
      <4> QED  BY <4>1, <4>2, <2>2
    <3> QED  BY <3>1, <3>2 DEF Sequenced
  <2> QED  BY <2>1, <2>3, <2>4
<1> QED  BY <1>1, FitInit, FitNext, PTL DEF Spec
-----------------------------------------------------------------------------
(* The validator agrees *)

\* The part of the agreement of the readers that the search itself relies on.
RowsAgree(s) ==
  /\ \A o \in Ops, m \in Machines : s.limit[m] <= s.quota[o][m]
  /\ \A o \in Ops : (s.eligible[o] \cup {s.old[o].on}) \ s.unfit[o] \subseteq s.allowed[o]
  /\ \A x \in s.trips : x.room <= s.capacity[x.lane]
  /\ \A x, y \in s.flows : x.buffer = y.buffer => x.room = y.room /\ x.wip = y.wip

LEMMA RegularRows ==
  ASSUME snap \in Shops, shop = SearchView(snap), Regular(snap)
  PROVE  Orderly(shop) /\ RowsAgree(shop)
<1>1. IsSnapshot(snap) /\ Reads(snap, shop)
  BY SsgsConstants, ReadingFields
<1>2. /\ shop.limit = snap.limit /\ shop.quota = snap.quota /\ shop.eligible = snap.eligible
      /\ shop.unfit = snap.unfit /\ shop.allowed = snap.allowed /\ shop.trips = snap.trips
      /\ shop.capacity = snap.capacity /\ shop.flows = snap.flows
      /\ \A o \in Ops : shop.old[o].on = snap.old[o].on
  BY <1>1 DEF Reads
<1>3. Orderly(shop) /\ Agree(snap, shop, JudgeView(snap))
  BY DEF Regular
<1>4. RowsAgree(shop)
  BY <1>2, <1>3 DEF Agree, RowsAgree
<1> QED  BY <1>3, <1>4

\* In a regular shop every plan on the way is valid as far as it goes, all
\* tools and skills suffice, and the flows whose interval is reserved are those
\* that have both of their ends.
RegularSoFar ==
  Regular(snap) =>
    /\ Valid(shop, plan, shop.frozen \cup Fixed(shop))
    /\ \A r \in UNION {shop.needs[o] : o \in Ops} :
         Fits(ResourceUses(shop, plan, r), shop.capacity[r])
    /\ stocked = {f \in shop.flows : {f.pred, f.succ} \subseteq DOMAIN plan}

\* A step that adds o to such a plan.
Adds(o) ==
  /\ OrderInv /\ PlanOK /\ RegularSoFar /\ Regular(snap)
  /\ o \in ready /\ Place(o)

LEMMA AddsFacts ==
  ASSUME NEW o, Adds(o)
  PROVE  /\ OrderInv /\ PlanOK /\ Place(o) /\ o \in ready
         /\ PlanOK' /\ shop' = shop /\ shop \in Readings /\ IsShop(shop) /\ IsFiniteSet(Ops)
         /\ o \in Scope(shop) \ DOMAIN plan /\ o \in Ops
         /\ Fixed(shop) \subseteq DOMAIN plan /\ DOMAIN plan \subseteq Ops
         /\ Ops = Fixed(shop) \cup Scope(shop) /\ o \notin shop.frozen
         /\ Before(shop, o) \subseteq DOMAIN plan /\ {} \notin shop.materials[o]
         /\ DOMAIN plan' = DOMAIN plan \cup {o}
         /\ \A x \in DOMAIN plan : x # o /\ plan'[x] = plan[x]
         /\ \A x \in DOMAIN plan' : x # o => x \in DOMAIN plan
         /\ \A x \in DOMAIN plan : plan[x].from \in Nat /\ plan[x].to \in Int
         /\ Found(o, plan'[o])
         /\ plan'[o].from \in Nat /\ plan'[o].to \in Int
         /\ shop.length[o][plan'[o].on] \in Nat \ {0}
         /\ Valid(shop, plan, shop.frozen \cup Fixed(shop))
         /\ Orderly(shop) /\ RowsAgree(shop)
<1>1. OrderInv /\ PlanOK /\ Place(o) /\ o \in ready
  BY DEF Adds
<1>2. /\ PlanOK' /\ shop' = shop /\ shop \in Readings
      /\ o \in Scope(shop) \ DOMAIN plan /\ o \in Ops
      /\ Before(shop, o) \subseteq DOMAIN plan /\ {} \notin shop.materials[o]
      /\ DOMAIN plan' = DOMAIN plan \cup {o}
      /\ \A x \in DOMAIN plan : x # o /\ plan'[x] = plan[x]
      /\ Found(o, plan'[o])
      /\ plan'[o].from \in Nat /\ plan'[o].to \in Int
      /\ shop.length[o][plan'[o].on] \in Nat \ {0}
  BY <1>1, PlaceFound
<1>3. /\ IsShop(shop) /\ IsFiniteSet(Ops) /\ Ops = Fixed(shop) \cup Scope(shop)
      /\ Scope(shop) \cap shop.frozen = {}
  BY <1>2, ShopFacts
<1>4. Fixed(shop) \subseteq DOMAIN plan /\ DOMAIN plan \subseteq Ops
  BY <1>1 DEF OrderInv
<1>5. \A x \in DOMAIN plan : plan[x].from \in Nat /\ plan[x].to \in Int
  BY <1>1 DEF PlanOK
<1>6. Valid(shop, plan, shop.frozen \cup Fixed(shop))
  BY DEF Adds, RegularSoFar
<1>7. Orderly(shop) /\ RowsAgree(shop)
  BY RegularRows DEF Adds, OrderInv
<1> QED  BY <1>1, <1>2, <1>3, <1>4, <1>5, <1>6, <1>7

\* The operations that o comes before: those that stay, and none that has a
\* place already.
LEMMA AddsLast ==
  ASSUME NEW o, Adds(o)
  PROVE  /\ o \notin Before(shop, o)
         /\ \A x \in DOMAIN plan : o \in Before(shop, x) => x \in Fixed(shop)
BY AddsFacts DEF OrderInv

LEMMA AddsExclusive ==
  ASSUME NEW o, Adds(o)
  PROVE  Exclusive(plan') /\ Available(shop, plan')
<1>1. /\ \A q \in DOMAIN plan : ~Overlap(plan'[o], plan[q]) /\ ~Overlap(plan[q], plan'[o])
      /\ \A w \in shop.calendar : ~Overlap(plan'[o], w)
  BY AddsFacts, FoundIsAlone
<1>2. Exclusive(plan) /\ Available(shop, plan)
  BY AddsFacts DEF Valid
<1>3. Exclusive(plan')
  <2> SUFFICES ASSUME NEW a \in DOMAIN plan', NEW b \in DOMAIN plan', a # b
               PROVE  ~Overlap(plan'[a], plan'[b])
    BY DEF Exclusive
  <2>1. /\ \A x \in DOMAIN plan : plan'[x] = plan[x]
        /\ a # o => a \in DOMAIN plan
        /\ b # o => b \in DOMAIN plan
    BY AddsFacts
  <2>2. CASE a # o /\ b # o
    BY <2>1, <2>2, <1>2 DEF Exclusive
  <2>3. CASE a = o \/ b = o
    BY <2>1, <2>3, <1>1
  <2> QED  BY <2>2, <2>3
<1>4. Available(shop, plan')
  BY <1>1, <1>2, AddsFacts DEF Available
<1> QED  BY <1>3, <1>4

LEMMA AddsInOrder ==
  ASSUME NEW o, Adds(o)
  PROVE  /\ InOrder(shop, plan') /\ InWindow(shop, plan')
         /\ \A q \in Before(shop, o) : plan[q].to + Lag(o, q) <= plan'[o].from
<1>1. /\ Earliest(o) \in Nat /\ \A t \in shop.release[o] : t <= Earliest(o)
      /\ \A q \in Before(shop, o) : plan[q].to + Lag(o, q) <= Earliest(o)
  BY AddsFacts, EarliestFacts
<1>2. /\ Latest(o) \in Nat /\ \A t \in shop.due[o] : Latest(o) <= t
      /\ \A q \in Fixed(shop) : o \in Before(shop, q) => Latest(o) <= plan[q].from
  BY AddsFacts, LatestFacts
<1>3. plan'[o].from >= Earliest(o) /\ plan'[o].to <= Latest(o)
  BY AddsFacts DEF Found, Suits
<1>4. \A q \in Before(shop, o) : Lag(o, q) \in Nat
  BY AddsFacts, LagFacts
<1>8. /\ plan'[o].from \in Nat /\ plan'[o].to \in Int
      /\ \A x \in DOMAIN plan : plan[x].from \in Nat /\ plan[x].to \in Int
      /\ Before(shop, o) \subseteq DOMAIN plan
  BY AddsFacts
<1>5. \A q \in Before(shop, o) : plan[q].to + Lag(o, q) <= plan'[o].from
  BY <1>1, <1>3, <1>4, <1>8
<1>6. InOrder(shop, plan')
  <2> SUFFICES ASSUME NEW x \in DOMAIN plan', NEW q \in Before(shop, x), q \in DOMAIN plan'
               PROVE  plan'[q].to <= plan'[x].from
    BY DEF InOrder
  <2>1. CASE x = o
    <3>1. q \in DOMAIN plan /\ plan'[q] = plan[q]
      BY <2>1, AddsFacts
    <3>2. plan[q].to + Lag(o, q) <= plan'[o].from /\ Lag(o, q) \in Nat
      BY <2>1, <1>4, <1>5
    <3> QED  BY <2>1, <3>1, <3>2, <1>8
  <2>2. CASE x # o /\ q = o
    <3>1. x \in Fixed(shop) /\ plan'[x] = plan[x] /\ x \in DOMAIN plan
      BY <2>2, AddsFacts, AddsLast
    <3>2. Latest(o) <= plan[x].from
      BY <2>2, <3>1, <1>2
    <3> QED  BY <2>2, <3>1, <3>2, <1>2, <1>3, <1>8
  <2>3. CASE x # o /\ q # o
    <3>1. InOrder(shop, plan)
      BY AddsFacts DEF Valid
    <3>2. /\ x \in DOMAIN plan /\ q \in DOMAIN plan
          /\ plan'[x] = plan[x] /\ plan'[q] = plan[q]
      BY <2>3, AddsFacts
    <3> QED  BY <3>1, <3>2 DEF InOrder
  <2> QED  BY <2>1, <2>2, <2>3
<1>7. InWindow(shop, plan')
  <2> SUFFICES ASSUME NEW x \in DOMAIN plan'
               PROVE  /\ \A t \in shop.release[x] : t <= plan'[x].from
                      /\ \A t \in shop.due[x] : plan'[x].to <= t
    BY DEF InWindow
  <2>1. CASE x = o
    <3>1. shop.release[o] \subseteq Nat /\ shop.due[o] \subseteq Nat
      BY AddsFacts DEF IsShop, Common
    <3> QED  BY <2>1, <3>1, <1>1, <1>2, <1>3, <1>8
  <2>2. CASE x # o
    <3>1. InWindow(shop, plan)
      BY AddsFacts DEF Valid
    <3> QED  BY <2>2, <3>1, AddsFacts DEF InWindow
  <2> QED  BY <2>1, <2>2
<1> QED  BY <1>5, <1>6, <1>7

\* The interval of an operation that takes time either makes way for o or lies
\* after it, behind the interval that o has to make way for.
LEMMA AddsBetween ==
  ASSUME NEW o, Adds(o), NEW q \in DOMAIN plan, plan[q].on = plan'[o].on
  PROVE  \/ plan[q].to + Setup(shop, shop.family[q], shop.family[o]) <= plan'[o].from
         \/ \E iv \in Intervals(plan'[o].on) :
              GapFits(o, plan'[o].on, plan'[o].from, iv) /\ iv.from <= plan[q].from
<1> DEFINE c == plan'[o]
           x == [by |-> q, from |-> plan[q].from, to |-> plan[q].to,
                 family |-> shop.family[q]]
<1>1. x \in Intervals(c.on)
  BY DEF Intervals
<1>2. Clear(o, c.on, c.from)
  BY AddsFacts DEF Found, Suits
<1>3. CASE x.to + Setup(shop, x.family, shop.family[o]) <= c.from
  BY <1>3
<1>4. ASSUME NEW iv \in Intervals(c.on), GapFits(o, c.on, c.from, iv), ~Precedes(x, iv)
      PROVE  iv.from <= plan[q].from
  <2>1. iv.from \in Int
    BY AddsFacts, IntervalFacts
  <2>2. ~(x.from < iv.from)
    BY <1>4 DEF Precedes
  <2>3. plan[q].from \in Nat
    BY AddsFacts
  <2> QED  BY <2>1, <2>2, <2>3
<1>5. CASE \E iv \in Intervals(c.on) : GapFits(o, c.on, c.from, iv) /\ ~Precedes(x, iv)
  BY <1>5, <1>4
<1> HIDE DEF x
<1> QED  BY <1>1, <1>2, <1>3, <1>5 DEF Clear

LEMMA AddsChangedOver ==
  ASSUME NEW o, Adds(o)
  PROVE  ChangedOver(shop, plan')
<1>1. /\ Orderly(shop) /\ Exclusive(plan')
      /\ \A x \in DOMAIN plan : plan[x].from < plan[x].to
  BY AddsFacts, AddsExclusive DEF Valid, Lasting
<1>2. \A a, b \in Ops : Setup(shop, shop.family[a], shop.family[b]) \in Nat
  BY AddsFacts DEF IsShop, Common
<1>3. plan'[o].to = plan'[o].from + shop.length[o][plan'[o].on] /\ plan'[o].from < plan'[o].to
  <2>1. plan'[o].to = plan'[o].from + shop.length[o][plan'[o].on]
    BY AddsFacts DEF Found
  <2>2. plan'[o].from \in Nat /\ shop.length[o][plan'[o].on] \in Nat \ {0}
    BY AddsFacts
  <2> QED  BY <2>1, <2>2
<1> SUFFICES ASSUME NEW a \in DOMAIN plan', NEW b \in DOMAIN plan', Follows(plan', a, b)
             PROVE  plan'[a].to + Setup(shop, shop.family[a], shop.family[b]) <= plan'[b].from
  BY DEF ChangedOver
<1>4. plan'[a].on = plan'[b].on /\ plan'[a].from < plan'[b].from
  BY DEF Follows
<1>5. CASE a # o /\ b # o
  <2>1. /\ a \in DOMAIN plan /\ b \in DOMAIN plan
        /\ plan'[a] = plan[a] /\ plan'[b] = plan[b]
    BY <1>5, AddsFacts
  <2>2. Follows(plan, a, b)
    BY <2>1, AddsFacts DEF Follows
  <2>3. ChangedOver(shop, plan)
    BY AddsFacts DEF Valid
  <2> QED  BY <2>1, <2>2, <2>3 DEF ChangedOver
<1>6. CASE b = o
  <2>1. a \in DOMAIN plan /\ plan'[a] = plan[a]
    <3>1. plan'[o].from \in Nat
      BY AddsFacts
    <3>2. a # o
      BY <3>1, <1>4, <1>6
    <3> QED  BY <3>2, AddsFacts
  <2>2. ASSUME NEW iv \in Intervals(plan'[o].on),
               GapFits(o, plan'[o].on, plan'[o].from, iv), iv.from <= plan[a].from
        PROVE  FALSE
    <3>1. iv.from \in Int /\ Setup(shop, shop.family[o], iv.family) \in Nat
      BY AddsFacts, IntervalFacts
    <3>2. /\ plan'[o].from \in Nat /\ plan'[o].to \in Int /\ plan[a].from \in Nat
          /\ shop.length[o][plan'[o].on] \in Nat
      BY <2>1, AddsFacts
    <3>3. plan'[o].to <= iv.from
      BY <2>2, <3>1, <3>2, <1>3 DEF GapFits
    <3>4. plan[a].from < plan'[o].from
      BY <2>1, <1>4, <1>6
    <3> QED  BY <3>1, <3>2, <3>3, <3>4, <2>2, <1>3
  <2> QED  BY <2>1, <2>2, <1>4, <1>6, AddsBetween
<1>7. CASE a = o /\ b # o
  <2>1. b \in DOMAIN plan /\ plan'[b] = plan[b] /\ b \in Ops
    BY <1>7, AddsFacts
  <2>2. ~(plan[b].to + Setup(shop, shop.family[b], shop.family[o]) <= plan'[o].from)
    <3>1. Setup(shop, shop.family[b], shop.family[o]) \in Nat
      BY <1>2, <2>1, AddsFacts
    <3>2. /\ plan[b].from \in Nat /\ plan[b].to \in Int /\ plan'[o].from \in Nat
      BY <2>1, AddsFacts
    <3>3. plan[b].from < plan[b].to /\ plan'[o].from < plan[b].from
      BY <2>1, <1>1, <1>4, <1>7
    <3> QED  BY <3>1, <3>2, <3>3
  <2>3. PICK iv \in Intervals(plan'[o].on) :
          GapFits(o, plan'[o].on, plan'[o].from, iv) /\ iv.from <= plan[b].from
    BY <2>1, <2>2, <1>4, <1>7, AddsBetween
  <2>4. iv.from \in Int /\ Setup(shop, shop.family[o], iv.family) \in Nat
    BY AddsFacts, IntervalFacts
  <2>5. plan'[o].to + Setup(shop, shop.family[o], iv.family) <= iv.from
    BY <2>3, <1>3 DEF GapFits
  <2>9. /\ plan'[o].from \in Nat /\ plan'[o].to \in Int
        /\ plan[b].from \in Nat /\ plan[b].to \in Int
    BY <2>1, AddsFacts
  <2>6. CASE \E w \in shop.calendar : iv.from = w.from
    <3>1. Setup(shop, shop.family[o], shop.family[b]) = 0
      BY <2>6, <2>1, <1>1, AddsFacts DEF Orderly
    <3>2. plan'[o].to <= iv.from
      BY <2>4, <2>5, <2>9
    <3>3. plan'[o].to + 0 <= plan[b].from
      BY <3>2, <2>3, <2>4, <2>9
    <3> QED  BY <3>1, <3>3, <2>1, <1>7
  <2>7. ASSUME NEW d \in DOMAIN plan, plan[d].on = plan'[o].on,
               iv.from = plan[d].from, iv.family = shop.family[d]
        PROVE  d = b
    <3>1. plan'[d] = plan[d] /\ d \in DOMAIN plan'
      BY AddsFacts
    <3>2. plan'[o].from < plan[d].from
      BY <2>4, <2>5, <2>7, <2>9, <1>3
    <3>3. ~(plan[d].from < plan[b].from)
      BY <3>1, <3>2, <2>1, <2>7, <1>4, <1>7 DEF Follows
    <3>4. plan[d].from = plan[b].from
      BY <3>3, <2>3, <2>4, <2>7, <2>9
    <3>5. plan[d].from < plan[d].to /\ plan[b].from < plan[b].to
      BY <1>1, <2>1
    <3>6. Overlap(plan'[d], plan'[b])
      BY <3>1, <3>4, <3>5, <2>1, <2>7, <1>4, <1>7 DEF Overlap
    <3> QED  BY <3>6, <3>1, <1>1 DEF Exclusive
  <2>8. CASE \E d \in DOMAIN plan :
               /\ plan[d].on = plan'[o].on
               /\ iv.from = plan[d].from /\ iv.family = shop.family[d]
    BY <2>8, <2>7, <2>1, <2>5, <1>7
  <2> QED  BY <2>6, <2>8 DEF Intervals
<1> QED  BY <1>5, <1>6, <1>7

LEMMA AddsEquipped ==
  ASSUME NEW o, Adds(o), NEW r \in UNION {shop.needs[q] : q \in Ops}
  PROVE  Fits(ResourceUses(shop, plan', r), shop.capacity[r])
<1> DEFINE u == UseOf(o, plan'[o])
           uses == ResourceUses(shop, plan, r)
<1>1. Fits(uses, shop.capacity[r])
  BY DEF Adds, RegularSoFar
<1>2. ResourceUses(shop, plan', r) = IF r \in shop.needs[o] THEN uses \cup {u} ELSE uses
  BY AddsFacts, MoreToolUses
<1>3. CASE r \in shop.needs[o]
  <2>1. AreUses(uses)
    BY AddsFacts, ToolUses DEF PlanOK
  <2>2. /\ u.from = plan'[o].from /\ u.to = plan'[o].from + shop.length[o][plan'[o].on]
        /\ u.to = plan'[o].to /\ u.amount = 1 /\ u.amount \in Nat
    BY AddsFacts DEF UseOf, Found
  <2>3. HasTools(o, plan'[o].from, plan'[o].to)
    BY AddsFacts DEF Found, Suits
  <2>4. HasCapacity(uses, shop.capacity[r], u.amount, u.from, u.to)
    BY <2>2, <2>3, <1>3 DEF HasTools
  <2>5. plan'[o].from \in Nat /\ shop.length[o][plan'[o].on] \in Nat /\ shop.capacity[r] \in Int
    BY AddsFacts, <1>3 DEF IsShop, Common
  <2>6. u.from \in Int /\ u.to \in Int
    BY <2>2, <2>5
  <2> HIDE DEF u, uses
  <2> QED  BY <1>1, <1>2, <1>3, <2>1, <2>2, <2>4, <2>5, <2>6, FitsWithMore
<1>4. CASE r \notin shop.needs[o]
  BY <1>1, <1>2, <1>4
<1> QED  BY <1>3, <1>4

\* What transports take of their lane, and what o adds to it.
TripUse(p, x) == [by |-> x, from |-> p[x.pred].to, to |-> p[x.pred].to + x.eta, amount |-> 1]

LEMMA AddsLanes ==
  ASSUME NEW o, Adds(o), NEW l \in {x.lane : x \in shop.trips}
  PROVE  Fits(LaneUses(shop, plan', l), shop.capacity[l])
<1> DEFINE mine(p) == {x \in shop.trips : x.lane = l /\ x.pred \in DOMAIN p}
           uses == LaneUses(shop, plan, l)
           f == [x \in mine(plan) |-> TripUse(plan, x)]
<1>1. \A p : LaneUses(shop, p, l) = {TripUse(p, x) : x \in mine(p)}
  BY DEF LaneUses, TripUse
<1>2. Fits(uses, shop.capacity[l])
  BY AddsFacts DEF Valid, Transported
<1>3. \A x \in shop.trips : x.eta \in Nat
  BY AddsFacts DEF IsShop, Common
<1>4. AreUses(uses)
  <2>1. IsFiniteSet(mine(plan))
    BY AddsFacts, FS_Subset DEF IsShop, Common
  <2>2. uses = {f[x] : x \in mine(plan)} /\ DOMAIN f = mine(plan)
    BY <1>1
  <2>3. IsFiniteSet(uses)
    <3> HIDE DEF f, mine, uses
    <3> QED  BY <2>1, <2>2, FiniteValues
  <2>4. \A x \in mine(plan) :
          /\ TripUse(plan, x).from \in Int /\ TripUse(plan, x).to \in Int
          /\ TripUse(plan, x).amount \in Nat
    <3>1. \A x \in DOMAIN plan : plan[x].to \in Int
      BY AddsFacts
    <3> QED  BY <3>1, <1>3 DEF TripUse
  <2> HIDE DEF uses
  <2> QED  BY <2>3, <2>4, <1>1 DEF AreUses, uses
<1>5. CASE \A x \in shop.trips : ~(x.pred = o /\ x.lane = l)
  <2>1. mine(plan') = mine(plan)
    BY <1>5, AddsFacts
  <2>2. \A x \in mine(plan) : TripUse(plan', x) = TripUse(plan, x)
    BY AddsFacts DEF TripUse
  <2>3. uses = {TripUse(plan, x) : x \in mine(plan)}
    BY <1>1
  <2>4. LaneUses(shop, plan', l) = {TripUse(plan', x) : x \in mine(plan)}
    BY <2>1, <1>1
  <2> HIDE DEF mine, uses
  <2>5. LaneUses(shop, plan', l) = uses
    BY <2>2, <2>3, <2>4
  <2> QED  BY <2>5, <1>2
<1>6. ASSUME NEW r \in shop.trips, r.pred = o, r.lane = l
      PROVE  Fits(LaneUses(shop, plan', l), shop.capacity[l])
  <2> DEFINE u == TripUse(plan', r)
  <2>1. \A x \in shop.trips : x.pred = o /\ x.lane = l => x = r
    BY <1>6, AddsFacts DEF Orderly
  <2>2. mine(plan') = mine(plan) \cup {r}
    <3>1. DOMAIN plan' = DOMAIN plan \cup {o}
      BY AddsFacts
    <3> QED  BY <3>1, <2>1, <1>6
  <2>3. \A x \in mine(plan) : TripUse(plan', x) = TripUse(plan, x)
    BY AddsFacts DEF TripUse
  <2>4. LaneUses(shop, plan', l) = uses \cup {u}
    <3>1. LaneUses(shop, plan', l) = {TripUse(plan', x) : x \in mine(plan) \cup {r}}
      BY <2>2, <1>1
    <3>2. uses = {TripUse(plan, x) : x \in mine(plan)}
      BY <1>1
    <3> HIDE DEF mine, uses
    <3> QED  BY <3>1, <3>2, <2>3
  <2>5. plan'[o].from \in Nat /\ plan'[o].to \in Int /\ r.eta \in Nat /\ shop.capacity[l] \in Int
        /\ r.room \in Int /\ r.room <= shop.capacity[l]
    BY AddsFacts, <1>3, <1>6 DEF IsShop, Common, RowsAgree
  <2>6. /\ u.from = plan'[o].to /\ u.to = plan'[o].to + r.eta /\ u.amount = 1
        /\ u.from \in Int /\ u.to \in Int /\ u.amount \in Nat
    BY <2>5, <1>6 DEF TripUse
  <2>7. HasTransport(o, plan'[o].to)
    BY AddsFacts DEF Found, Suits
  <2>8. HasCapacity(uses, shop.capacity[l], u.amount, u.from, u.to)
    <3>1. HasCapacity(uses, r.room, u.amount, u.from, u.to)
      BY <2>6, <2>7, <1>6 DEF HasTransport
    <3>2. ASSUME NEW t \in u.from..(u.to - 1)
          PROVE  Load(uses, t) + u.amount <= shop.capacity[l]
      <4>1. t \in Int
        BY <2>6
      <4>2. Load(uses, t) \in Nat
        <5> HIDE DEF uses
        <5> QED  BY <4>1, <1>4, LoadType
      <4>3. Load(uses, t) + u.amount <= r.room
        BY <3>1 DEF HasCapacity
      <4> HIDE DEF u, uses
      <4> QED  BY <4>2, <4>3, <2>5, <2>6
    <3> QED  BY <3>2 DEF HasCapacity
  <2> HIDE DEF u, uses
  <2> QED  BY <1>2, <1>4, <2>4, <2>5, <2>6, <2>8, FitsWithMore
<1> QED  BY <1>5, <1>6

LEMMA AddsTransported ==
  ASSUME NEW o, Adds(o)
  PROVE  Transported(shop, plan')
<1> SUFFICES ASSUME NEW x \in shop.trips, {x.pred, x.succ} \subseteq DOMAIN plan'
             PROVE  plan'[x.pred].to + x.eta <= plan'[x.succ].from
  BY AddsLanes DEF Transported
<1>1. /\ x.pred \in Before(shop, x.succ)
      /\ x.succ \in Scope(shop) \/ x.pred \in Fixed(shop)
  BY AddsFacts DEF Orderly
<1>2. CASE x.succ = o
  <2>1. x.pred \in DOMAIN plan /\ plan'[x.pred] = plan[x.pred]
    BY <1>1, <1>2, AddsFacts
  <2>2. plan[x.pred].to + Lag(o, x.pred) <= plan'[o].from
    BY <1>1, <1>2, AddsInOrder
  <2>3. Lag(o, x.pred) \in Nat /\ x.eta <= Lag(o, x.pred)
    BY <1>2, AddsFacts, LagFacts
  <2>4. plan[x.pred].to \in Int /\ plan'[o].from \in Nat /\ x.eta \in Nat
    BY <2>1, AddsFacts DEF IsShop, Common
  <2> QED  BY <2>1, <2>2, <2>3, <2>4, <1>2
<1>3. CASE x.succ # o
  <2>1. x.succ \in DOMAIN plan /\ plan'[x.succ] = plan[x.succ]
    BY <1>3, AddsFacts
  <2>2. x.pred # o
    BY <1>1, <2>1, AddsFacts, AddsLast DEF Fixed
  <2>3. x.pred \in DOMAIN plan /\ plan'[x.pred] = plan[x.pred]
    BY <2>2, AddsFacts
  <2>4. Transported(shop, plan)
    BY AddsFacts DEF Valid
  <2> QED  BY <2>1, <2>3, <2>4 DEF Transported
<1> QED  BY <1>2, <1>3

\* The flows that have both ends: those that had, and those into o.
LEMMA AddsFlows ==
  ASSUME NEW o, Adds(o), NEW x \in shop.flows
  PROVE  {x.pred, x.succ} \subseteq DOMAIN plan' <=>
           \/ {x.pred, x.succ} \subseteq DOMAIN plan
           \/ x.succ = o /\ x.pred \in DOMAIN plan
<1>1. /\ x.pred \in Before(shop, x.succ)
      /\ x.succ \in Scope(shop) \/ x.pred \in Fixed(shop)
  BY AddsFacts DEF Orderly
<1>2. ~(x.pred = o /\ x.succ \in DOMAIN plan')
  BY <1>1, AddsFacts, AddsLast DEF Fixed
<1> QED  BY <1>2, AddsFacts

LEMMA AddsStocked ==
  ASSUME NEW o, Adds(o)
  PROVE  /\ stocked = {x \in shop.flows : {x.pred, x.succ} \subseteq DOMAIN plan}
         /\ stocked' = {x \in shop.flows : {x.pred, x.succ} \subseteq DOMAIN plan'}
<1>1. stocked = {x \in shop.flows : {x.pred, x.succ} \subseteq DOMAIN plan}
  BY DEF Adds, RegularSoFar
<1>2. stocked' = stocked \cup {f \in shop.flows : f.succ = o /\ f.pred \in DOMAIN plan}
  BY AddsFacts DEF Place
<1> QED  BY <1>1, <1>2, AddsFlows

FlowUse(p, x) ==
  [by |-> x, from |-> p[x.pred].to, to |-> p[x.succ].from, amount |-> x.amount]

LEMMA AddsBuffered ==
  ASSUME NEW o, Adds(o)
  PROVE  Buffered(shop, plan')
<1> SUFFICES ASSUME NEW b, NEW d \in FlowsInto(shop, b), NEW e \in FlowsInto(shop, b)
             PROVE  e.wip <= d.room /\ Fits(BufferUses(plan', FlowsInto(shop, b)), d.room - e.wip)
  BY AddsFacts DEF Buffered
<1> DEFINE cap == d.room - e.wip
           mine(p) == {x \in FlowsInto(shop, b) : {x.pred, x.succ} \subseteq DOMAIN p}
           uses == BufferUses(plan, FlowsInto(shop, b))
           f == [x \in mine(plan) |-> FlowUse(plan, x)]
<1>1. \A p : BufferUses(p, FlowsInto(shop, b)) = {FlowUse(p, x) : x \in mine(p)}
  BY DEF BufferUses, FlowUse
<1>3. mine(plan) \subseteq shop.flows /\ \A x \in shop.flows : x.amount \in Nat
  BY AddsFacts DEF IsShop, Common, FlowsInto
<1>9. /\ cap \in Int /\ e.wip <= d.room
      /\ \A x \in FlowsInto(shop, b) : x.room = d.room /\ x.wip = e.wip
  <2>1. /\ d \in shop.flows /\ e \in shop.flows /\ d.buffer = b /\ e.buffer = b
        /\ \A x \in FlowsInto(shop, b) : x \in shop.flows /\ x.buffer = b
    BY DEF FlowsInto
  <2>2. /\ d.room \in Int /\ e.wip \in Int /\ e.wip <= e.room
    <3>1. \A x \in shop.flows : x.room \in Int /\ x.wip \in Int /\ x.wip <= x.room
      BY AddsFacts DEF IsShop, Common
    <3> QED  BY <3>1, <2>1
  <2>3. \A x, y \in shop.flows : x.buffer = y.buffer => x.room = y.room /\ x.wip = y.wip
    BY AddsFacts DEF RowsAgree
  <2> QED  BY <2>1, <2>2, <2>3
<1>2. Fits(uses, cap)
  <2>1. CASE mine(plan) = {}
    BY <2>1, <1>1 DEF Fits
  <2>2. ASSUME NEW x \in mine(plan) PROVE Fits(uses, cap)
    <3>1. Buffered(shop, plan)
      BY AddsFacts DEF Valid
    <3>2. x \in shop.flows /\ x.buffer = b
      BY DEF FlowsInto
    <3>3. Fits(uses, x.room - x.wip)
      BY <3>1, <3>2 DEF Buffered
    <3>4. x.room - x.wip = cap
      BY <1>9
    <3> QED  BY <3>3, <3>4
  <2> QED  BY <2>1, <2>2
<1>4. AreUses(uses)
  <2>1. IsFiniteSet(mine(plan))
    BY <1>3, AddsFacts, FS_Subset DEF IsShop, Common
  <2>2. uses = {f[x] : x \in mine(plan)} /\ DOMAIN f = mine(plan)
    BY <1>1
  <2>3. IsFiniteSet(uses)
    <3> HIDE DEF f, mine, uses
    <3> QED  BY <2>1, <2>2, FiniteValues
  <2>4. \A x \in mine(plan) :
          /\ FlowUse(plan, x).from \in Int /\ FlowUse(plan, x).to \in Int
          /\ FlowUse(plan, x).amount \in Nat
    <3>1. \A x \in DOMAIN plan : plan[x].from \in Nat /\ plan[x].to \in Int
      BY AddsFacts
    <3> QED  BY <3>1, <1>3 DEF FlowUse
  <2> HIDE DEF uses
  <2> QED  BY <2>3, <2>4, <1>1 DEF AreUses, uses
<1>5. \A x \in mine(plan) : FlowUse(plan', x) = FlowUse(plan, x)
  BY AddsFacts DEF FlowUse
<1>6. mine(plan') =
        mine(plan) \cup {x \in FlowsInto(shop, b) : x.succ = o /\ x.pred \in DOMAIN plan}
  BY AddsFlows DEF FlowsInto
<1>7. CASE \A x \in FlowsInto(shop, b) : ~(x.succ = o /\ x.pred \in DOMAIN plan)
  <2>1. mine(plan') = mine(plan)
    BY <1>6, <1>7
  <2>2. BufferUses(plan', FlowsInto(shop, b)) = uses
    BY <2>1, <1>5, <1>1
  <2> QED  BY <2>2, <1>2, <1>9
<1>8. ASSUME NEW x \in FlowsInto(shop, b), x.succ = o, x.pred \in DOMAIN plan
      PROVE  Fits(BufferUses(plan', FlowsInto(shop, b)), cap)
  <2> DEFINE u == FlowUse(plan', x)
  <2>1. \A y \in FlowsInto(shop, b) : y.succ = o => y = x
    BY <1>8, AddsFacts DEF Orderly, FlowsInto
  <2>2. mine(plan') = mine(plan) \cup {x}
    <3> HIDE DEF mine
    <3> QED  BY <2>1, <1>6, <1>8
  <2>3. BufferUses(plan', FlowsInto(shop, b)) = uses \cup {u}
    <3> HIDE DEF mine
    <3> QED  BY <2>2, <1>5, <1>1
  <2>4. x \in shop.flows /\ x.buffer = b
    BY <1>8 DEF FlowsInto
  <2>5. /\ plan[x.pred].to \in Int /\ plan'[o].from \in Nat /\ x.amount \in Nat
        /\ plan'[x.pred] = plan[x.pred]
    BY <2>4, <1>8, AddsFacts DEF IsShop, Common
  <2>6. /\ u.from = plan[x.pred].to /\ u.to = plan'[o].from /\ u.amount = x.amount
        /\ u.from \in Int /\ u.to \in Int /\ u.amount \in Nat
    BY <2>5, <1>8 DEF FlowUse
  <2>7. BufferUses(plan, stocked \cap FlowsInto(shop, b)) = uses
    BY AddsStocked DEF BufferUses, FlowsInto
  <2>8. HasBuffer(o, plan'[o].from)
    BY AddsFacts DEF Found, Suits
  <2>9. HasCapacity(uses, cap, u.amount, u.from, u.to)
    <3>1. HasCapacity(uses, x.room - x.wip, u.amount, u.from, u.to)
      BY <2>4, <2>6, <2>7, <2>8, <1>8 DEF HasBuffer
    <3>2. x.room - x.wip = cap
      BY <1>9
    <3> QED  BY <3>1, <3>2
  <2> HIDE DEF u, uses, cap
  <2> QED  BY <1>2, <1>4, <1>9, <2>3, <2>6, <2>9, FitsWithMore
<1> QED  BY <1>7, <1>8, <1>9

LEMMA AddsRouted ==
  ASSUME NEW o, Adds(o)
  PROVE  Routed(shop, plan')
<1>1. Routed(shop, plan) /\ RowsAgree(shop)
  BY AddsFacts DEF Valid
<1>2. plan'[o].on \in Tried(o) /\ plan'[o].on \in Machines
  BY AddsFacts DEF Found
<1> DEFINE M == plan'[o].on
           On(p, m) == {q \in DOMAIN p : p[q].on = m}
<1>3. \A m : IsFiniteSet(On(plan, m)) /\ Cardinality(On(plan, m)) \in Nat /\ o \notin On(plan, m)
  <2> TAKE m
  <2>1. IsFiniteSet(On(plan, m)) /\ o \notin On(plan, m)
    BY AddsFacts, FS_Subset
  <2> QED  BY <2>1, FS_CardinalityType
<1>4. On(plan', M) = On(plan, M) \cup {o} /\ \A m : m # M => On(plan', m) = On(plan, m)
  BY AddsFacts
<1>5. Cardinality(On(plan', M)) = Cardinality(On(plan, M)) + 1
  <2> HIDE DEF On, M
  <2> QED  BY <1>3, <1>4, FS_AddElement
<1>6. Cardinality(On(plan, M)) < shop.limit[M] /\ shop.limit[M] \in Nat
  BY <1>2, AddsFacts DEF Tried, IsShop, Common
<1> SUFFICES ASSUME NEW x \in DOMAIN plan'
             PROVE  /\ plan'[x].on \in shop.allowed[x]
                    /\ Cardinality(On(plan', plan'[x].on)) <= shop.quota[x][plan'[x].on]
  BY DEF Routed
<1>7. x \in Ops /\ shop.quota[x][M] \in Int /\ shop.limit[M] <= shop.quota[x][M]
  <2>1. x \in Ops
    BY AddsFacts
  <2> QED  BY <2>1, <1>1, <1>2, AddsFacts DEF IsShop, Common, RowsAgree
<1>8. plan'[x].on \in shop.allowed[x]
  <2>1. CASE x = o
    BY <2>1, <1>1, <1>2, <1>7 DEF RowsAgree, Tried
  <2>2. CASE x # o
    BY <2>2, <1>1, AddsFacts DEF Routed
  <2> QED  BY <2>1, <2>2
<1>9. CASE plan'[x].on = M
  <2>1. Cardinality(On(plan', M)) <= shop.quota[x][M]
    <3> HIDE DEF On, M
    <3> QED  BY <1>3, <1>5, <1>6, <1>7
  <2> QED  BY <2>1, <1>8, <1>9
<1>10. CASE plan'[x].on # M
  <2>1. x \in DOMAIN plan /\ plan'[x] = plan[x]
    BY <1>10, AddsFacts
  <2>2. Cardinality(On(plan, plan[x].on)) <= shop.quota[x][plan[x].on]
    BY <2>1, <1>1 DEF Routed
  <2>3. On(plan', plan'[x].on) = On(plan, plan[x].on)
    BY <2>1, <1>4, <1>10
  <2> HIDE DEF On, M
  <2> QED  BY <2>1, <2>2, <2>3, <1>8
<1> QED  BY <1>9, <1>10

LEMMA RegularPlace ==
  ASSUME OrderInv, PlanOK, RegularSoFar, NEW o \in ready, Place(o)
  PROVE  RegularSoFar'
<1> SUFFICES ASSUME Regular(snap') PROVE RegularSoFar'
  BY DEF RegularSoFar
<1>1. Adds(o) /\ shop' = shop
  <2>1. snap' = snap
    BY DEF Place
  <2> QED  BY <2>1, PlaceFound DEF Adds
<1>2. Equipped(shop, plan')
  <2>1. UNION {shop.needs[q] : q \in DOMAIN plan'} \subseteq UNION {shop.needs[q] : q \in Ops}
    <3>1. DOMAIN plan' \subseteq Ops
      BY <1>1, AddsFacts
    <3> QED  BY <3>1
  <2> QED  BY <1>1, <2>1, AddsEquipped DEF Equipped
<1>3. Supplied(shop, plan')
  BY <1>1, AddsFacts DEF Valid, Supplied
<1>4. \A x \in (shop.frozen \cup Fixed(shop)) \cap DOMAIN plan' : plan'[x] = shop.old[x]
  <2>1. o \notin shop.frozen \cup Fixed(shop)
    BY <1>1, AddsFacts DEF Fixed
  <2> QED  BY <1>1, <2>1, AddsFacts DEF Valid
<1>5. Lasting(plan')
  <2>1. Lasting(plan)
    BY <1>1, AddsFacts DEF Valid
  <2>2. plan'[o].from < plan'[o].to
    <3>1. plan'[o].to = plan'[o].from + shop.length[o][plan'[o].on]
      BY <1>1, AddsFacts DEF Found
    <3>2. plan'[o].from \in Nat /\ shop.length[o][plan'[o].on] \in Nat \ {0}
      BY <1>1, AddsFacts
    <3> QED  BY <3>1, <3>2
  <2> QED  BY <1>1, <2>1, <2>2, AddsFacts DEF Lasting
<1>6. Valid(shop, plan', shop.frozen \cup Fixed(shop))
  <2>1. Exclusive(plan') /\ Available(shop, plan') /\ ChangedOver(shop, plan')
    BY <1>1, AddsExclusive, AddsChangedOver
  <2>2. InOrder(shop, plan') /\ InWindow(shop, plan')
    BY <1>1, AddsInOrder
  <2>3. Transported(shop, plan') /\ Buffered(shop, plan') /\ Routed(shop, plan')
    BY <1>1, AddsTransported, AddsBuffered, AddsRouted
  <2> QED  BY <2>1, <2>2, <2>3, <1>2, <1>3, <1>4, <1>5 DEF Valid
<1> QED  BY <1>1, <1>6, AddsEquipped, AddsStocked DEF RegularSoFar

LEMMA RegularInit == Init => RegularSoFar
<1> SUFFICES ASSUME Init, Regular(snap) PROVE RegularSoFar
  BY DEF RegularSoFar
<1>1. /\ shop \in Readings /\ IsShop(shop) /\ plan = [o \in Fixed(shop) |-> shop.old[o]]
      /\ DOMAIN plan = Fixed(shop) /\ Fixed(shop) \subseteq Ops
      /\ Scope(shop) \cap shop.frozen = {} /\ Fixed(shop) \cup Scope(shop) = Ops
      /\ Orderly(shop)
  BY ShopFacts, RegularRows DEF Init, Readings
<1>2. Valid(shop, plan, Fixed(shop))
  BY <1>1 DEF Orderly
<1>3. Valid(shop, plan, shop.frozen \cup Fixed(shop))
  BY <1>1, <1>2 DEF Valid
<1>4. ASSUME NEW r \in UNION {shop.needs[o] : o \in Ops}
      PROVE  Fits(ResourceUses(shop, plan, r), shop.capacity[r])
  <2>1. CASE r \in UNION {shop.needs[o] : o \in DOMAIN plan}
    BY <1>2, <2>1 DEF Valid, Equipped
  <2>2. CASE \A o \in DOMAIN plan : r \notin shop.needs[o]
    <3>1. ResourceUses(shop, plan, r) = ResourceUses(shop, [o \in {} |-> None], r)
      BY <2>2 DEF ResourceUses
    <3> QED  BY <3>1, <1>1 DEF Orderly
  <2> QED  BY <2>1, <2>2
<1>5. stocked = {f \in shop.flows : {f.pred, f.succ} \subseteq DOMAIN plan}
  BY <1>1 DEF Init
<1> QED  BY <1>3, <1>4, <1>5 DEF RegularSoFar

\* Where the readers agree, a complete plan that passes on the search's reading
\* passes on that of the validator.
LEMMA JudgedAlike ==
  ASSUME FitInv, RegularSoFar, Regular(snap), DOMAIN plan = Ops
  PROVE  Accepted(snap, Built, shop.frozen \cup Fixed(shop))
<1> DEFINE j == JudgeView(snap)
           F == shop.frozen \cup Fixed(shop)
<1>1. /\ snap \in Shops /\ IsSnapshot(snap) /\ shop = SearchView(snap)
      /\ Reads(snap, shop) /\ Judges(snap, j)
      /\ Agree(snap, shop, j) /\ Orderly(shop)
      /\ Valid(shop, plan, F)
  BY SsgsConstants, ReadingFields DEF FitInv, OrderInv, Regular, RegularSoFar
<1>2. /\ shop \in Readings /\ Fixed(shop) \subseteq Ops /\ Stays
      /\ \A o \in Ops : plan[o].from \in Nat /\ plan[o].to \in Int
      /\ \A o \in Scope(shop) : Before(shop, o) \subseteq Ops
      /\ Scope(shop) \subseteq Ops
  BY ShopFacts DEF FitInv, OrderInv, PlanOK
<1>3. Fixed(snap) = Fixed(shop)
  <2>1. /\ shop.preds = snap.preds /\ shop.affected = snap.affected
        /\ shop.frozen = snap.frozen /\ shop.strategy = snap.strategy
    BY <1>1 DEF Reads
  <2> QED  BY <2>1 DEF Fixed, Scope, Downstream, Grown
<1>4. Built = plan
  <2>1. ASSUME NEW o \in Fixed(shop) PROVE Built[o] = plan[o]
    <3>1. shop.old[o] = j.old[o] /\ j.old = snap.old
      BY <1>1, <1>3 DEF Agree, Judges
    <3> QED  BY <3>1, <1>2 DEF Built, Stays
  <2>2. DOMAIN Built = DOMAIN plan /\ \A o \in DOMAIN plan : o \notin Fixed(shop) => Built[o] = plan[o]
    BY DEF Built
  <2>3. plan = [o \in DOMAIN plan |-> plan[o]]
    BY DEF FitInv, PlanOK
  <2> QED  BY <2>1, <2>2, <2>3 DEF Built
<1>5. /\ j.allowed = shop.allowed /\ j.quota = shop.quota /\ j.preds = shop.preds
      /\ j.parents = shop.parents /\ j.materials = shop.materials /\ j.needs = shop.needs
      /\ j.family = shop.family /\ j.setup = shop.setup /\ j.flows = shop.flows
      /\ j.capacity = shop.capacity /\ j.old = snap.old
      /\ j.outages = shop.outages /\ j.calendar \subseteq shop.calendar
  BY <1>1 DEF Reads, Judges, Agree
<1>6. /\ Lasting(plan) /\ Exclusive(plan) /\ InOrder(shop, plan) /\ Available(shop, plan)
      /\ InWindow(shop, plan) /\ ChangedOver(shop, plan) /\ Equipped(shop, plan)
      /\ Transported(shop, plan) /\ Buffered(shop, plan) /\ Routed(shop, plan)
      /\ Supplied(shop, plan)
  BY <1>1 DEF Valid
<1>7. InOrder(j, plan) /\ Available(j, plan)
  BY <1>5, <1>6 DEF InOrder, Available, Before
<1>8. ChangedOver(j, plan)
  <2>1. \A f, g : Setup(j, f, g) = Setup(shop, f, g)
    BY <1>5 DEF Setup
  <2> QED  BY <2>1, <1>5, <1>6 DEF ChangedOver
<1>9. Equipped(j, plan)
  <2>1. \A r : ResourceUses(j, plan, r) = ResourceUses(shop, plan, r)
    BY <1>5 DEF ResourceUses
  <2> QED  BY <2>1, <1>5, <1>6 DEF Equipped
<1>10. Transported(j, plan)
  <2>1. \A x \in shop.trips : {x.pred, x.succ} \subseteq Ops
    <3> SUFFICES ASSUME NEW x \in shop.trips PROVE x.pred \in Ops /\ x.succ \in Ops
      OBVIOUS
    <3>1. /\ x.succ \in Ops /\ x.pred \in Before(shop, x.succ)
          /\ x.succ \in Scope(shop) \/ x.pred \in Fixed(shop)
      BY <1>1 DEF Orderly
    <3> QED  BY <3>1, <1>2
  <2>2. j.trips = shop.trips
    BY <2>1, <1>1 DEF Reads, Judges
  <2>3. \A l : LaneUses(j, plan, l) = LaneUses(shop, plan, l)
    BY <2>2 DEF LaneUses
  <2> HIDE DEF j
  <2> QED  BY <2>2, <2>3, <1>5, <1>6 DEF Transported
<1>11. Buffered(j, plan)
  <2>1. \A b : FlowsInto(j, b) = FlowsInto(shop, b)
    BY <1>5 DEF FlowsInto
  <2> HIDE DEF j
  <2> QED  BY <2>1, <1>5, <1>6 DEF Buffered
<1>12. Routed(j, plan) /\ Supplied(j, plan)
  <2> HIDE DEF j
  <2> QED  BY <1>5, <1>6 DEF Routed, Supplied
<1>13. ASSUME NEW o \in Ops, NEW t \in j.release[o] PROVE t <= plan[o].from
  <2>1. PICK u \in shop.release[o] : t <= u
    BY <1>1 DEF Agree
  <2>2. u <= plan[o].from
    BY <1>6 DEF InWindow
  <2>3. u \in Nat
    BY <1>2, ShopFacts DEF IsShop
  <2>4. t \in Int
    BY <1>1, ReleaseType
  <2> QED  BY <2>1, <2>2, <2>3, <2>4, <1>2
<1>14. ASSUME NEW o \in Ops, NEW t \in j.due[o] PROVE plan[o].to <= t
  <2>1. t \in snap.due[o] /\ t \in Times /\ t # None
    BY <1>1 DEF Judges, Known, IsSnapshot
  <2>2. t \in Int /\ Clip(t) \in Nat /\ (t >= 0 => Clip(t) <= t) /\ (t < 0 => Clip(t) = 0)
    BY <2>1, ClipFacts DEF Times
  <2>3. Clip(t) \in shop.due[o]
    BY <2>1, <1>1 DEF Reads
  <2>4. plan[o].to <= Clip(t) /\ plan[o].from < plan[o].to
    BY <2>3, <1>6 DEF InWindow, Lasting
  <2> QED  BY <2>2, <2>4, <1>2
<1>15. InWindow(j, plan)
  <2> HIDE DEF j
  <2> QED  BY <1>13, <1>14 DEF InWindow
<1>16. ASSUME NEW o \in F \cap DOMAIN plan PROVE plan[o] = j.old[o]
  <2>1. o \in Fixed(shop)
    BY <1>2, ShopFacts
  <2>2. Built[o] = snap.old[o]
    BY <2>1, <1>2 DEF Built
  <2> QED  BY <2>2, <1>4, <1>5
<1>17. Valid(j, plan, F)
  <2> HIDE DEF j, F
  <2> QED  BY <1>6, <1>7, <1>8, <1>9, <1>10, <1>11, <1>12, <1>15, <1>16 DEF Valid
<1> QED  BY <1>4, <1>17 DEF Accepted

\* RegularPlansAreValid: what the search completes in a regular shop passes the
\* validator that is written apart from it and reads the snapshot in its own way.
THEOREM RegularIsValid == Spec => []RegularPlansAreValid
<1> DEFINE Inv == FitInv /\ RegularSoFar /\ RegularPlansAreValid
<1>1. Init => Inv
  BY FitInit, RegularInit DEF Init, RegularPlansAreValid
<1>2. Inv /\ [Next]_vars => Inv'
  <2> SUFFICES ASSUME Inv, [Next]_vars PROVE Inv'
    OBVIOUS
  <2>1. FitInv'
    BY FitNext
  <2>2. ASSUME NEW o \in ready, Place(o) PROVE RegularSoFar' /\ RegularPlansAreValid'
    <3>1. outcome' # "invalid"
      BY <2>2 DEF Place, Running
    <3> QED  BY <2>2, <3>1, RegularPlace DEF FitInv, RegularPlansAreValid
  <2>3. ASSUME UNCHANGED <<snap, shop, plan, stocked>> PROVE RegularSoFar'
    BY <2>3 DEF RegularSoFar
  <2>4. ASSUME NEW o \in ready, Fail(o) PROVE RegularPlansAreValid'
    BY <2>4 DEF Fail, Return, RegularPlansAreValid
  <2>5. ASSUME Finish PROVE RegularPlansAreValid'
    <3>1. /\ outcome' = IF DOMAIN plan # Ops THEN "cycle"
                        ELSE IF Accepted(snap, Built, shop.frozen \cup Fixed(shop))
                             THEN "feasible" ELSE "invalid"
          /\ snap' = snap
      BY <2>5 DEF Finish, Return
    <3>2. Regular(snap) /\ DOMAIN plan = Ops => Accepted(snap, Built, shop.frozen \cup Fixed(shop))
      BY JudgedAlike
    <3> QED  BY <3>1, <3>2 DEF RegularPlansAreValid
  <2>6. ASSUME TimeOut PROVE RegularPlansAreValid'
    BY <2>6 DEF TimeOut, Return, RegularPlansAreValid
  <2>7. ASSUME UNCHANGED vars PROVE RegularPlansAreValid'
    BY <2>7 DEF vars, RegularPlansAreValid
  <2> QED  BY <2>1, <2>2, <2>3, <2>4, <2>5, <2>6, <2>7, EndsLeavePlan DEF Next
<1> QED  BY <1>1, <1>2, PTL DEF Spec
================================================================================
