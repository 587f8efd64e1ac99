----------------------------- MODULE SsgsScheduler -----------------------------
(***************************************************************************)
(* The constraint-aware serial schedule generation that makes the first    *)
(* incumbent of a recovery (ConstraintAwareSsgsScheduler.solve).  The      *)
(* operations outside the repair scope keep their place; the others are    *)
(* taken in the order of a heap, once their predecessors are placed, and   *)
(* each goes to the machine on which it ends first, in a gap if there is   *)
(* one.  The plan is then judged by the validator.                         *)
(***************************************************************************)
EXTENDS ScheduleRules

CONSTANTS
  Shops,  \* the snapshots and requests to start from
  Rank    \* the order of the dispatch keys without urgency: Ops -> Nat

ASSUME SsgsConstants ==
  /\ IsFiniteSet(Ops) /\ Horizon \in Nat
  /\ Rank \in [Ops -> Nat]
  /\ \A s \in Shops : IsSnapshot(s)

VARIABLES
  snap,     \* the snapshot and the request, which do not change
  shop,     \* what the search read of them, which does not either
  plan,     \* scheduled: the fixed operations, as the search reads them, and
            \* those placed so far
  waiting,  \* indegree: unplaced predecessors of the operations in scope
  ready,    \* the heap
  stocked,  \* the flows whose buffer interval is reserved
  outcome   \* "running", or what is returned: feasible, invalid, cycle,
            \* blocked, lacking, no_slot, timeout

vars == <<snap, shop, plan, waiting, ready, stocked, outcome>>

Init ==
  /\ snap \in Shops
  /\ shop = SearchView(snap)
  /\ plan = [o \in Fixed(shop) |-> shop.old[o]]
  /\ waiting = [o \in Scope(shop) |-> Cardinality(Before(shop, o) \cap Scope(shop))]
  /\ ready = {o \in Scope(shop) : Before(shop, o) \cap Scope(shop) = {}}
  /\ stocked = {f \in shop.flows : {f.pred, f.succ} \subseteq Fixed(shop)}
  /\ outcome = "running"

-----------------------------------------------------------------------------
(* Where an operation may go.                                              *)

\* What takes a machine: its operations, and the windows in which it is
\* unavailable.
Intervals(m) ==
  {[by |-> o, from |-> plan[o].from, to |-> plan[o].to, family |-> shop.family[o]] :
     o \in {x \in DOMAIN plan : plan[x].on = m}}
  \cup {[by |-> None, from |-> w.from, to |-> w.to, family |-> None] :
     w \in {x \in shop.calendar : x.on = m}}

\* The order in which they are looked at: by start and end.  Of those with the
\* same times, which a snapshot has that books a machine twice or within one
\* minute, operations come before windows, and in the order of the snapshot, for
\* which Rank stands.
Precedes(x, y) ==
  \/ x.from < y.from
  \/ x.from = y.from /\ x.to < y.to
  \/ x.from = y.from /\ x.to = y.to /\ x.by # None
     /\ (y.by = None \/ Rank[x.by] < Rank[y.by])

\* o and the setup after it fit between t and the interval, on m.
GapFits(o, m, t, iv) ==
  t + shop.length[o][m] + Setup(shop, shop.family[o], iv.family) <= iv.from

\* The first start from t on that leaves time for the setups after ivs.
After(o, t, ivs) == Max({t} \cup {iv.to + Setup(shop, iv.family, shop.family[o]) : iv \in ivs})

\* _machine_slot: the start after the intervals that precede the first one
\* before which o fits then, or after all of them.  A start after more of them
\* is no earlier, so that the first is the least.
MachineSlot(o, m, t) ==
  LET Start(iv) == After(o, t, {x \in Intervals(m) : Precedes(x, iv)})
  IN Min({After(o, t, Intervals(m))}
         \cup {Start(iv) : iv \in {x \in Intervals(m) : GapFits(o, m, Start(x), x)}})

\* _has_capacity: the uses leave room for the amount from start to end.
HasCapacity(uses, cap, amount, from, to) ==
  \A t \in from..(to - 1) : Load(uses, t) + amount <= cap

\* Mutated: the room is looked for at the start only.
MutHasTools(o, t, end) ==
  \A r \in shop.needs[o] :
    HasCapacity(ResourceUses(shop, plan, r), shop.capacity[r], 1, t, t + 1)

HasTools(o, t, end) ==
  \A r \in shop.needs[o] :
    HasCapacity(ResourceUses(shop, plan, r), shop.capacity[r], 1, t, end)

HasTransport(o, end) ==
  \A r \in {x \in shop.trips : x.pred = o} :
    HasCapacity(LaneUses(shop, plan, r.lane), r.room, 1, end, end + r.eta)

\* Mutated: what the buffer holds already is not counted.
MutHasBuffer(o, t) ==
  \A f \in {x \in shop.flows : x.succ = o /\ x.pred \in DOMAIN plan} :
    HasCapacity(BufferUses(plan, stocked \cap FlowsInto(shop, f.buffer)),
                f.room, f.amount, plan[f.pred].to, t)

HasBuffer(o, t) ==
  \A f \in {x \in shop.flows : x.succ = o /\ x.pred \in DOMAIN plan} :
    HasCapacity(BufferUses(plan, stocked \cap FlowsInto(shop, f.buffer)),
                f.room - f.wip, f.amount, plan[f.pred].to, t)

\* _find_slot: the possible starts on m, at most one.  Want of a tool, a skill
\* or a lane moves the start by a minute, want of a buffer ends the search.
Slot(o, m, earliest, latest) ==
  LET At[t \in Nat] ==
        LET at == MachineSlot(o, m, t)  end == at + shop.length[o][m] IN
        IF end > latest THEN {}
        ELSE IF ~(HasTools(o, at, end) /\ HasTransport(o, end)) THEN At[at + Minute]
        ELSE IF HasBuffer(o, at) THEN {at} ELSE {}
  IN At[earliest]

\* The wait after predecessor q that the transports from q to o ask for.
Lag(o, q) == Max({0} \cup {t.eta : t \in {x \in shop.trips : x.pred = q /\ x.succ = o}})

Earliest(o) ==
  LET usual == IF o \in shop.urgent THEN 0 ELSE shop.old[o].from
      delayed == usual + (IF o \in shop.affected THEN shop.delay ELSE 0)
  IN Max({delayed} \cup shop.release[o]
         \cup {plan[q].to + Lag(o, q) : q \in Before(shop, o)})

Latest(o) ==
  Min({Horizon} \cup shop.due[o]
      \cup {plan[q].from : q \in {x \in Fixed(shop) : o \in Before(shop, x)}})

\* The machines in the order in which they are tried: the present one first if
\* it is not among those that the master data name.
Position(o, m) == IF m \in shop.eligible[o] THEN m ELSE 0

Tried(o) ==
  {m \in (shop.eligible[o] \cup {shop.old[o].on}) \ shop.unfit[o] :
     Cardinality({x \in DOMAIN plan : plan[x].on = m}) < shop.limit[m]}

Candidates(o, machines) ==
  UNION {{[on |-> m, from |-> t, to |-> t + shop.length[o][m]] :
            t \in Slot(o, m, Earliest(o), Latest(o))} : m \in machines}

\* The order of the candidates: first to end, on the machine it has, on the
\* machine with the fewest intervals, in the order of the list.
Better(o, a, b) ==
  LET Moves(c) == IF c.on = shop.old[o].on THEN 0 ELSE 1
      Key(c) == <<c.to, Moves(c), Cardinality(Intervals(c.on)), Position(o, c.on)>>
  IN \E i \in 1..4 : /\ \A j \in 1..(i - 1) : Key(a)[j] = Key(b)[j]
                     /\ Key(a)[i] < Key(b)[i]

-----------------------------------------------------------------------------

\* _dispatch_key
First(o) ==
  \A q \in ready \ {o} :
    \/ o \in shop.urgent /\ q \notin shop.urgent
    \/ (o \in shop.urgent <=> q \in shop.urgent) /\ Rank[o] < Rank[q]

Return(status) ==
  /\ outcome' = status
  /\ UNCHANGED <<snap, shop, plan, waiting, ready, stocked>>

Running == outcome = "running" /\ ready # {}

\* The next operation lacks its material, has a predecessor that is not in the
\* plan, or has no slot.
Lacks(o) == {} \in shop.materials[o]
Blocked(o) == ~(Before(shop, o) \subseteq DOMAIN plan)

Fail(o) ==
  /\ Running
  /\ First(o)
  /\ \/ Lacks(o) /\ Return("lacking")
     \/ ~Lacks(o) /\ Blocked(o) /\ Return("blocked")
     \/ ~Lacks(o) /\ ~Blocked(o) /\ Candidates(o, Tried(o)) = {} /\ Return("no_slot")

\* Mutated: a successor is ready when one of its predecessors is placed.
MutReleased(o) == {q \in DOMAIN waiting : o \in Before(shop, q)}

\* The successors whose last unplaced predecessor is o.
Released(o) == {q \in DOMAIN waiting : o \in Before(shop, q) /\ waiting[q] = 1}

\* The machines whose search ends before the time is over.  When it is not the
\* last operation that is hurried, the next one finds the time over and nothing
\* of the plan is returned, which is TimeOut.
Searched(o) ==
  {Tried(o)} \cup IF ready = {o} /\ Released(o) = {}
                  THEN {{m \in Tried(o) : Position(o, m) <= n} : n \in Machines \cup {0}}
                  ELSE {}

Place(o) ==
  /\ Running
  /\ First(o)
  /\ ~Lacks(o) /\ ~Blocked(o)
  /\ \E machines \in Searched(o) :
       LET found == Candidates(o, machines) IN
       \E c \in found :
         /\ \A d \in found \ {c} : Better(o, c, d)
         /\ plan' = [x \in DOMAIN plan \cup {o} |-> IF x = o THEN c ELSE plan[x]]
  /\ stocked' = stocked \cup {f \in shop.flows : f.succ = o /\ f.pred \in DOMAIN plan}
  /\ waiting' = [q \in DOMAIN waiting |->
                   IF o \in Before(shop, q) THEN waiting[q] - 1 ELSE waiting[q]]
  /\ ready' = (ready \ {o}) \cup Released(o)
  /\ UNCHANGED <<snap, shop, outcome>>

\* _build_schedule: the operations that stay are copied, not rebuilt.
Built == [o \in DOMAIN plan |-> IF o \in Fixed(shop) THEN snap.old[o] ELSE plan[o]]

\* The heap is empty.
Finish ==
  /\ outcome = "running"
  /\ ready = {}
  /\ Return(IF DOMAIN plan # Ops THEN "cycle"
            ELSE IF Accepted(snap, Built, shop.frozen \cup Fixed(shop)) THEN "feasible"
            ELSE "invalid")

\* The time budget is looked at before each operation and in each search.
TimeOut == Running /\ Return("timeout")

Next == (\E o \in ready : Place(o) \/ Fail(o)) \/ Finish \/ TimeOut

Spec == Init /\ [][Next]_vars

-----------------------------------------------------------------------------
(* Properties.                                                             *)

InScope(o) == o \in Scope(shop) \cap DOMAIN plan

\* a and b are on one machine for a minute or more at the same time.
Collide(a, b) ==
  a.on = b.on /\ \A f \in {a.from, b.from}, e \in {a.to, b.to} : f + Minute <= e

\* Each part for an operation that was placed, against all that are in the plan
\* by now, before or after it, where the snapshot says exactly that they are.
Alone(o) ==
  /\ \A q \in DOMAIN plan \ {o} :
       IF InScope(q) THEN ~Overlap(plan[o], plan[q]) ELSE ~Collide(plan[o], Built[q])
  /\ \A w \in JudgeView(snap).calendar : ~Collide(plan[o], w)

Sequenced(o) ==
  /\ \A q \in Before(shop, o) :
       IF InScope(q) THEN Built[q].to + Lag(o, q) <= plan[o].from
       ELSE Built[q].to + Lag(o, q) < plan[o].from + Minute
  /\ \A q \in Fixed(shop) : o \in Before(shop, q) => plan[o].to <= Built[q].from

Tooled(o) ==
  \A r \in shop.needs[o], t \in plan[o].from..(plan[o].to - 1) :
    Load(ResourceUses(shop, plan, r), t) <= shop.capacity[r]

\* Whatever is inserted into gaps later, an operation that was placed shares its
\* machine with no other that was; with what stays and with windows it shares
\* less than a minute, which is what the flooring of their times can cost.  It
\* comes after its predecessors and their transports, short of less than a minute
\* for one that stays, and before the operations that stay.  Its tools and skills
\* suffice at every minute of it, in the times that the search reads.
PlacedFits == \A o \in Ops : InScope(o) => Alone(o) /\ Sequenced(o) /\ Tooled(o)

\* The two readers agree on a snapshot: times are whole minutes or make no
\* difference; a release, a window that the validator looks at is one that the
\* search looks at; the machines that are tried are allowed, in their numbers too;
\* the rows of a lane or of a buffer say the same.  (A deadline never differs for
\* an operation that is placed: the whole minutes of one are no later.)
Agree(s, r, j) ==
  /\ \A o \in Fixed(s) : r.old[o] = j.old[o]
  /\ \A o \in Ops : \A t \in j.release[o] : \E u \in r.release[o] : t <= u
  /\ j.calendar \subseteq r.calendar /\ r.outages = j.outages
  /\ \A o \in Ops, m \in Machines : s.limit[m] <= s.quota[o][m]
  /\ \A o \in Ops : (s.eligible[o] \cup {s.old[o].on}) \ s.unfit[o] \subseteq s.allowed[o]
  /\ \A x \in s.trips : x.room <= s.capacity[x.lane]
  /\ \A x, y \in s.flows : x.buffer = y.buffer => x.room = y.room /\ x.wip = y.wip

\* A shop in which everything the validator asks of the new plan is something
\* that the search looks at: the operations that stay are in order among
\* themselves; transports and buffers are between an operation and a
\* predecessor, do not lead from the scope into what stays, and do not share a
\* lane from one operation or a buffer into one; no changeover spans a window
\* in which its machine is unavailable.
Orderly(s) ==
  LET Leads(x) == /\ x.succ \in Ops /\ x.pred \in Before(s, x.succ)
                  /\ x.succ \in Scope(s) \/ x.pred \in Fixed(s)
  IN /\ Valid(s, [o \in Fixed(s) |-> s.old[o]], Fixed(s))
     /\ \A r \in UNION {s.needs[o] : o \in Ops} :
          Fits(ResourceUses(s, [o \in {} |-> None], r), s.capacity[r])
     /\ \A x \in s.trips \cup s.flows : Leads(x)
     /\ \A x, y \in s.trips : x.pred = y.pred /\ x.lane = y.lane => x = y
     /\ \A x, y \in s.flows : x.succ = y.succ /\ x.buffer = y.buffer => x = y
     /\ s.calendar = {} \/ \A o, q \in Ops : Setup(s, s.family[o], s.family[q]) = 0

Regular(s) == Agree(s, SearchView(s), JudgeView(s)) /\ Orderly(SearchView(s))

\* Where the two readers agree and the shop is orderly, which is enough but not
\* always needed, the validator accepts every plan that the search completes: the
\* two were written apart and judge setups, capacities, lanes and buffers in
\* different ways.
RegularPlansAreValid == outcome = "invalid" => ~Regular(snap)

\* Operations of which each waits for another one.
Circular(S) == S # {} /\ \A o \in S : Before(shop, o) \cap S # {}

\* The plan is complete unless the precedences of the scope are circular or one
\* names an operation that does not exist, and the status says which it was.
StatusTellsTheOrder ==
  /\ outcome = "cycle" => \E S \in SUBSET Scope(shop) : Circular(S)
  /\ outcome = "blocked" => \E o \in Scope(shop) : ~(Before(shop, o) \subseteq Ops)
  /\ outcome \in {"feasible", "invalid"} =>
       DOMAIN plan = Ops /\ \A S \in SUBSET Scope(shop) : ~Circular(S)
================================================================================
