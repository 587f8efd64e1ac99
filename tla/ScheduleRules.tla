----------------------------- MODULE ScheduleRules -----------------------------
(***************************************************************************)
(* Snapshots, plans, and the rules that a plan is judged by: the           *)
(* OperationalConstraintValidator with the ConstraintValidator it starts   *)
(* from, over the parts of a snapshot that have a meaning in time.  The    *)
(* schedulers and the validator were written apart and do not read every   *)
(* row in the same way; SearchView and JudgeView are the two readings.     *)
(*                                                                         *)
(* A snapshot is a record:                                                 *)
(*   old       operation -> [on, from, to], the snapshot's own plan        *)
(*   length    operation -> (machine -> lead time), where an outsourcing   *)
(*             is approved                                                 *)
(*   eligible  operation -> machines, in the master data                   *)
(*   unfit     operation -> machines that the search passes over           *)
(*   allowed   operation -> machines that the validator accepts, by        *)
(*             eligibility, capability and outsourcing approval            *)
(*   limit     machine -> how many operations the search gives it          *)
(*   quota     operation -> (machine -> how many operations the approval   *)
(*             of that operation lets the machine take)                    *)
(*   preds     operation -> predecessor_ids, some perhaps of no operation  *)
(*   parents   operation -> operations, from the batch genealogy           *)
(*   release   operation -> times from which it may start                  *)
(*   parts     operation -> times of its own material requirements         *)
(*   batched   operation -> times of the QMS gates that name its batch     *)
(*   materials operation -> for each material, the times of the            *)
(*             alternatives, perhaps none                                  *)
(*   due       operation -> deadlines                                      *)
(*   needs     operation -> tools and skills                               *)
(*   family    operation -> product family                                 *)
(*   setup     <<family, family>> -> changeover time                       *)
(*   calendar  windows [on, from, to] in which a machine is unavailable    *)
(*   outages   windows [of, from, to, amount, blocks] of tools and skills: *)
(*             what the search and what the validator takes away           *)
(*   trips     transports [pred, succ, lane, eta, room]                    *)
(*   flows     [pred, succ, buffer, amount, room, wip], held between two   *)
(*   capacity  tool, skill or lane -> quantity, for a lane that of its     *)
(*             last row                                                    *)
(* and what the repair is about: affected, frozen, urgent, delay, strategy *)
(*                                                                         *)
(* A plan maps operations to [on, from, to].  Times are ticks from the     *)
(* origin, of which a minute has Minute, and may be None where a row has   *)
(* none.  Evidence and states that refuse a snapshot before anything is    *)
(* planned are left out, and so are setups that differ by machine, the     *)
(* overflow of a release a million minutes away, and negative quantities.  *)
(***************************************************************************)
EXTENDS Integers, FiniteSets, FiniteSetsExt, Sequences, Functions

CONSTANTS Ops, Machines, Horizon,
  Minute,  \* the ticks of a minute
  None     \* no time, no family

ASSUME TimeConstants == Minute \in Nat \ {0} /\ None \notin Int

\* _offset, in ticks: the whole minutes of t.
Floor(t) == t - (t % Minute)

\* _datetime_offset: a missing time and one before the origin are read as it.
Clip(t) == IF t = None \/ t < 0 THEN 0 ELSE Floor(t)

\* int(round(d)): the nearest minute, the even one of two.
Rounded(d) ==
  LET q == d \div Minute  r == 2 * (d % Minute)
  IN IF r > Minute \/ (r = Minute /\ q % 2 = 1) THEN (q + 1) * Minute ELSE q * Minute

\* The sum of a function into Nat: the number of its units.
Total(f) == Cardinality(UNION {{x} \X (1..f[x]) : x \in DOMAIN f})

Before(s, o) == s.preds[o] \cup s.parents[o]

Setup(s, f, g) == IF None \in {f, g} \/ f = g THEN 0 ELSE s.setup[<<f, g>>]

Times == Int \cup {None}

\* What the two readings leave as it is.
Common(s) ==
  /\ s.eligible \in [Ops -> SUBSET Machines]
  /\ \A o \in Ops : DOMAIN s.quota[o] = Machines /\ \A m \in Machines : s.quota[o][m] \in Int
  /\ s.limit \in [Machines -> Nat]
  /\ \A o, q \in Ops : Setup(s, s.family[o], s.family[q]) \in Nat
  /\ \A o \in Ops : \A r \in s.needs[o] : s.capacity[r] \in Int
  /\ IsFiniteSet(s.trips)
  /\ \A x \in s.trips : x.eta \in Nat /\ x.room \in Int /\ s.capacity[x.lane] \in Int
  /\ IsFiniteSet(s.flows)
  /\ \A f \in s.flows : f.amount \in Nat /\ f.room \in Int /\ f.wip \in Int /\ f.wip <= f.room
  /\ s.affected \subseteq Ops
  /\ s.strategy \in {"global", "wait", "local"}

Fields ==
  {"old", "length", "eligible", "unfit", "allowed", "limit", "quota", "preds", "parents",
   "release", "parts", "batched", "materials", "due", "needs", "family", "setup", "calendar",
   "outages", "trips", "flows", "capacity", "affected", "frozen", "urgent", "delay", "strategy"}

\* What a snapshot and a request are.  The origin is no later than any start, a
\* buffer holds no more than it may, or the search is not begun.
IsSnapshot(s) ==
  /\ Fields \subseteq DOMAIN s
  /\ Common(s)
  /\ s.old \in [Ops -> [on : Machines, from : Nat, to : Nat]]
  /\ \A o \in Ops : s.old[o].from <= s.old[o].to
  /\ DOMAIN s.length = Ops
  /\ \A o \in Ops : \A m \in DOMAIN s.length[o] : s.length[o][m] \in Nat \ {0}
  /\ \A o \in Ops :
       /\ \A T \in {s.release[o], s.parts[o], s.batched[o]} \cup s.materials[o] :
            T \subseteq Times /\ IsFiniteSet(T)
       /\ IsFiniteSet(s.materials[o])
       /\ s.due[o] \subseteq Times
  /\ IsFiniteSet(s.calendar)
  /\ IsFiniteSet(s.outages)
  /\ \A w \in s.calendar \cup s.outages : {w.from, w.to} \subseteq Times
  /\ \A w \in s.calendar : {"on", "from", "to"} \subseteq DOMAIN w
  /\ \A w \in s.outages : /\ {"of", "from", "to", "amount"} \subseteq DOMAIN w
                         /\ {w.amount, w.blocks} \subseteq Nat
  /\ s.delay \in Nat

\* What a reading of one is.
IsShop(s) ==
  /\ Common(s)
  /\ s.old \in [Ops -> [on : Machines, from : Nat, to : Int]]
  /\ \A o \in Ops : \A m \in Machines : s.length[o][m] \in Nat \ {0}
  /\ \A o \in Ops : s.release[o] \subseteq Nat /\ IsFiniteSet(s.release[o]) /\ s.due[o] \subseteq Nat
  /\ IsFiniteSet(s.calendar)
  /\ \A w \in s.calendar : w.from \in Int /\ w.to \in Int
  /\ IsFiniteSet(s.outages)
  /\ \A w \in s.outages : w.from \in Int /\ w.to \in Int /\ w.amount \in Nat
  /\ s.delay \in Nat

-----------------------------------------------------------------------------
(* The two readings.                                                       *)

\* What the search makes of the windows: whole minutes within the horizon.
Shortened(W) ==
  {[w EXCEPT !.from = Clip(w.from), !.to = Min({Clip(w.to), Horizon})] :
     w \in {x \in W : Clip(x.from) < Clip(x.to)}}

\* The search reads whole minutes from the origin.  A duration is at least one.
\* A material may come by the first of its alternatives, at once if one has no
\* time; gates count for the operations that they name themselves.
SearchView(s) ==
  [s EXCEPT
     !.old = [o \in Ops |-> [on |-> s.old[o].on, from |-> Floor(s.old[o].from),
                             to |-> Floor(s.old[o].to)]],
     !.length = [o \in Ops |-> [m \in Machines |->
                   IF m \in DOMAIN s.length[o] THEN s.length[o][m]
                   ELSE Max({Minute, Floor(s.old[o].to - s.old[o].from)})]],
     !.release = [o \in Ops |->
                    {Clip(t) : t \in s.release[o] \cup s.parts[o]}
                    \cup {Min({Clip(t) : t \in a}) : a \in s.materials[o] \ {{}}}],
     !.due = [o \in Ops |-> {Clip(t) : t \in s.due[o]}],
     !.calendar = Shortened(s.calendar),
     !.outages = Shortened(s.outages),
     !.delay = Rounded(s.delay)]

\* The validator compares the times as they are, and passes over what has none
\* and over transports of operations that do not exist.
Known(T) == T \ {None}

Real(W) == {w \in W : None \notin {w.from, w.to} /\ w.from < w.to}

JudgeView(s) ==
  [s EXCEPT
     !.release = [o \in Ops |->
                    Known(s.release[o] \cup s.batched[o])
                    \cup {Min(Known(a)) : a \in {x \in s.materials[o] : Known(x) # {}}}],
     !.due = [o \in Ops |-> Known(s.due[o])],
     !.calendar = Real(s.calendar),
     !.outages = {[w EXCEPT !.amount = w.blocks] : w \in Real(s.outages)},
     !.trips = {x \in s.trips : {x.pred, x.succ} \subseteq Ops}]

-----------------------------------------------------------------------------
(* Loads.                                                                  *)

\* What the set of uses takes at time t, and whether it ever exceeds cap.
Load(uses, t) ==
  Total([u \in {x \in uses : x.from <= t /\ t < x.to} |-> u.amount])

Fits(uses, cap) == \A u \in uses : u.to > u.from => Load(uses, u.from) <= cap

\* The uses of a tool or skill, a lane and a buffer by the operations of p.
ResourceUses(s, p, r) ==
  {[by |-> o, from |-> p[o].from, to |-> p[o].to, amount |-> 1] :
     o \in {x \in DOMAIN p : r \in s.needs[x]}}
  \cup {[by |-> w, from |-> w.from, to |-> w.to, amount |-> w.amount] :
     w \in {x \in s.outages : x.of = r}}

LaneUses(s, p, l) ==
  {[by |-> t, from |-> p[t.pred].to, to |-> p[t.pred].to + t.eta, amount |-> 1] :
     t \in {x \in s.trips : x.lane = l /\ x.pred \in DOMAIN p}}

BufferUses(p, flows) ==
  {[by |-> f, from |-> p[f.pred].to, to |-> p[f.succ].from, amount |-> f.amount] :
     f \in {x \in flows : {x.pred, x.succ} \subseteq DOMAIN p}}

FlowsInto(s, b) == {f \in s.flows : f.buffer = b}

-----------------------------------------------------------------------------
(* The rules, for the operations that p has.                               *)

Overlap(a, b) == a.on = b.on /\ a.from < b.to /\ b.from < a.to

Exclusive(p) == \A a, b \in DOMAIN p : a # b => ~Overlap(p[a], p[b])

InOrder(s, p) ==
  \A o \in DOMAIN p : \A q \in Before(s, o) \cap DOMAIN p : p[q].to <= p[o].from

Available(s, p) == \A o \in DOMAIN p, w \in s.calendar : ~Overlap(p[o], w)

InWindow(s, p) ==
  \A o \in DOMAIN p : /\ \A t \in s.release[o] : t <= p[o].from
                     /\ \A t \in s.due[o] : p[o].to <= t

\* b is the next operation after a on their machine.
Follows(p, a, b) ==
  /\ p[a].on = p[b].on
  /\ p[a].from < p[b].from
  /\ \A c \in DOMAIN p :
       p[c].on = p[a].on => ~(p[a].from < p[c].from /\ p[c].from < p[b].from)

ChangedOver(s, p) ==
  \A a, b \in DOMAIN p :
    Follows(p, a, b) => p[a].to + Setup(s, s.family[a], s.family[b]) <= p[b].from

Equipped(s, p) ==
  \A r \in UNION {s.needs[o] : o \in DOMAIN p} :
    Fits(ResourceUses(s, p, r), s.capacity[r])

Transported(s, p) ==
  /\ \A t \in s.trips :
       {t.pred, t.succ} \subseteq DOMAIN p => p[t.pred].to + t.eta <= p[t.succ].from
  /\ \A l \in {t.lane : t \in s.trips} : Fits(LaneUses(s, p, l), s.capacity[l])

\* A buffer has the least room and holds the most that a row of it says.
Buffered(s, p) ==
  \A b \in {f.buffer : f \in s.flows} :
    LET rows == {f \in FlowsInto(s, b) : {f.pred, f.succ} \subseteq DOMAIN p} IN
    \A f, g \in rows :
      g.wip <= f.room /\ Fits(BufferUses(p, FlowsInto(s, b)), f.room - g.wip)

Routed(s, p) ==
  \A o \in DOMAIN p :
    /\ p[o].on \in s.allowed[o]
    /\ Cardinality({q \in DOMAIN p : p[q].on = p[o].on}) <= s.quota[o][p[o].on]

Supplied(s, p) == \A o \in DOMAIN p : {} \notin s.materials[o]

Lasting(p) == \A o \in DOMAIN p : p[o].from < p[o].to

\* The rules hold of p on a reading, fixed being the operations that may not
\* differ from the snapshot.
Valid(s, p, fixed) ==
  /\ Lasting(p) /\ Exclusive(p) /\ InOrder(s, p)
  /\ Available(s, p) /\ InWindow(s, p) /\ ChangedOver(s, p)
  /\ Equipped(s, p) /\ Transported(s, p) /\ Buffered(s, p)
  /\ Routed(s, p) /\ Supplied(s, p)
  /\ \A o \in fixed \cap DOMAIN p : p[o] = s.old[o]

\* validate: the report of p has no violation.
Accepted(s, p, fixed) == Valid(JudgeView(s), p, fixed)
-----------------------------------------------------------------------------
(* What a repair may move.                                                 *)

\* S with all that comes after it by predecessor_ids: the least set with S to
\* which no operation is left to add.
Grown(s, T) == \A o \in Ops : s.preds[o] \cap T # {} => o \in T

Downstream(s, S) == {o \in Ops : \A T \in SUBSET Ops : S \subseteq T /\ Grown(s, T) => o \in T}

\* _repair_scope of the affected operations, without the frozen ones.
Scope(s) ==
  {o \in Ops \ s.frozen :
     \/ s.strategy = "global"
     \/ s.strategy = "wait" /\ (o \in s.affected \/ s.preds[o] \cap s.affected # {})
     \/ s.strategy = "local" /\ o \in Downstream(s, s.affected)}

Fixed(s) == Ops \ Scope(s)
================================================================================
