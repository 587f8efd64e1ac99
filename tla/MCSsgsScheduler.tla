---------------------------- MODULE MCSsgsScheduler ----------------------------
(* Snapshots of three operations on two machines.                             *)
EXTENDS SsgsScheduler, TLC

CONSTANTS a, b, c, ghost, tool, lane, buffer

MCRank == a :> 1 @@ b :> 2 @@ c :> 3

\* In minutes, and in ticks.
At(on, from, length) ==
  [on |-> on, from |-> from * Minute, to |-> (from + length) * Minute]
Tick(on, from, to) == [on |-> on, from |-> from, to |-> to]

\* Where the operations are: in turn on one machine, in another order, spread
\* over both, and with two of them at once.
Lengths == {a :> 1 @@ b :> 2 @@ c :> 1, a :> 2 @@ b :> 1 @@ c :> 2}
Places == {<<<<1, 0>>, <<1, 3>>, <<1, 5>>>>, <<<<1, 3>>, <<1, 0>>, <<2, 0>>>>,
           <<<<1, 0>>, <<2, 1>>, <<2, 3>>>>, <<<<1, 1>>, <<1, 1>>, <<2, 4>>>>}
Number == a :> 1 @@ b :> 2 @@ c :> 3

All(x) == [o \in Ops |-> x]

\* An order of work without anything else.
Plain(old) ==
  [old |-> old, length |-> All([m \in {} |-> 0]),
   eligible |-> All(Machines), unfit |-> All({}), allowed |-> All(Machines),
   limit |-> [m \in Machines |-> 3], quota |-> All([m \in Machines |-> 3]),
   preds |-> All({}), parents |-> All({}),
   release |-> All({}), parts |-> All({}), batched |-> All({}), materials |-> All({}),
   due |-> All({}), needs |-> All({}),
   family |-> [o \in Ops |-> IF o = b THEN "g" ELSE "f"],
   setup |-> [p \in {"f", "g"} \X {"f", "g"} |-> 0],
   calendar |-> {}, outages |-> {}, trips |-> {}, flows |-> {},
   capacity |-> tool :> 1 @@ lane :> 1,
   affected |-> {a}, frozen |-> {}, urgent |-> {}, delay |-> Minute, strategy |-> "global"]

Base(length, place) ==
  Plain([o \in Ops |-> At(place[Number[o]][1], place[Number[o]][2], length[o])])

Bases == {Base(l, p) : l \in Lengths, p \in Places}

Preds(x, y, z) == a :> x @@ b :> y @@ c :> z
Chain == Preds({}, {a}, {b})

\* Which operations are repaired, in which order they must come.
Scopes ==
  {[s EXCEPT !.preds = p, !.parents = q, !.strategy = st, !.affected = x, !.frozen = f,
             !.urgent = u, !.materials[b] = l] :
     s \in {Base(l, <<<<1, 0>>, <<1, 2>>, <<2, 4>>>>) : l \in Lengths},
     p \in {Chain, Preds({}, {a}, {a}), Preds({}, {}, {a, b}), Preds({}, {c}, {b}),
            Preds({}, {ghost}, {})},
     q \in {Preds({}, {}, {}), Preds({c}, {}, {})},
     st \in {"global", "wait", "local"}, x \in {{a}, {b, c}}, f \in {{}, {b}},
     u \in {{}, {c}}, l \in {{}, {{}}}}

\* Machines that are unavailable at times, changeovers, narrow windows.
Machinery ==
  {[s EXCEPT !.preds = p, !.calendar = w, !.setup = [k \in DOMAIN @ |-> n * Minute],
             !.eligible = e, !.allowed = e, !.due = d, !.frozen = f,
             !.limit = m, !.quota = All(m)] :
     s \in Bases,
     p \in {Preds({}, {}, {}), Preds({}, {}, {b})},
     w \in {{}, {At(1, 2, 1)}, {At(1, 1, 1), At(2, 0, 3)}}, n \in {0, 2},
     e \in {All(Machines), a :> {2} @@ b :> {1} @@ c :> Machines},
     d \in {All({}), a :> {} @@ b :> {5 * Minute} @@ c :> {4 * Minute}},
     f \in {{}, {b}}, m \in {[k \in Machines |-> 3], <<3, 1>>}}

Trip(p, q, n) == [pred |-> p, succ |-> q, lane |-> lane, eta |-> n * Minute, room |-> 1]
Flow(p, q, n) == [pred |-> p, succ |-> q, buffer |-> buffer, amount |-> n, room |-> 1, wip |-> 0]
Out(from, to, n) == [of |-> tool, from |-> from, to |-> to, amount |-> n, blocks |-> n]

\* What they share: a tool, a lane, a buffer.
Sharing ==
  {[s EXCEPT !.preds = p, !.needs = n, !.outages = x, !.trips = t, !.frozen = f,
             !.flows = {[y EXCEPT !.room = k[1], !.wip = k[2]] : y \in g}] :
     s \in Bases, p \in {Preds({}, {}, {b}), Preds({}, {a}, {a}), Chain},
     n \in {All({tool}), [o \in Ops |-> IF o = b THEN {} ELSE {tool}]},
     x \in {{}, {Out(2 * Minute, 3 * Minute, 1)}},
     t \in {{}, {Trip(a, b, 2)}, {Trip(a, b, 2), Trip(b, c, 1)},
            {Trip(a, c, 1), Trip(a, b, 1)}},
     g \in {{}, {Flow(a, b, 1), Flow(a, c, 1)}, {Flow(a, b, 1), Flow(b, c, 1)},
            {Flow(b, c, 2)}},
     k \in {<<1, 0>>, <<2, 1>>, <<1, 1>>}, f \in {{}, {a}, {c}}}

\* Times within a minute, missing times, and rows that the two readers take
\* differently: gates and materials, machines, capacities.
Odd == {Plain(a :> Tick(1, 0, 2) @@ b :> Tick(1, 5, 7) @@ c :> Tick(2, 3, 6)),
        Plain(a :> Tick(1, 1, 4) @@ b :> Tick(1, 5, 6) @@ c :> Tick(1, 6, 9))}

Readers ==
  {[s EXCEPT !.preds = Preds({}, {}, {b}), !.calendar = w, !.release[c] = r, !.parts[c] = t,
             !.batched[c] = g, !.materials[c] = m, !.due[c] = d, !.frozen = f, !.delay = n] :
     s \in Odd, w \in {{}, {Tick(1, 7, 9)}, {Tick(1, None, 3), Tick(2, 8, None)}},
     r \in {{}, {5, None}}, t \in {{}, {9}}, g \in {{}, {11}},
     m \in {{}, {{None, 7}}, {{9, 10}, {None}}}, d \in {{}, {15}, {None}},
     f \in {{a}, {a, b}}, n \in {1, 3}}

\* A lead time, what passes over b on machine 2, what the approval of c allows.
Vendors == {<<[m \in {} |-> 0], {2}, 3>>, <<2 :> 2 * Minute, {}, 3>>, <<[m \in {} |-> 0], {2}, 1>>}

Rows ==
  {[s EXCEPT !.preds = p, !.needs = All({tool}), !.outages = x, !.capacity[tool] = 2,
             !.trips = t, !.capacity[lane] = 1, !.flows = g, !.allowed[b] = {1},
             !.length[c] = v[1], !.unfit[b] = v[2], !.quota[c] = <<v[3], 3>>, !.frozen = f] :
     s \in Odd \cup {Base(All(1), <<<<1, 0>>, <<1, 1>>, <<2, 4>>>>)},
     p \in {Preds({}, {a}, {a}), Preds({}, {}, {a, b})},
     x \in {{}, {[Out(2, 4, 1) EXCEPT !.blocks = 2]}, {Out(4, 6, 2), Out(4, 8, 2)},
            {Out(3, 7, 2), Out(None, 4, 1)}},
     t \in {{}, {[Trip(a, c, 1) EXCEPT !.room = 2], Trip(b, c, 1)},
            {Trip(a, ghost, 1), Trip(b, c, 1)}},
     g \in {{}, {Flow(a, c, 1), Flow(b, c, 1)},
            {Flow(a, b, 1), [Flow(a, c, 1) EXCEPT !.room = 2, !.wip = 1]}},
     v \in Vendors, f \in {{}, {b}}}

MCShops == Sharing \cup Scopes \cup Machinery \cup Readers \cup Rows
================================================================================
