--------------------------- MODULE MCAnytimePortfolio ---------------------------
(* Repairs of three operations of two work orders on two machines, most of    *)
(* them of a minute, which is two ticks.                                      *)
EXTENDS AnytimePortfolio, TLC

CONSTANTS a, b, c

At(on, from, to) == [on |-> on, from |-> from, to |-> to]

All(x) == [o \in Ops |-> x]

\* a and b follow each other on machine 1, c is beside them or after them; b
\* must come after a.  Only what is named in free may change its machine.
Base(first, second, third, free) ==
  [old |-> a :> first @@ b :> second @@ c :> third, length |-> All([m \in {} |-> 0]),
   eligible |-> [o \in Ops |-> IF o \in free THEN Machines
                               ELSE {IF o = c THEN third.on ELSE 1}],
   unfit |-> All({}), allowed |-> All(Machines),
   limit |-> [m \in Machines |-> 3], quota |-> All([m \in Machines |-> 3]),
   preds |-> a :> {} @@ b :> {a} @@ c :> {}, parents |-> All({}),
   release |-> All({}), parts |-> All({}), batched |-> All({}), materials |-> All({}),
   due |-> All({}), needs |-> All({}), family |-> All("f"), setup |-> <<"f", "f">> :> 0,
   calendar |-> {}, outages |-> {}, trips |-> {}, flows |-> {}, capacity |-> <<>>,
   affected |-> {a}, frozen |-> {}, urgent |-> {}, delay |-> 2, strategy |-> "global",
   captured |-> 0, order |-> a :> "v" @@ b :> "v" @@ c :> "w",
   promise |-> [v |-> 4, w |-> 4], priority |-> [v |-> 1, w |-> 0], goal |-> "balanced"]

Bases == <<Base(At(1, 0, 2), At(1, 2, 4), At(1, 4, 6), {c}),
           Base(At(1, 0, 2), At(1, 2, 4), At(2, 0, 2), {a})>>

\* The i-th choice from a list, when a choice of n things comes before it.
Choice(list, i, n) == list[((i \div n) % Len(list)) + 1]

\* Which operations are repaired, and how freely.
Repairs ==
  [i \in 1..36 |->
    [Choice(Bases, i, 1) EXCEPT
       !.urgent = Choice(<<{}, {a, b}>>, i, 2),
       !.strategy = Choice(<<"global", "wait", "local">>, i, 4),
       !.affected = Choice(<<{a}, {a}, {b}>>, i, 12),
       !.frozen = Choice(<<{}, {b}, {}>>, i, 12)]]

\* What a plan is measured by.
Aims ==
  [i \in 1..8 |->
    [Bases[1] EXCEPT
       !.strategy = "local",
       !.affected = {a, c},
       !.goal = Choice(<<"balanced", "delivery_priority", "stability_priority",
                         "bottleneck_priority">>, i, 1),
       !.promise.w = Choice(<<2, 6>>, i, 4),
       !.order[b] = Choice(<<"v", "w">>, i, 4)]]

\* Times within a minute: of the delay, of an operation that is kept or moved and
\* of the snapshot, which then is not the origin.
Moments ==
  [i \in 1..24 |->
    [Choice(<<Base(At(1, 0, 2), At(1, 2, 4), At(2, 1, 3), {a}),
              Base(At(1, 0, 2), At(1, 3, 5), At(2, 4, 6), {}),
              Base(At(1, 1, 4), At(1, 4, 6), At(2, 0, 2), {})>>, i, 1) EXCEPT
       !.strategy = Choice(<<"global", "local">>, i, 3),
       !.delay = Choice(<<3, 5>>, i, 6),
       !.captured = Choice(<<0, 1>>, i, 12)]]

MCShops == Repairs \o Aims \o Moments
================================================================================
