---------------------------- MODULE AnytimePortfolio ----------------------------
(***************************************************************************)
(* The anytime portfolio of a recovery (AnytimeHybridScheduler.solve) and  *)
(* the second judgement of what it returns (HybridSolver, candidate 0).    *)
(* A heuristic and a direct CP-SAT solve the snapshot; then CP-SAT repairs *)
(* the neighborhoods of the affected operations one after the other, each  *)
(* from the incumbent.  Every solver may fail or run out of time.          *)
(*                                                                         *)
(* Of a solver the model knows what its own code fixes, which operations   *)
(* move, how early, to which minutes and for how long: its plan is any     *)
(* such plan within the horizon, which is kept if the validator accepts    *)
(* it, or none.  The further candidates of HybridSolver, direct CP-SAT     *)
(* calls that are judged alone, are left out.                              *)
(*                                                                         *)
(* Beyond the fields in ScheduleRules a shop, which is a snapshot, has     *)
(*   captured  when it was taken                                           *)
(*   order     operation -> work order                                     *)
(*   promise   work order -> due date                                      *)
(*   priority  work order -> Nat                                           *)
(*   goal      the goal mode                                               *)
(***************************************************************************)
EXTENDS ScheduleRules

CONSTANTS
  Shops,       \* the snapshots and repairs to start from, a sequence
  Iterations   \* max_alns_iterations

ASSUME PortfolioConstants ==
  /\ IsFiniteSet(Ops) /\ Horizon \in Nat /\ Iterations \in Nat
  /\ \A i \in DOMAIN Shops :
       LET s == Shops[i] IN
       /\ IsSnapshot(s)
       /\ s.captured \in Nat
       /\ \A o \in Ops : s.promise[s.order[o]] \in Int /\ s.priority[s.order[o]] \in Nat

VARIABLES
  request,     \* the place of the shop in Shops, which does not change
  stage,       \* "heuristic", "direct", "alns", "done"
  candidates,  \* the validated candidates [source, plan, scope, score], in order
  incumbent,   \* the candidate that the next repair starts from, or None
  tries,       \* neighborhoods that were tried
  result,      \* the candidate that solve returns, or None
  verdict      \* of HybridSolver: "none", "blocked", "offered", "discarded"

vars == <<request, stage, candidates, incumbent, tries, result, verdict>>

\* The snapshot and what is asked.
shop == Shops[request]

Init ==
  /\ request \in DOMAIN Shops
  /\ stage = "heuristic"
  /\ candidates = <<>>
  /\ incumbent = None
  /\ tries = 0
  /\ result = None
  /\ verdict = "none"

-----------------------------------------------------------------------------
(* Plans and their objective.                                              *)

Moves(s, p, o) == p[o].from # s.old[o].from \/ p[o].to # s.old[o].to \/ p[o].on # s.old[o].on

\* _changed_operation_ids
Changed(p) == {o \in Ops : Moves(shop, p, o)}

Tardiness(s, p, w) ==
  Max({0} \cup {p[o].to - s.promise[w] : o \in {x \in Ops : s.order[x] = w}})

\* evaluate_schedule: critical tardiness, delayed orders, total and greatest
\* tardiness, shift of the starts, changed operations, makespan.
Objective(s, p) ==
  LET Works == {s.order[o] : o \in Ops}
      late == [w \in Works |-> Tardiness(s, p, w)]
      Abs(n) == IF n < 0 THEN -n ELSE n
  IN <<Total([w \in Works |-> late[w] * s.priority[w]]),
       Cardinality({w \in Works : late[w] > 0}),
       Total(late),
       Max({0} \cup {late[w] : w \in Works}),
       Total([o \in Ops |-> Abs(p[o].from - s.old[o].from)]),
       Cardinality({o \in Ops : Moves(s, p, o)}),
       Max({0} \cup {p[x[1]].to - p[x[2]].from : x \in Ops \X Ops})>>

\* ranking_key: the parts of the objective that a goal mode looks at.
Criteria ==
  IF shop.goal = "delivery_priority" THEN <<1, 2, 3, 4, 5, 7>>
  ELSE IF shop.goal = "stability_priority" THEN <<1, 5, 6, 2, 3, 7>>
  ELSE IF shop.goal = "bottleneck_priority" THEN <<1, 7, 2, 3, 5>>
  ELSE <<1, 2, 3, 5, 7>>

RankingKey(c) == [i \in DOMAIN Criteria |-> c.score[Criteria[i]]]

SourceRank == [alns |-> 0, cp_sat |-> 1, ssgs |-> 2]

\* _candidate_key
Key(c) == Append(RankingKey(c), SourceRank[c.source])

Less(k, l) ==
  \E i \in DOMAIN k : k[i] < l[i] /\ \A j \in 1..(i - 1) : k[j] = l[j]

\* _best_candidate: the first of the least of those at some places of seq.
Best(seq, places) ==
  seq[Min({i \in places : \A j \in places : ~Less(Key(seq[j]), Key(seq[i]))})]

\* Mutated: the vectors are compared the wrong way round.
MutDominates(x, y) ==
  (\A i \in DOMAIN x : x[i] >= y[i]) /\ \E i \in DOMAIN x : x[i] > y[i]

Dominates(x, y) ==
  (\A i \in DOMAIN x : x[i] <= y[i]) /\ \E i \in DOMAIN x : x[i] < y[i]

ContainsSchedule(seq, p) == \E c \in Range(seq) : c.plan = p

\* _pareto_front: the places of the candidates that are kept when they are taken
\* one after the other.
ParetoFront(seq) ==
  LET Skipped(front, n) ==
        \E d \in front : \/ seq[d].plan = seq[n].plan
                         \/ Dominates(seq[d].score, seq[n].score)
      Front[n \in 0..Len(seq)] ==
        IF n = 0 THEN {}
        ELSE IF Skipped(Front[n - 1], n) THEN Front[n - 1]
        ELSE {d \in Front[n - 1] : ~Dominates(seq[n].score, seq[d].score)} \cup {n}
  IN Front[Len(seq)]

-----------------------------------------------------------------------------
(* The solvers.                                                            *)

\* _time_origin of the snapshot with the plan base.  Each solver has its own, and
\* counts whole minutes from it.
Origin(base) == Min({shop.captured} \cup {base[o].from : o \in Ops})

\* original_start and the duration on m, of an operation in base.
Start(base, o) == Origin(base) + Floor(base[o].from - Origin(base))

Duration(base, o, m) ==
  IF m \in DOMAIN shop.length[o] THEN shop.length[o][m]
  ELSE Max({Minute, Floor(base[o].to - base[o].from)})

\* Where o may go: on a minute from the origin, no earlier than in base, or than
\* the origin if it is urgent, with the delay if it is affected.
PlacesOf(base, o, delay) ==
  LET bound == (IF o \in shop.urgent THEN Origin(base) ELSE Start(base, o))
               + (IF o \in shop.affected THEN Rounded(delay) ELSE 0)
      minutes == {t \in bound..Horizon : (t - Origin(base)) % Minute = 0}
      machines == shop.eligible[o] \cup {base[o].on}
  IN {[on |-> x[1], from |-> x[2], to |-> x[2] + Duration(base, o, x[1])] :
        x \in {y \in machines \X minutes : y[2] + Duration(base, o, y[1]) <= Horizon}}

\* Plans that move the operations of the scope only; the others are as in kept.
Answers(base, kept, scope, delay) ==
  LET places == [o \in Ops |-> IF o \in scope THEN PlacesOf(base, o, delay) ELSE {kept[o]}]
  IN {p \in [Ops -> UNION Range(places)] : \A o \in Ops : p[o] \in places[o]}

\* CP-SAT writes the operations that it keeps anew, in whole minutes.
Rewritten(base) ==
  [o \in Ops |-> [on |-> base[o].on, from |-> Start(base, o),
                  to |-> Start(base, o) + Duration(base, o, base[o].on)]]

\* _validated: all but the mutable operations are frozen.
Validated(p, mutable) ==
  Accepted(shop, p, Ops \ (mutable \ shop.frozen))

\* Mutated: what comes after the neighborhood is not repaired with it.
MutRepairScope(hood) == hood \ shop.frozen

\* The scope of a local repair of a neighborhood.
RepairScope(hood) == Downstream(shop, hood) \ shop.frozen

\* _build_neighborhoods
Neighborhoods ==
  LET after == Downstream(shop, shop.affected)
      onSame == {o \in Ops : \E a \in shop.affected : shop.old[o].on = shop.old[a].on}
      ofSame == {o \in Ops : \E a \in shop.affected : shop.order[o] = shop.order[a]}
      Add(hoods, h) == IF h = {} \/ h \in Range(hoods) THEN hoods ELSE Append(hoods, h)
      first == Add(Add(<<>>, shop.affected), after)
      all == Add(Add(first, shop.affected \cup onSame), after \cup ofSame)
  IN SubSeq(all, 1, Min({Iterations, Len(all)}))

Candidate(source, p, scope) ==
  [source |-> source, plan |-> p, scope |-> scope, score |-> Objective(shop, p)]

Heuristic ==
  /\ stage = "heuristic"
  /\ \/ \E p \in Answers(shop.old, shop.old, Scope(shop), shop.delay) :
          /\ Validated(p, Scope(shop))
          /\ candidates' = <<Candidate("ssgs", p, Scope(shop))>>
     \/ candidates' = candidates
  /\ stage' = "direct"
  /\ UNCHANGED <<request, incumbent, tries, result, verdict>>

Direct ==
  /\ stage = "direct"
  /\ \/ \E p \in Answers(shop.old, Rewritten(shop.old), Scope(shop), shop.delay) :
          /\ Validated(p, Scope(shop))
          /\ candidates' = Append(candidates, Candidate("cp_sat", p, Scope(shop)))
     \/ candidates' = candidates
  /\ incumbent' = IF candidates' = <<>> THEN None ELSE Best(candidates', DOMAIN candidates')
  /\ stage' = "alns"
  /\ UNCHANGED <<request, tries, result, verdict>>

\* Mutated: the repair starts from the snapshot, where nothing is delayed.
MutStartOf(c) == shop.old

\* The plan that is the snapshot of the next repair.
StartOf(c) == c.plan

\* One repair of the next neighborhood.
Repair ==
  /\ stage = "alns"
  /\ candidates # <<>>
  /\ tries < Len(Neighborhoods)
  /\ tries' = tries + 1
  /\ LET scope == RepairScope(Neighborhoods[tries + 1])
         base == StartOf(incumbent)
     IN
     \/ \E p \in Answers(base, Rewritten(base), scope, 0) :
          LET repaired == Candidate("alns", p, scope) IN
          /\ Validated(p, scope \cup Changed(incumbent.plan))
          /\ candidates' = IF ContainsSchedule(candidates, p) THEN candidates
                           ELSE Append(candidates, repaired)
          /\ incumbent' = IF Less(Key(repaired), Key(incumbent)) THEN repaired
                          ELSE incumbent
     \/ UNCHANGED <<candidates, incumbent>>
  /\ UNCHANGED <<request, stage, result, verdict>>

\* HybridSolver judges the plan once more: what its last solver did not move is
\* frozen.
Offered(c) == Validated(c.plan, c.scope)

\* The neighborhoods are exhausted or the time is over.
Finish ==
  /\ stage = "alns"
  /\ stage' = "done"
  /\ IF candidates = <<>>
     THEN result' = None /\ verdict' = "blocked"
     ELSE /\ result' = Best(candidates, ParetoFront(candidates))
          /\ verdict' = IF Offered(result') THEN "offered" ELSE "discarded"
  /\ UNCHANGED <<request, candidates, incumbent, tries>>

Next == Heuristic \/ Direct \/ Repair \/ Finish

Spec == Init /\ [][Next]_vars

-----------------------------------------------------------------------------
(* Properties.                                                             *)

\* The plan that is returned after the Pareto filter is the best of all that
\* were validated, the last incumbent among them, under the goal, and none of
\* them is better in one objective and as good in the others.
BestOfAll ==
  verdict \in {"offered", "discarded"} =>
    \A c \in Range(candidates) \cup {incumbent} :
      /\ ~Less(RankingKey(c), RankingKey(result))
      /\ ~Dominates(c.score, result.score)

\* The repairs are asked with no delay at all; that they start from an incumbent
\* which has it keeps every affected operation that is not urgent from moving
\* back to a time when its machine is still down.  What is lost of the delay is
\* half a minute to rounding, and less than a minute to each solver's counting
\* from an origin of its own.
DelaysAreKept ==
  verdict \in {"offered", "discarded"} =>
    \A o \in shop.affected \ (shop.frozen \cup shop.urgent) :
      2 * (result.plan[o].from - shop.old[o].from - shop.delay) + (2 * tries + 3) * Minute > 0

\* HybridSolver discards what the portfolio validated if it moves an operation
\* outside the scope of its last repair.  With two repairs this happens under
\* the global strategy only, where the scope of the first solvers is wider.
LocalRepairsAreOffered ==
  verdict = "discarded" => shop.strategy = "global" /\ result.source = "alns"
================================================================================
