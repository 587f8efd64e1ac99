---------------------------- MODULE MCSolveQueue ----------------------------
(* Instances of SolveQueue for TLC. *)
EXTENDS SolveQueue, TLC

CONSTANTS t1, j1, j2, j3, r1, r2, w1, w2, s1, s2

OneTenant == [j \in Jobs |-> t1]
RankByName == [j \in Jobs |-> CASE j = j1 -> 1 [] j = j2 -> 2 [] j = j3 -> 3]
DistinctWorkers == (r1 :> w1) @@ (r2 :> w2)
One == [t \in Tenants |-> 1]

SubSymmetry == Permutations(Subs)

\* The two runs with their workers.
RunSymmetry ==
  {(r1 :> r1) @@ (r2 :> r2) @@ (w1 :> w1) @@ (w2 :> w2),
   (r1 :> r2) @@ (r2 :> r1) @@ (w1 :> w2) @@ (w2 :> w1)}
=============================================================================
