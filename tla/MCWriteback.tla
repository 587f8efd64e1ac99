---------------------------- MODULE MCWriteback ----------------------------
(* Instances of Writeback for TLC. *)
EXTENDS Writeback, TLC

CONSTANTS p1, p2, o1, o2, s1, s2

Both == (p1 :> {o1, o2})
OneEach == (p1 :> {o1}) @@ (p2 :> {o1})

\* For the instances in which every plan moves every operation.
Symmetry == Permutations(Sessions) \cup Permutations(Ops)
=============================================================================
