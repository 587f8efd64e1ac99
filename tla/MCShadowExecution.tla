--------------------------- MODULE MCShadowExecution ---------------------------
(* Receipts and requests for TLC. *)
EXTENDS ShadowExecution, TLC

CONSTANTS c1, c2, o1, o2, k1, k2

Receive(c, o, t, e) == [case |-> c, op |-> o, terminal |-> t, event |-> e]

done1    == Receive(c1, o1, TRUE, 1)
done2    == Receive(c1, o2, TRUE, 2)
started2 == Receive(c1, o2, FALSE, 3)
reused1  == Receive(c1, o2, FALSE, 1)
other1   == Receive(c2, o1, TRUE, 1)

\* Two operations of one case; a receipt that does not settle its operation,
\* one with an event already used, and one for another case.
BothExpected == (c1 :> {o1, o2}) @@ (c2 :> {o1})
AllReceipts == {done1, done2, started2, reused1, other1}
OneByOne == {<<done1>>, <<done2>>, <<reused1, started2>>, <<done2, other1>>}

CallSymmetry == Permutations(Calls)
=============================================================================
