---------------------------- MODULE AppendOnlyLogs ----------------------------
(***************************************************************************)
(* What CDC ingestion promises its readers: for each source a log of       *)
(* entries that belong to it, to which any number of entries is appended   *)
(* at once and of which nothing is ever rewritten or taken away.           *)
(***************************************************************************)
EXTENDS Naturals, Sequences

CONSTANTS Sources, Entries

VARIABLE log

Init == log = [s \in Sources |-> <<>>]

Extend(s) ==
  /\ Len(log'[s]) > Len(log[s])
  /\ SubSeq(log'[s], 1, Len(log[s])) = log[s]
  /\ \A n \in 1 .. Len(log'[s]) : log'[s][n] \in Entries /\ log'[s][n].src = s
  /\ \A u \in Sources \ {s} : log'[u] = log[u]

Next == \E s \in Sources : Extend(s)

Spec == Init /\ [][Next]_log
=============================================================================
