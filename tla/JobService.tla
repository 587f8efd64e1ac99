------------------------------ MODULE JobService ------------------------------
(***************************************************************************)
(* What the durable solve queue promises its callers, with no worker, no   *)
(* lease clock and no store in sight: a job waits until it is granted,     *)
(* within its tenant's quota, to one holder at a time; the holder records  *)
(* each piece of work once and for all; the grant may be taken back; and   *)
(* the job gets one outcome, "completed" only when all its work is         *)
(* recorded.  SolveQueue is shown to implement this specification.         *)
(***************************************************************************)
EXTENDS Naturals, FiniteSets

CONSTANTS Jobs, Subs, Tenants, TenantOf, Quota(_)

VARIABLES
  phase,    \* [Jobs -> "absent" | "waiting" | "held" | "done"]
  outcome,  \* [Jobs -> "none" | "cancelled" | "completed" | "failed"]
  work      \* [Jobs -> SUBSET Subs]: what has been recorded

vars == <<phase, outcome, work>>

Holding(t) == {j \in Jobs : TenantOf[j] = t /\ phase[j] = "held"}

Init ==
  /\ phase = [j \in Jobs |-> "absent"]
  /\ outcome = [j \in Jobs |-> "none"]
  /\ work = [j \in Jobs |-> {}]

Admit(j) ==
  /\ phase[j] = "absent"
  /\ phase' = [phase EXCEPT ![j] = "waiting"]
  /\ UNCHANGED <<outcome, work>>

Grant(j) ==
  /\ phase[j] = "waiting"
  /\ Cardinality(Holding(TenantOf[j])) < Quota(TenantOf[j])
  /\ phase' = [phase EXCEPT ![j] = "held"]
  /\ UNCHANGED <<outcome, work>>

Record(j, s) ==
  /\ phase[j] = "held"
  /\ s \notin work[j]
  /\ work' = [work EXCEPT ![j] = @ \cup {s}]
  /\ UNCHANGED <<phase, outcome>>

\* The holders of the jobs in back lose them to the queue, those of the jobs
\* in off to a cancellation.
Reclaim(back, off) ==
  /\ \A j \in back \cup off : phase[j] = "held"
  /\ phase' = [j \in Jobs |-> IF j \in back THEN "waiting"
                              ELSE IF j \in off THEN "done" ELSE phase[j]]
  /\ outcome' = [j \in Jobs |-> IF j \in off THEN "cancelled" ELSE outcome[j]]
  /\ UNCHANGED work

Settle(j, v) ==
  /\ \/ phase[j] = "waiting" /\ v = "cancelled"
     \/ phase[j] = "held"
  /\ v = "completed" => work[j] = Subs
  /\ phase' = [phase EXCEPT ![j] = "done"]
  /\ outcome' = [outcome EXCEPT ![j] = v]
  /\ UNCHANGED work

Next ==
  \/ \E j \in Jobs : \/ Admit(j)
                     \/ Grant(j)
                     \/ \E s \in Subs : Record(j, s)
                     \/ \E v \in {"cancelled", "completed", "failed"} : Settle(j, v)
  \/ \E back, off \in SUBSET Jobs : back \cap off = {} /\ Reclaim(back, off)

Spec == Init /\ [][Next]_vars
=============================================================================
