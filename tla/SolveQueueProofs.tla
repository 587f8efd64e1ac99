--------------------------- MODULE SolveQueueProofs ---------------------------
(***************************************************************************)
(* Proofs about the durable solve queue, for any number of tenants, jobs,  *)
(* workers, runs and subproblems, and without a bound on attempts: what    *)
(* holds whatever the worker ids are, the quotas, what the lease protects  *)
(* when the worker ids are distinct, and the refinement of JobService.     *)
(***************************************************************************)
EXTENDS SolveQueue, FiniteSetTheorems, TLAPS

\* What the local state of a run_once call looks like between its steps.
RunShape ==
  \A r \in Runs :
    /\ pc[r] \in Working => held[r] \in Jobs
    /\ beating[r] => pc[r] \in Working
    /\ pc[r] = "finishing" => verdict[r] \in Terminal

\* The table and the runs are coherent: the inductive invariant.
Coherent == TypeOK /\ RunShape /\ LeaseMatchesStatus

LEMMA InitCoherent == Init => Coherent
  BY QueueConstants
  DEF Init, Coherent, TypeOK, RunShape, LeaseMatchesStatus, Status, Active, Terminal,
      Part, Saving, Done, Working

LEMMA OwnedJobIsActive ==
  ASSUME Coherent, NEW r \in Runs, held[r] \in Jobs, OwnsLease(r)
  PROVE  status[held[r]] \in Active /\ lease[held[r]] # "none"
  BY QueueConstants DEF Coherent, TypeOK, LeaseMatchesStatus, OwnsLease

LEMMA StepCoherent == Coherent /\ [Next]_vars => Coherent'
<1> SUFFICES ASSUME Coherent, [Next]_vars PROVE Coherent'
  OBVIOUS
<1> USE QueueConstants
<1>1. ASSUME NEW j \in Jobs, Submit(j) PROVE Coherent'
  <2>1. TypeOK'
    BY <1>1 DEF Coherent, TypeOK, Submit, local, Status
  <2>2. RunShape'
    BY <1>1 DEF Coherent, RunShape, Submit, local
  <2>3. LeaseMatchesStatus'
    BY <1>1 DEF Coherent, TypeOK, LeaseMatchesStatus, Submit, local, Active
  <2> QED BY <2>1, <2>2, <2>3 DEF Coherent
<1>2. ASSUME NEW j \in Jobs, Cancel(j) PROVE Coherent'
  <2>1. TypeOK'
    BY <1>2 DEF Coherent, TypeOK, Cancel, local, Status, Active, Terminal
  <2>2. RunShape'
    BY <1>2 DEF Coherent, RunShape, Cancel, local
  <2>3. LeaseMatchesStatus'
    BY <1>2 DEF Coherent, TypeOK, LeaseMatchesStatus, Cancel, local, Active
  <2> QED BY <2>1, <2>2, <2>3 DEF Coherent
<1>3. ASSUME NEW j \in Jobs, Expire(j) PROVE Coherent'
  <2>1. TypeOK'
    BY <1>3 DEF Coherent, TypeOK, Expire, local
  <2>2. RunShape'
    BY <1>3 DEF Coherent, RunShape, Expire, local
  <2>3. LeaseMatchesStatus'
    BY <1>3 DEF Coherent, TypeOK, LeaseMatchesStatus, Expire, local
  <2> QED BY <2>1, <2>2, <2>3 DEF Coherent
<1>4. ASSUME NEW r \in Runs, ClaimRecover(r) PROVE Coherent'
  <2>1. TypeOK'
    BY <1>4 DEF Coherent, TypeOK, ClaimRecover, RecoverExpired, AfterRecovery, Status,
                Terminal
  <2>2. RunShape'
    BY <1>4 DEF Coherent, TypeOK, RunShape, ClaimRecover, Working
  <2>3. LeaseMatchesStatus'
    BY <1>4 DEF Coherent, TypeOK, LeaseMatchesStatus, ClaimRecover, RecoverExpired,
                AfterRecovery, Active
  <2> QED BY <2>1, <2>2, <2>3 DEF Coherent
<1>5. ASSUME NEW r \in Runs, NEW j \in Jobs, ClaimJob(r, j) PROVE Coherent'
  <2>1. Resume(j) \in [Subs -> Part]
    BY <1>5 DEF Resume, Part, Done
  <2>2. TypeOK'
    BY <1>5, <2>1 DEF Coherent, TypeOK, ClaimJob, Status, Active, Working
  <2>3. RunShape'
    BY <1>5 DEF Coherent, TypeOK, RunShape, ClaimJob, Working
  <2>4. LeaseMatchesStatus'
    BY <1>5 DEF Coherent, TypeOK, LeaseMatchesStatus, ClaimJob, Active
  <2> QED BY <2>2, <2>3, <2>4 DEF Coherent
<1>6. ASSUME NEW r \in Runs, ClaimNothing(r) PROVE Coherent'
  <2>1. TypeOK'
    BY <1>6 DEF Coherent, TypeOK, ClaimNothing, table
  <2>2. RunShape'
    BY <1>6 DEF Coherent, TypeOK, RunShape, ClaimNothing, Working
  <2>3. LeaseMatchesStatus'
    BY <1>6 DEF Coherent, LeaseMatchesStatus, ClaimNothing, table
  <2> QED BY <2>1, <2>2, <2>3 DEF Coherent
<1>7. ASSUME NEW r \in Runs, NEW v \in Terminal, pc[r] \in Working, Decide(r, v)
      PROVE  Coherent'
  <2>1. TypeOK'
    BY <1>7 DEF Coherent, TypeOK, Decide, table, Working
  <2>2. RunShape'
    BY <1>7 DEF Coherent, TypeOK, RunShape, Decide, Working
  <2>3. LeaseMatchesStatus'
    BY <1>7 DEF Coherent, LeaseMatchesStatus, Decide, table
  <2> QED BY <2>1, <2>2, <2>3 DEF Coherent
<1>8. ASSUME NEW r \in Runs, pc[r] \in Working, pc' = [pc EXCEPT ![r] = "solving"]
                                      \/ pc' = [pc EXCEPT ![r] = "merging"],
             UNCHANGED <<table, held, seen, beating, part, verdict>>
      PROVE  Coherent'
  <2>1. TypeOK'
    BY <1>8 DEF Coherent, TypeOK, table, Working
  <2>2. RunShape'
    BY <1>8 DEF Coherent, TypeOK, RunShape, Working
  <2>3. LeaseMatchesStatus'
    BY <1>8 DEF Coherent, LeaseMatchesStatus, table
  <2> QED BY <2>1, <2>2, <2>3 DEF Coherent
<1>9. ASSUME NEW r \in Runs, Prepare(r) PROVE Coherent'
  <2>1. pc[r] \in Working
    BY <1>9 DEF Prepare, Working
  <2> QED BY <1>7, <1>8, <1>9, <2>1 DEF Prepare, Terminal
<1>10. ASSUME NEW r \in Runs, NEW s \in Subs, NEW p \in Part,
              part' = [part EXCEPT ![r][s] = p],
              UNCHANGED <<status, owner, lease, attempt, pc, held, seen, beating, verdict>>,
              ckpt' \in [Jobs -> [Subs -> {"none", "feasible", "infeasible"}]]
       PROVE  Coherent'
  <2>1. TypeOK'
    BY <1>10 DEF Coherent, TypeOK
  <2>2. RunShape'
    BY <1>10 DEF Coherent, RunShape
  <2>3. LeaseMatchesStatus'
    BY <1>10 DEF Coherent, LeaseMatchesStatus
  <2> QED BY <2>1, <2>2, <2>3 DEF Coherent
<1>11. ASSUME NEW r \in Runs, NEW s \in Subs, SolveStart(r, s) PROVE Coherent'
  <2>1. ckpt' \in [Jobs -> [Subs -> {"none", "feasible", "infeasible"}]]
    BY <1>11 DEF SolveStart, table, Coherent, TypeOK
  <2>2. PICK p \in Part : part' = [part EXCEPT ![r][s] = p]
    BY <1>11 DEF SolveStart, Part, Done
  <2> QED BY <1>10, <1>11, <2>1, <2>2 DEF SolveStart, table
<1>12. ASSUME NEW r \in Runs, NEW s \in Subs, SolveEnd(r, s) PROVE Coherent'
  <2>1. ckpt' \in [Jobs -> [Subs -> {"none", "feasible", "infeasible"}]]
    BY <1>12 DEF SolveEnd, table, Coherent, TypeOK
  <2>2. PICK p \in Part : part' = [part EXCEPT ![r][s] = p]
    BY <1>12 DEF SolveEnd, Part, Done
  <2> QED BY <1>10, <1>12, <2>1, <2>2 DEF SolveEnd, table
<1>13. ASSUME NEW r \in Runs, NEW s \in Subs, Save(r, s) PROVE Coherent'
  <2>1. held[r] \in Jobs
    BY <1>13 DEF Save, Coherent, RunShape, Working
  <2>2. ckpt' \in [Jobs -> [Subs -> {"none", "feasible", "infeasible"}]]
    BY <1>13, <2>1 DEF Save, Coherent, TypeOK
  <2>3. PICK p \in Part : part' = [part EXCEPT ![r][s] = p]
    BY <1>13 DEF Save, Part, Done
  <2> QED BY <1>10, <1>13, <2>2, <2>3 DEF Save
<1>14. ASSUME NEW r \in Runs, Collect(r) PROVE Coherent'
  <2>1. pc[r] \in Working
    BY <1>14 DEF Collect, Working
  <2> QED BY <1>7, <1>8, <1>14, <2>1 DEF Collect, Terminal
<1>15. ASSUME NEW r \in Runs, Merge(r) PROVE Coherent'
  <2>1. pc[r] \in Working
    BY <1>15 DEF Merge, Working
  <2> QED BY <1>7, <1>15, <2>1 DEF Merge, Terminal
<1>16. ASSUME NEW r \in Runs, Forget(r)
       PROVE  /\ pc' \in [Runs -> {"idle", "claiming"} \cup Working]
              /\ held' \in [Runs -> Jobs \cup {None}]
              /\ seen' \in [Runs -> Nat]
              /\ beating' \in [Runs -> BOOLEAN]
              /\ part' \in [Runs -> [Subs -> Part]]
              /\ verdict' \in [Runs -> Terminal \cup {"none"}]
              /\ RunShape'
  <2>1. [s \in Subs |-> "todo"] \in [Subs -> Part]
    BY DEF Part
  <2>2. RunShape'
    BY <1>16 DEF Forget, Coherent, TypeOK, RunShape, Working
  <2> QED BY <1>16, <2>1, <2>2 DEF Forget, Coherent, TypeOK
<1>17. ASSUME NEW r \in Runs, Finish(r) PROVE Coherent'
  <2>1. held[r] \in Jobs /\ verdict[r] \in Terminal
    BY <1>17 DEF Finish, Coherent, RunShape, Working
  <2>2. Forget(r) /\ UNCHANGED <<attempt, ckpt>>
    BY <1>17 DEF Finish
  <2>3. CASE OwnsLease(r)
    <3>1. /\ status' = [status EXCEPT ![held[r]] = verdict[r]]
          /\ owner' = [owner EXCEPT ![held[r]] = None]
          /\ lease' = [lease EXCEPT ![held[r]] = "none"]
      BY <1>17, <2>3 DEF Finish
    <3>2. TypeOK'
      BY <1>16, <2>1, <2>2, <3>1 DEF Coherent, TypeOK, Status
    <3>3. LeaseMatchesStatus'
      BY <2>1, <3>1 DEF Coherent, TypeOK, LeaseMatchesStatus, Active, Terminal
    <3> QED BY <1>16, <2>2, <3>2, <3>3 DEF Coherent
  <2>4. CASE ~OwnsLease(r)
    <3>1. UNCHANGED <<status, owner, lease>>
      BY <1>17, <2>4 DEF Finish
    <3>2. TypeOK'
      BY <1>16, <2>2, <3>1 DEF Coherent, TypeOK
    <3>3. LeaseMatchesStatus'
      BY <3>1 DEF Coherent, LeaseMatchesStatus
    <3> QED BY <1>16, <2>2, <3>2, <3>3 DEF Coherent
  <2> QED BY <2>3, <2>4
<1>18. ASSUME NEW r \in Runs, Crash(r) PROVE Coherent'
  <2>1. Forget(r) /\ UNCHANGED <<status, owner, lease, attempt, ckpt>>
    BY <1>18 DEF Crash, table
  <2>2. TypeOK'
    BY <1>16, <2>1 DEF Coherent, TypeOK
  <2>3. LeaseMatchesStatus'
    BY <2>1 DEF Coherent, LeaseMatchesStatus
  <2> QED BY <1>16, <2>1, <2>2, <2>3 DEF Coherent
<1>19. ASSUME NEW r \in Runs, Heartbeat(r) PROVE Coherent'
  <2>1. held[r] \in Jobs
    BY <1>19 DEF Heartbeat, Coherent, RunShape
  <2>2. CASE MayWrite(r)
    <3>1. /\ lease' = [lease EXCEPT ![held[r]] = "live"]
          /\ UNCHANGED <<status, owner, attempt, ckpt, pc, held, seen, beating, part, verdict>>
      BY <1>19, <2>2 DEF Heartbeat
    <3>2. lease[held[r]] # "none"
      BY OwnedJobIsActive, <2>1, <2>2 DEF MayWrite
    <3>3. TypeOK'
      BY <2>1, <3>1 DEF Coherent, TypeOK
    <3>4. RunShape'
      BY <3>1 DEF Coherent, RunShape
    <3>5. LeaseMatchesStatus'
      BY <2>1, <3>1, <3>2 DEF Coherent, TypeOK, LeaseMatchesStatus
    <3> QED BY <3>3, <3>4, <3>5 DEF Coherent
  <2>3. CASE ~MayWrite(r)
    <3>1. /\ beating' = [beating EXCEPT ![r] = FALSE]
          /\ UNCHANGED <<status, owner, lease, attempt, ckpt, pc, held, seen, part, verdict>>
      BY <1>19, <2>3 DEF Heartbeat
    <3>2. TypeOK'
      BY <3>1 DEF Coherent, TypeOK
    <3>3. RunShape'
      BY <3>1 DEF Coherent, TypeOK, RunShape
    <3>4. LeaseMatchesStatus'
      BY <3>1 DEF Coherent, LeaseMatchesStatus
    <3> QED BY <3>2, <3>3, <3>4 DEF Coherent
  <2> QED BY <2>2, <2>3
<1>20. CASE UNCHANGED vars
  BY <1>20 DEF Coherent, TypeOK, RunShape, LeaseMatchesStatus, vars, table, local
<1> QED
  BY <1>1, <1>2, <1>3, <1>4, <1>5, <1>6, <1>9, <1>11, <1>12, <1>13, <1>14, <1>15,
     <1>17, <1>18, <1>19, <1>20
  DEF Next, RunStep

\* Every reachable state of the queue is well typed and its rows are coherent:
\* a job has an owner and a lease exactly while it is running or being
\* cancelled.
THEOREM QueueCoherent == Spec => []Coherent
<1>1. Init => Coherent
  BY InitCoherent
<1>2. Coherent /\ [Next]_vars => Coherent'
  BY StepCoherent
<1> QED BY <1>1, <1>2, PTL DEF Spec

\* Type correctness of the queue.
THEOREM QueueTypeOK == Spec => []TypeOK
<1>1. Coherent => TypeOK
  BY DEF Coherent
<1> QED BY <1>1, QueueCoherent, PTL

\* A job has an owner and a lease exactly while it is running or cancelling,
\* whatever claims, heartbeats, recoveries, crashes and finishes interleave.
THEOREM LeasesMatch == Spec => []LeaseMatchesStatus
<1>1. Coherent => LeaseMatchesStatus
  BY DEF Coherent
<1> QED BY <1>1, QueueCoherent, PTL

-----------------------------------------------------------------------------
(* What a step may never do to a settled or a cancelled job.               *)

LEMMA StepTerminalIsFinal ==
  ASSUME Coherent, [Next]_vars, NEW j \in Jobs, status[j] \in Terminal
  PROVE  status'[j] = status[j] /\ ckpt'[j] = ckpt[j] /\ owner'[j] = None
<1> USE QueueConstants
<1>1. owner[j] = None /\ status[j] \notin Active
  BY DEF Coherent, LeaseMatchesStatus, Active, Terminal
<1>2. \A r \in Runs : held[r] = j => ~OwnsLease(r)
  BY <1>1 DEF OwnsLease
<1>3. CASE UNCHANGED table \/ UNCHANGED <<status, owner, ckpt>>
  BY <1>1, <1>3 DEF table
<1>4. ASSUME NEW k \in Jobs, Submit(k) \/ Cancel(k) \/ Expire(k)
      PROVE  status'[j] = status[j] /\ ckpt'[j] = ckpt[j] /\ owner'[j] = None
  BY <1>1, <1>4 DEF Submit, Cancel, Expire, Coherent, TypeOK, Terminal
<1>5. ASSUME NEW r \in Runs, ClaimRecover(r)
      PROVE  status'[j] = status[j] /\ ckpt'[j] = ckpt[j] /\ owner'[j] = None
  BY <1>1, <1>5 DEF ClaimRecover, RecoverExpired, Overdue
<1>6. ASSUME NEW r \in Runs, NEW k \in Jobs, ClaimJob(r, k)
      PROVE  status'[j] = status[j] /\ ckpt'[j] = ckpt[j] /\ owner'[j] = None
  <2>1. k # j
    BY <1>6 DEF ClaimJob, Eligible, Candidates, Terminal
  <2> QED BY <1>1, <1>6, <2>1 DEF ClaimJob, Coherent, TypeOK
<1>7. ASSUME NEW r \in Runs, NEW s \in Subs, Save(r, s)
      PROVE  status'[j] = status[j] /\ ckpt'[j] = ckpt[j] /\ owner'[j] = None
  BY <1>1, <1>2, <1>7 DEF Save, MayWrite, Coherent, TypeOK
<1>8. ASSUME NEW r \in Runs, Finish(r)
      PROVE  status'[j] = status[j] /\ ckpt'[j] = ckpt[j] /\ owner'[j] = None
  BY <1>1, <1>2, <1>8 DEF Finish, Coherent, TypeOK
<1> QED
  BY <1>3, <1>4, <1>5, <1>6, <1>7, <1>8
  DEF Next, RunStep, ClaimNothing, Prepare, Decide, SolveStart, SolveEnd, Collect, Merge,
      Crash, Heartbeat, vars

\* Once settled, a job keeps its outcome and its checkpoint, whichever late
\* finish, checkpoint, heartbeat, recovery or cancel still arrives.
THEOREM SettledIsFinal == Spec => TerminalIsFinal
<1>1. Coherent /\ [Next]_vars =>
        [\A j \in Jobs : status[j] \in Terminal =>
           status'[j] = status[j] /\ ckpt'[j] = ckpt[j] /\ owner'[j] = None]_vars
  BY StepTerminalIsFinal
<1> QED BY <1>1, QueueCoherent, PTL DEF Spec, TerminalIsFinal

LEMMA StepCancelIsSticky ==
  ASSUME Coherent, [Next]_vars, NEW j \in Jobs, status[j] = "cancel_requested"
  PROVE  status'[j] \in {"cancel_requested"} \cup Terminal
<1> USE QueueConstants
<1>1. CASE UNCHANGED status
  BY <1>1
<1>2. ASSUME NEW k \in Jobs, Submit(k) \/ Cancel(k) \/ Expire(k)
      PROVE  status'[j] \in {"cancel_requested"} \cup Terminal
  BY <1>2 DEF Submit, Cancel, Expire, Coherent, TypeOK
<1>3. ASSUME NEW r \in Runs, ClaimRecover(r)
      PROVE  status'[j] \in {"cancel_requested"} \cup Terminal
  BY <1>3 DEF ClaimRecover, RecoverExpired, AfterRecovery, Terminal
<1>4. ASSUME NEW r \in Runs, NEW k \in Jobs, ClaimJob(r, k)
      PROVE  status'[j] \in {"cancel_requested"} \cup Terminal
  <2>1. k # j
    BY <1>4 DEF ClaimJob, Eligible, Candidates
  <2> QED BY <1>4, <2>1 DEF ClaimJob, Coherent, TypeOK
<1>5. ASSUME NEW r \in Runs, Finish(r)
      PROVE  status'[j] \in {"cancel_requested"} \cup Terminal
  <2>1. verdict[r] \in Terminal
    BY <1>5 DEF Finish, Coherent, RunShape
  <2> QED BY <1>5, <2>1 DEF Finish, Coherent, TypeOK
<1>6. ASSUME NEW r \in Runs, RunStep(r), ~ClaimRecover(r), ~Finish(r),
             ~ \E k \in Jobs : ClaimJob(r, k)
      PROVE  UNCHANGED status
  BY <1>6 DEF RunStep, ClaimNothing, Prepare, Decide, SolveStart, SolveEnd, Save, Collect,
             Merge, table
<1>7. ASSUME NEW r \in Runs, Heartbeat(r) \/ Crash(r) PROVE UNCHANGED status
  BY <1>7 DEF Heartbeat, Crash, table
<1>8. \/ UNCHANGED status
      \/ \E k \in Jobs : Submit(k) \/ Cancel(k) \/ Expire(k)
      \/ \E r \in Runs : RunStep(r) \/ Heartbeat(r) \/ Crash(r)
  BY DEF Next, vars, table
<1> QED  BY <1>1, <1>2, <1>3, <1>4, <1>5, <1>6, <1>7, <1>8

\* An accepted cancellation is never undone: the job is neither queued nor
\* claimed again, also when its lease is lost.
THEOREM CancelStays == Spec => CancelIsSticky
<1>1. Coherent /\ [Next]_vars =>
        [\A j \in Jobs : status[j] = "cancel_requested" =>
           status'[j] \in {"cancel_requested"} \cup Terminal]_vars
  BY StepCancelIsSticky
<1> QED BY <1>1, QueueCoherent, PTL DEF Spec, CancelIsSticky
-----------------------------------------------------------------------------
(***************************************************************************)
(* The two quotas, for any finite number of jobs and whatever the worker   *)
(* ids are: the claim and the submission count rows in the transaction     *)
(* that adds one.                                                          *)
(***************************************************************************)

LEMMA ClaimQuotaIsNat == \A t \in Tenants : ClaimQuota(t) \in Nat
  BY QueueConstants DEF ClaimQuota

LEMMA SetsAreFinite ==
  ASSUME NEW S \in SUBSET Jobs PROVE IsFiniteSet(S) /\ Cardinality(S) \in Nat
  BY FiniteJobs, FS_Subset, FS_CardinalityType

LEMMA SmallerCardinality ==
  ASSUME NEW S \in SUBSET Jobs, NEW T \in SUBSET S PROVE Cardinality(T) <= Cardinality(S)
  BY SetsAreFinite, FS_Subset

LEMMA OneMoreCardinality ==
  ASSUME NEW S \in SUBSET Jobs, NEW j \in Jobs, NEW T \in SUBSET (S \cup {j})
  PROVE  Cardinality(T) <= Cardinality(S) + 1
<1>1. IsFiniteSet(S) /\ Cardinality(S) \in Nat
  BY SetsAreFinite
<1>2. Cardinality(S \cup {j}) \in {Cardinality(S), Cardinality(S) + 1}
  BY <1>1, FS_AddElement
<1>3. S \cup {j} \in SUBSET Jobs
  OBVIOUS
<1>4. Cardinality(T) <= Cardinality(S \cup {j})
  BY <1>3, SmallerCardinality
<1>5. Cardinality(T) \in Nat
  <2>1. T \in SUBSET Jobs
    BY <1>3
  <2> QED BY <2>1, SetsAreFinite
<1> QED BY <1>1, <1>2, <1>4, <1>5

\* How a step changes the statuses: a submission, a claim, or no job becomes
\* queued or running that was neither.
LEMMA StatusSteps ==
  ASSUME Coherent, [Next]_vars
  PROVE  \/ \E j \in Jobs : Submit(j)
         \/ \E r \in Runs, j \in Jobs : ClaimJob(r, j)
         \/ \A j \in Jobs :
              /\ status'[j] \in Active => status[j] \in Active
              /\ status'[j] = "queued" => status[j] \in Active \cup {"queued"}
<1> DEFINE NoMore == \A j \in Jobs :
                       /\ status'[j] \in Active => status[j] \in Active
                       /\ status'[j] = "queued" => status[j] \in Active \cup {"queued"}
<1>1. CASE UNCHANGED status
  BY <1>1
<1>2. ASSUME NEW k \in Jobs, Cancel(k) \/ Expire(k) PROVE NoMore
  BY <1>2 DEF Cancel, Expire, Active, Coherent, TypeOK
<1>3. ASSUME NEW r \in Runs, ClaimRecover(r) PROVE NoMore
  BY <1>3 DEF ClaimRecover, RecoverExpired, Overdue, AfterRecovery, Active
<1>4. ASSUME NEW r \in Runs, Finish(r) PROVE NoMore
  <2>1. verdict[r] \in Terminal
    BY <1>4 DEF Finish, Coherent, RunShape
  <2> QED BY <1>4, <2>1 DEF Finish, Terminal, Active, Coherent, TypeOK
<1> QED
  BY <1>1, <1>2, <1>3, <1>4
  DEF Next, RunStep, ClaimNothing, Prepare, Decide, SolveStart, SolveEnd, Save, Collect,
      Merge, Crash, Heartbeat, vars, table

LEMMA StepWithinClaimQuota ==
  ASSUME Coherent, RunningWithinClaimQuota, [Next]_vars
  PROVE  RunningWithinClaimQuota'
<1> SUFFICES ASSUME NEW t \in Tenants PROVE Cardinality(ActiveOf(t)') <= ClaimQuota(t)
  BY DEF RunningWithinClaimQuota, ClaimQuota
<1>1. /\ ActiveOf(t) \in SUBSET Jobs
      /\ Cardinality(ActiveOf(t)) <= ClaimQuota(t)
  BY DEF ActiveOf, RunningWithinClaimQuota
<1>2. ASSUME ActiveOf(t)' \subseteq ActiveOf(t) PROVE Cardinality(ActiveOf(t)') <= ClaimQuota(t)
  <2>1. Cardinality(ActiveOf(t)') <= Cardinality(ActiveOf(t))
    BY <1>1, <1>2, SmallerCardinality
  <2>2. Cardinality(ActiveOf(t)') \in Nat /\ Cardinality(ActiveOf(t)) \in Nat
    BY <1>1, <1>2, SetsAreFinite
  <2> QED BY <1>1, <2>1, <2>2, ClaimQuotaIsNat
<1>3. ASSUME NEW r \in Runs, NEW j \in Jobs, ClaimJob(r, j)
      PROVE  Cardinality(ActiveOf(t)') <= ClaimQuota(t)
  <2>1. CASE TenantOf[j] # t
    <3>1. ActiveOf(t)' \subseteq ActiveOf(t)
      BY <1>3, <2>1 DEF ClaimJob, ActiveOf, Coherent, TypeOK
    <3> QED BY <1>2, <3>1
  <2>2. CASE TenantOf[j] = t
    <3>1. Cardinality(ActiveOf(t)) < ClaimQuota(t)
      BY <1>3, <2>2 DEF ClaimJob, Eligible, HasRunningRoom
    <3>2. ActiveOf(t)' \subseteq ActiveOf(t) \cup {j}
      BY <1>3 DEF ClaimJob, ActiveOf, Coherent, TypeOK
    <3>3. Cardinality(ActiveOf(t)') <= Cardinality(ActiveOf(t)) + 1
      BY <1>1, <3>2, OneMoreCardinality
    <3>4. Cardinality(ActiveOf(t)') \in Nat /\ Cardinality(ActiveOf(t)) \in Nat
      BY <1>1, <3>2, SetsAreFinite
    <3> QED BY <3>1, <3>3, <3>4, ClaimQuotaIsNat
  <2> QED BY <2>1, <2>2
<1>4. ASSUME NEW j \in Jobs, Submit(j) PROVE Cardinality(ActiveOf(t)') <= ClaimQuota(t)
  <2>1. ActiveOf(t)' \subseteq ActiveOf(t)
    BY <1>4 DEF Submit, ActiveOf, Active, Coherent, TypeOK
  <2> QED BY <1>2, <2>1
<1>5. ASSUME \A j \in Jobs : status'[j] \in Active => status[j] \in Active
      PROVE  Cardinality(ActiveOf(t)') <= ClaimQuota(t)
  BY <1>2, <1>5 DEF ActiveOf
<1> QED BY <1>3, <1>4, <1>5, StatusSteps

LEMMA InitWithinClaimQuota == Init => RunningWithinClaimQuota
<1> SUFFICES ASSUME Init, NEW t \in Tenants PROVE Cardinality(ActiveOf(t)) <= ClaimQuota(t)
  BY DEF RunningWithinClaimQuota
<1>1. ActiveOf(t) = {}
  BY DEF Init, ActiveOf, Active
<1> QED BY <1>1, FS_EmptySet, ClaimQuotaIsNat

\* However claims and recoveries interleave, a tenant never has more jobs
\* running or cancelling than the quota that claim_solve_job consults.
THEOREM WithinClaimQuota == Spec => []RunningWithinClaimQuota
<1>1. Init => RunningWithinClaimQuota
  BY InitWithinClaimQuota
<1>2. Coherent /\ RunningWithinClaimQuota /\ [Next]_vars => RunningWithinClaimQuota'
  BY StepWithinClaimQuota
<1> QED BY <1>1, <1>2, QueueCoherent, PTL DEF Spec

-----------------------------------------------------------------------------
(* The backlog: a lost lease puts a job back in the queue without asking   *)
(* for room, so the bound is on both kinds of job together.                *)

OpenOf(t) == QueuedOf(t) \cup ActiveOf(t)

LEMMA OpenIsSum ==
  \A t \in Tenants : Cardinality(OpenOf(t)) = Cardinality(QueuedOf(t)) + Cardinality(ActiveOf(t))
<1> SUFFICES ASSUME NEW t \in Tenants
             PROVE  Cardinality(OpenOf(t)) = Cardinality(QueuedOf(t)) + Cardinality(ActiveOf(t))
  OBVIOUS
<1>1. QueuedOf(t) \in SUBSET Jobs /\ ActiveOf(t) \in SUBSET Jobs
  BY DEF QueuedOf, ActiveOf
<1>2. QueuedOf(t) \cap ActiveOf(t) = {}
  BY DEF QueuedOf, ActiveOf, Active
<1>3. Cardinality(QueuedOf(t) \cap ActiveOf(t)) = 0
  BY <1>2, FS_EmptySet
<1>4. Cardinality(QueuedOf(t) \cup ActiveOf(t)) =
        Cardinality(QueuedOf(t)) + Cardinality(ActiveOf(t)) - Cardinality(QueuedOf(t) \cap ActiveOf(t))
  BY <1>1, SetsAreFinite, FS_Union
<1>5. Cardinality(QueuedOf(t)) \in Nat /\ Cardinality(ActiveOf(t)) \in Nat
  BY <1>1, SetsAreFinite
<1> QED BY <1>3, <1>4, <1>5 DEF OpenOf

LEMMA StepBacklogBounded ==
  ASSUME Coherent, RunningWithinClaimQuota, BacklogBounded, [Next]_vars
  PROVE  BacklogBounded'
<1> SUFFICES ASSUME NEW t \in Tenants
             PROVE  Cardinality(OpenOf(t)') <= MaxQueued[t] + ClaimQuota(t)
  <2>1. \A t \in Tenants :
          Cardinality(OpenOf(t)') = Cardinality(QueuedOf(t)') + Cardinality(ActiveOf(t)')
    <3>1. (\A t \in Tenants :
            Cardinality(OpenOf(t)) = Cardinality(QueuedOf(t)) + Cardinality(ActiveOf(t)))'
      BY OpenIsSum, PTL
    <3> QED BY <3>1
  <2> QED BY <2>1 DEF BacklogBounded, ClaimQuota
<1> DEFINE Bound == MaxQueued[t] + ClaimQuota(t)
<1>1. /\ OpenOf(t) \in SUBSET Jobs /\ QueuedOf(t) \in SUBSET Jobs /\ ActiveOf(t) \in SUBSET Jobs
      /\ MaxQueued[t] \in Nat /\ ClaimQuota(t) \in Nat
  BY QueueConstants, ClaimQuotaIsNat DEF OpenOf, QueuedOf, ActiveOf
<1>2. Cardinality(OpenOf(t)) <= Bound
  BY OpenIsSum DEF BacklogBounded
<1>3. ASSUME OpenOf(t)' \subseteq OpenOf(t) PROVE Cardinality(OpenOf(t)') <= Bound
  <2>1. Cardinality(OpenOf(t)') <= Cardinality(OpenOf(t))
    BY <1>1, <1>3, SmallerCardinality
  <2>2. Cardinality(OpenOf(t)') \in Nat /\ Cardinality(OpenOf(t)) \in Nat
    BY <1>1, <1>3, SetsAreFinite
  <2> QED BY <1>1, <1>2, <2>1, <2>2
<1>4. ASSUME NEW j \in Jobs, Submit(j) PROVE Cardinality(OpenOf(t)') <= Bound
  <2>1. CASE TenantOf[j] # t
    <3>1. OpenOf(t)' \subseteq OpenOf(t)
      BY <1>4, <2>1 DEF Submit, OpenOf, QueuedOf, ActiveOf, Coherent, TypeOK
    <3> QED BY <1>3, <3>1
  <2>2. CASE TenantOf[j] = t
    <3>1. Cardinality(QueuedOf(t)) < MaxQueued[t]
      BY <1>4, <2>2 DEF Submit, HasQueueRoom
    <3>2. Cardinality(ActiveOf(t)) <= ClaimQuota(t)
      BY DEF RunningWithinClaimQuota
    <3>3. OpenOf(t)' \subseteq OpenOf(t) \cup {j}
      BY <1>4 DEF Submit, OpenOf, QueuedOf, ActiveOf, Coherent, TypeOK
    <3>4. Cardinality(OpenOf(t)') <= Cardinality(OpenOf(t)) + 1
      BY <1>1, <3>3, OneMoreCardinality
    <3>5. /\ Cardinality(QueuedOf(t)) \in Nat /\ Cardinality(ActiveOf(t)) \in Nat
          /\ Cardinality(OpenOf(t)') \in Nat
      BY <1>1, <3>3, SetsAreFinite
    <3>6. Cardinality(OpenOf(t)) = Cardinality(QueuedOf(t)) + Cardinality(ActiveOf(t))
      BY OpenIsSum
    <3> QED BY <1>1, <3>1, <3>2, <3>4, <3>5, <3>6
  <2> QED BY <2>1, <2>2
<1>5. ASSUME NEW r \in Runs, NEW j \in Jobs, ClaimJob(r, j)
      PROVE  Cardinality(OpenOf(t)') <= Bound
  <2>1. OpenOf(t)' \subseteq OpenOf(t)
    BY <1>5 DEF ClaimJob, Eligible, Candidates, OpenOf, QueuedOf, ActiveOf, Coherent, TypeOK
  <2> QED BY <1>3, <2>1
<1>6. ASSUME \A j \in Jobs :
               /\ status'[j] \in Active => status[j] \in Active
               /\ status'[j] = "queued" => status[j] \in Active \cup {"queued"}
      PROVE  Cardinality(OpenOf(t)') <= Bound
  <2>1. OpenOf(t)' \subseteq OpenOf(t)
    BY <1>6 DEF OpenOf, QueuedOf, ActiveOf
  <2> QED BY <1>3, <2>1
<1> QED BY <1>4, <1>5, <1>6, StatusSteps

LEMMA InitBacklogBounded == Init => BacklogBounded
<1> SUFFICES ASSUME Init, NEW t \in Tenants
             PROVE  Cardinality(QueuedOf(t)) + Cardinality(ActiveOf(t))
                      <= MaxQueued[t] + ClaimQuota(t)
  BY DEF BacklogBounded
<1>1. QueuedOf(t) = {} /\ ActiveOf(t) = {}
  BY DEF Init, QueuedOf, ActiveOf, Active
<1> QED BY <1>1, FS_EmptySet, ClaimQuotaIsNat, QueueConstants

\* Recovery requeues without asking for room, so max_queued_jobs alone does
\* not bound a tenant's queue; with the running quota it bounds the backlog.
THEOREM BacklogWithinBound == Spec => []BacklogBounded
<1>1. Init => BacklogBounded
  BY InitBacklogBounded
<1>2. Coherent /\ RunningWithinClaimQuota /\ BacklogBounded /\ [Next]_vars => BacklogBounded'
  BY StepBacklogBounded
<1> QED BY <1>1, <1>2, QueueCoherent, WithinClaimQuota, PTL DEF Spec
-----------------------------------------------------------------------------
(***************************************************************************)
(* What the lease check protects when no two run_once calls in progress    *)
(* use the same worker id.  The store compares worker ids, so without that *)
(* assumption these theorems are false (see section 5 of the README).      *)
(***************************************************************************)

\* The caller of run-once chooses the worker id.
OneRunPerWorker == \A r, u \in Runs : WorkerOf[r] = WorkerOf[u] => r = u

-----------------------------------------------------------------------------
(* Two facts about any step, from the point of view of one run.            *)

\* Who owns the lease of its job after a step has just claimed it, or owned
\* it before and saw no other claim of it.
LEMMA OwnerClaimedOrStayed ==
  ASSUME OneRunPerWorker, Coherent, [Next]_vars, NEW r \in Runs,
         pc'[r] \in Working, OwnsLease(r)'
  PROVE  \/ \E j \in Jobs : ClaimJob(r, j)
         \/ /\ pc[r] \in Working /\ OwnsLease(r)
            /\ held'[r] = held[r] /\ seen'[r] = seen[r]
            /\ attempt'[held[r]] = attempt[held[r]]
            /\ status'[held[r]] = "running" => status[held[r]] = "running"
<1> DEFINE Stayed == /\ pc[r] \in Working /\ OwnsLease(r)
                     /\ held'[r] = held[r] /\ seen'[r] = seen[r]
                     /\ attempt'[held[r]] = attempt[held[r]]
                     /\ status'[held[r]] = "running" => status[held[r]] = "running"
<1> SUFFICES ASSUME ~ \E j \in Jobs : ClaimJob(r, j)
             PROVE  Stayed
  OBVIOUS
<1> USE QueueConstants
<1>1. CASE UNCHANGED <<status, owner, attempt, pc, held, seen>>
  BY <1>1 DEF OwnsLease
<1>2. ASSUME NEW k \in Jobs, Submit(k) \/ Cancel(k) \/ Expire(k) PROVE Stayed
  <2>1. pc[r] \in Working /\ held'[r] = held[r] /\ seen'[r] = seen[r] /\ held[r] \in Jobs
    BY <1>2 DEF Submit, Cancel, Expire, local, Coherent, RunShape
  <2>2. UNCHANGED <<owner, attempt>>
    BY <1>2 DEF Submit, Cancel, Expire
  <2>3. status'[held[r]] = "running" => status[held[r]] = "running"
    BY <1>2, <2>1 DEF Submit, Cancel, Expire, Coherent, TypeOK
  <2> QED BY <2>1, <2>2, <2>3 DEF OwnsLease
<1>3. ASSUME NEW u \in Runs, ClaimRecover(u) PROVE Stayed
  <2>1. u # r
    BY <1>3 DEF ClaimRecover, Coherent, TypeOK, Working
  <2>2. pc[r] \in Working /\ held'[r] = held[r] /\ seen'[r] = seen[r] /\ held[r] \in Jobs
    BY <1>3, <2>1 DEF ClaimRecover, Coherent, TypeOK, RunShape
  <2>3. owner'[held[r]] = WorkerOf[r]
    BY <2>2 DEF OwnsLease
  <2>4. held[r] \notin Overdue
    BY <1>3, <2>2, <2>3 DEF ClaimRecover, RecoverExpired
  <2> QED BY <1>3, <2>2, <2>3, <2>4 DEF ClaimRecover, RecoverExpired, OwnsLease
<1>4. ASSUME NEW u \in Runs, NEW k \in Jobs, ClaimJob(u, k) PROVE Stayed
  <2>1. u # r
    BY <1>4
  <2>2. pc[r] \in Working /\ held'[r] = held[r] /\ seen'[r] = seen[r] /\ held[r] \in Jobs
    BY <1>4, <2>1 DEF ClaimJob, Coherent, TypeOK, RunShape
  <2>3. owner'[k] = WorkerOf[u] /\ WorkerOf[u] # WorkerOf[r]
    BY <1>4, <2>1 DEF ClaimJob, OneRunPerWorker, Coherent, TypeOK
  <2>4. held[r] # k
    BY <2>2, <2>3 DEF OwnsLease
  <2> QED BY <1>4, <2>2, <2>4 DEF ClaimJob, OwnsLease, Coherent, TypeOK
<1>5. ASSUME NEW u \in Runs, ClaimNothing(u) PROVE Stayed
  <2>1. u # r
    BY <1>5 DEF ClaimNothing, Coherent, TypeOK, Working
  <2> QED BY <1>5, <2>1 DEF ClaimNothing, table, OwnsLease, Coherent, TypeOK
<1>6. ASSUME NEW u \in Runs, UNCHANGED <<table, held, seen>>, pc[u] \in Working,
             \A v \in Runs \ {u} : pc'[v] = pc[v]
      PROVE  Stayed
  <2>1. pc[r] \in Working
    BY <1>6
  <2> QED BY <1>6, <2>1 DEF table, OwnsLease
<1>7. ASSUME NEW u \in Runs, Prepare(u) \/ Collect(u) \/ Merge(u) PROVE Stayed
  BY <1>6, <1>7 DEF Prepare, Collect, Merge, Decide, Working, Coherent, TypeOK
<1>8. ASSUME NEW u \in Runs, Finish(u) PROVE Stayed
  <2>1. u # r
    BY <1>8 DEF Finish, Forget, Coherent, TypeOK, Working
  <2>2. pc[r] \in Working /\ held'[r] = held[r] /\ seen'[r] = seen[r] /\ held[r] \in Jobs
    BY <1>8, <2>1 DEF Finish, Forget, Coherent, TypeOK, RunShape
  <2>3. owner'[held[r]] # None
    BY <2>2 DEF OwnsLease
  <2>4. owner'[held[r]] = owner[held[r]] /\ status'[held[r]] = status[held[r]]
    BY <1>8, <2>2, <2>3 DEF Finish, Coherent, TypeOK
  <2> QED BY <1>8, <2>2, <2>4 DEF Finish, OwnsLease
<1>9. ASSUME NEW u \in Runs, Crash(u) PROVE Stayed
  <2>1. u # r
    BY <1>9 DEF Crash, Forget, Coherent, TypeOK, Working
  <2> QED BY <1>9, <2>1 DEF Crash, Forget, table, OwnsLease, Coherent, TypeOK
<1> QED
  BY <1>1, <1>2, <1>3, <1>4, <1>5, <1>7, <1>8, <1>9
  DEF Next, RunStep, SolveStart, SolveEnd, Save, Heartbeat, vars, table, local

-----------------------------------------------------------------------------
(* The lease holder is the latest claimant.                                *)

LEMMA StepLatestClaim ==
  ASSUME OneRunPerWorker, Coherent, OwnerMadeLatestClaim, [Next]_vars
  PROVE  OwnerMadeLatestClaim'
<1> SUFFICES ASSUME NEW r \in Runs, pc'[r] \in Working, OwnsLease(r)'
             PROVE  seen'[r] = attempt'[held'[r]]
  BY DEF OwnerMadeLatestClaim
<1>1. ASSUME NEW j \in Jobs, ClaimJob(r, j) PROVE seen'[r] = attempt'[held'[r]]
  BY <1>1 DEF ClaimJob, Coherent, TypeOK
<1> QED BY <1>1, OwnerClaimedOrStayed DEF OwnerMadeLatestClaim

\* A run that the store takes for the owner of its job made the latest claim
\* of it, although the store compares worker ids and never attempts.
THEOREM OwnerIsLatest ==
  ASSUME OneRunPerWorker PROVE Spec => []OwnerMadeLatestClaim
<1>1. Init => OwnerMadeLatestClaim
  BY DEF Init, OwnerMadeLatestClaim, Working
<1>2. Coherent /\ OwnerMadeLatestClaim /\ [Next]_vars => OwnerMadeLatestClaim'
  BY StepLatestClaim
<1> QED BY <1>1, <1>2, QueueCoherent, PTL DEF Spec

-----------------------------------------------------------------------------
(* A run that lost its lease writes nothing.                               *)

\* A step that writes a result of job j: a checkpoint or a verdict.
WritesResult(j) ==
  \/ ckpt'[j] # ckpt[j]
  \/ status[j] # status'[j] /\ status'[j] \in {"completed", "failed"}

LEMMA WriterIsHolder ==
  ASSUME Coherent, [Next]_vars, NEW j \in Jobs, WritesResult(j)
  PROVE  \E r \in Runs : /\ held[r] = j /\ OwnsLease(r) /\ pc[r] \in Working
                         /\ <<pc'[r], part'[r]>> # <<pc[r], part[r]>>
<1> DEFINE Holder == \E r \in Runs : /\ held[r] = j /\ OwnsLease(r) /\ pc[r] \in Working
                                     /\ <<pc'[r], part'[r]>> # <<pc[r], part[r]>>
<1> USE QueueConstants
<1>1. CASE UNCHANGED <<status, ckpt>>
  BY <1>1 DEF WritesResult
<1>2. ASSUME NEW k \in Jobs, Submit(k) \/ Cancel(k) \/ Expire(k) PROVE Holder
  BY <1>2 DEF Submit, Cancel, Expire, WritesResult, Coherent, TypeOK
<1>3. ASSUME NEW u \in Runs, ClaimRecover(u) PROVE Holder
  BY <1>3 DEF ClaimRecover, RecoverExpired, AfterRecovery, WritesResult
<1>4. ASSUME NEW u \in Runs, NEW k \in Jobs, ClaimJob(u, k) PROVE Holder
  BY <1>4 DEF ClaimJob, WritesResult, Coherent, TypeOK
<1>5. ASSUME NEW u \in Runs, NEW s \in Subs, Save(u, s) PROVE Holder
  <2>1. MayWrite(u) /\ held[u] = j /\ pc[u] \in Working
    BY <1>5 DEF Save, WritesResult, Coherent, TypeOK, Working
  <2>2. part[u][s] \in Saving /\ part'[u][s] \in {"feasible", "failed"}
    BY <1>5 DEF Save, Coherent, TypeOK
  <2>3. part'[u] # part[u]
    BY <2>2 DEF Saving
  <2> QED BY <2>1, <2>3 DEF MayWrite
<1>6. ASSUME NEW u \in Runs, Finish(u) PROVE Holder
  <2>1. OwnsLease(u) /\ held[u] = j
    BY <1>6 DEF Finish, WritesResult, Coherent, TypeOK
  <2>2. pc[u] \in Working /\ pc'[u] # pc[u]
    BY <1>6 DEF Finish, Forget, Coherent, TypeOK, Working
  <2> QED BY <2>1, <2>2
<1> QED
  BY <1>1, <1>2, <1>3, <1>4, <1>5, <1>6
  DEF Next, RunStep, ClaimNothing, Prepare, Decide, SolveStart, SolveEnd, Collect, Merge,
      Crash, Heartbeat, vars, table

\* Only the run that made the latest claim of a job writes results for it:
\* neither a checkpoint nor a completed or failed status comes from an
\* earlier attempt whose lease was recovered.
THEOREM OnlyTheLatestWrites ==
  ASSUME OneRunPerWorker PROVE Spec => StaleRunsWriteNothing
<1>1. Coherent /\ OwnerMadeLatestClaim /\ [Next]_vars =>
        [\A j \in Jobs :
           \/ ckpt'[j] # ckpt[j]
           \/ status[j] # status'[j] /\ status'[j] \in {"completed", "failed"}
           => \E r \in Runs : /\ held[r] = j /\ seen[r] = attempt[j]
                             /\ <<pc'[r], part'[r]>> # <<pc[r], part[r]>>]_vars
  <2> SUFFICES ASSUME Coherent, OwnerMadeLatestClaim, [Next]_vars, NEW j \in Jobs,
                      WritesResult(j)
               PROVE  \E r \in Runs : /\ held[r] = j /\ seen[r] = attempt[j]
                                     /\ <<pc'[r], part'[r]>> # <<pc[r], part[r]>>
    BY DEF WritesResult
  <2> QED BY WriterIsHolder DEF OwnerMadeLatestClaim
<1> QED BY <1>1, QueueCoherent, OwnerIsLatest, PTL DEF Spec, StaleRunsWriteNothing

-----------------------------------------------------------------------------
(* Checkpoints and completion.                                             *)

\* What a run in progress knows about the checkpoint of its job, as long as it
\* owns the lease: a subproblem it still has to save has none, one that it
\* counts as solved has one unless a cancellation intervened, and once it
\* merges every subproblem has one.
Unsaved(r) ==
  \A s \in Subs : part[r][s] \in {"todo", "solving"} \cup Saving => ckpt[held[r]][s] = "none"

Saved(r) ==
  status[held[r]] = "running" =>
    \A s \in Subs : part[r][s] \in {"reused", "feasible"} => ckpt[held[r]][s] # "none"

Merging(r) == pc[r] = "merging" \/ (pc[r] = "finishing" /\ verdict[r] = "completed")

AllSaved(r) == Merging(r) => \A s \in Subs : ckpt[held[r]][s] # "none"

Recorded ==
  \A r \in Runs : pc[r] \in Working /\ OwnsLease(r) => Unsaved(r) /\ Saved(r) /\ AllSaved(r)

\* Nothing but the owner's own Save touches a checkpoint.
LEMMA CheckpointWriter ==
  ASSUME Coherent, [Next]_vars, NEW j \in Jobs
  PROVE  \/ ckpt'[j] = ckpt[j]
         \/ \E u \in Runs, s \in Subs : Save(u, s) /\ held[u] = j /\ OwnsLease(u)
<1> DEFINE Writer == \E u \in Runs, s \in Subs : Save(u, s) /\ held[u] = j /\ OwnsLease(u)
<1>1. ASSUME NEW u \in Runs, NEW s \in Subs, Save(u, s) PROVE ckpt'[j] = ckpt[j] \/ Writer
  BY <1>1 DEF Save, MayWrite, Coherent, TypeOK
<1> QED
  BY <1>1
  DEF Next, RunStep, Submit, Cancel, Expire, ClaimRecover, RecoverExpired, ClaimJob,
      ClaimNothing, Prepare, Decide, SolveStart, SolveEnd, Collect, Merge, Finish, Crash,
      Heartbeat, vars, table

\* Checkpoints are only added.
LEMMA CheckpointsStay ==
  ASSUME Coherent, [Next]_vars, NEW j \in Jobs, NEW s \in Subs, ckpt[j][s] # "none"
  PROVE  ckpt'[j][s] # "none"
<1>1. ASSUME NEW u \in Runs, NEW x \in Subs, Save(u, x), held[u] = j
      PROVE  ckpt'[j][s] # "none"
  BY <1>1 DEF Save, Coherent, TypeOK
<1> QED BY <1>1, CheckpointWriter

\* A run moves by its own steps only.
LEMMA OthersLeaveRunAlone ==
  ASSUME Coherent, [Next]_vars, NEW r \in Runs, ~RunStep(r), pc'[r] \in Working
  PROVE  pc'[r] = pc[r] /\ held'[r] = held[r] /\ part'[r] = part[r] /\ verdict'[r] = verdict[r]
<1> DEFINE Alone == /\ pc'[r] = pc[r] /\ held'[r] = held[r]
                    /\ part'[r] = part[r] /\ verdict'[r] = verdict[r]
<1>1. CASE UNCHANGED <<pc, held, part, verdict>>
  BY <1>1
<1>2. ASSUME NEW u \in Runs, ClaimRecover(u) \/ ClaimNothing(u) \/ Prepare(u) \/ Collect(u)
                             \/ Merge(u), u # r
      PROVE  Alone
  BY <1>2 DEF ClaimRecover, ClaimNothing, Prepare, Collect, Merge, Decide, Coherent, TypeOK
<1>3. ASSUME NEW u \in Runs, NEW j \in Jobs, ClaimJob(u, j), u # r PROVE Alone
  BY <1>3 DEF ClaimJob, Coherent, TypeOK
<1>4. ASSUME NEW u \in Runs, NEW s \in Subs, SolveStart(u, s) \/ SolveEnd(u, s) \/ Save(u, s),
             u # r
      PROVE  Alone
  BY <1>4 DEF SolveStart, SolveEnd, Save, Coherent, TypeOK
<1>5. ASSUME NEW u \in Runs, Finish(u) \/ Crash(u) PROVE u # r => Alone
  BY <1>5 DEF Finish, Crash, Forget, Coherent, TypeOK
<1>6. ASSUME Crash(r) PROVE FALSE
  BY <1>6 DEF Crash, Forget, Coherent, TypeOK, Working
<1> QED
  BY <1>1, <1>2, <1>3, <1>4, <1>5, <1>6
  DEF Next, RunStep, Submit, Cancel, Expire, Heartbeat, vars, local

LEMMA StepRecorded ==
  ASSUME OneRunPerWorker, Coherent, Recorded, [Next]_vars
  PROVE  Recorded'
<1> SUFFICES ASSUME NEW r \in Runs, pc'[r] \in Working, OwnsLease(r)'
             PROVE  Unsaved(r)' /\ Saved(r)' /\ AllSaved(r)'
  BY DEF Recorded
<1>1. CASE \E j \in Jobs : ClaimJob(r, j)
  <2>1. PICK j \in Jobs : ClaimJob(r, j)
    BY <1>1
  <2>2. held'[r] = j /\ part'[r] = Resume(j) /\ pc'[r] = "preparing" /\ ckpt' = ckpt
    BY <2>1 DEF ClaimJob, Coherent, TypeOK
  <2>3. Unsaved(r)'
    BY <2>2 DEF Unsaved, Resume, Saving
  <2>4. Saved(r)'
    BY <2>2 DEF Saved, Resume
  <2>5. AllSaved(r)'
    BY <2>2 DEF AllSaved, Merging
  <2> QED BY <2>3, <2>4, <2>5
<1>2. CASE ~ \E j \in Jobs : ClaimJob(r, j)
  <2>1. /\ pc[r] \in Working /\ OwnsLease(r) /\ held'[r] = held[r]
        /\ status'[held[r]] = "running" => status[held[r]] = "running"
    BY <1>2, OwnerClaimedOrStayed
  <2>2. held[r] \in Jobs
    BY <2>1 DEF Coherent, RunShape
  <2>3. Unsaved(r) /\ Saved(r) /\ AllSaved(r)
    BY <2>1 DEF Recorded
  <2>4. \A s \in Subs : ckpt[held[r]][s] # "none" => ckpt'[held[r]][s] # "none"
    BY <2>2, CheckpointsStay
  <2>5. \A u \in Runs : held[u] = held[r] /\ OwnsLease(u) => u = r
    BY <2>1 DEF OwnsLease, OneRunPerWorker
  <2>6. (\A s \in Subs : ~Save(r, s)) => ckpt'[held[r]] = ckpt[held[r]]
    BY <2>2, <2>5, CheckpointWriter
  <2>7. CASE ~RunStep(r)
    <3>1. pc'[r] = pc[r] /\ part'[r] = part[r] /\ verdict'[r] = verdict[r]
      BY <2>7, OthersLeaveRunAlone
    <3>2. ckpt'[held[r]] = ckpt[held[r]]
      BY <2>6, <2>7 DEF RunStep
    <3>3. Unsaved(r)'
      BY <2>1, <2>3, <3>1, <3>2 DEF Unsaved
    <3>4. Saved(r)'
      BY <2>1, <2>3, <3>1, <3>2 DEF Saved
    <3>5. AllSaved(r)'
      BY <2>1, <2>3, <3>1, <3>2 DEF AllSaved, Merging
    <3> QED BY <3>3, <3>4, <3>5
  <2>8. ASSUME UNCHANGED <<table, held, part>>, AllSaved(r)'
        PROVE  Unsaved(r)' /\ Saved(r)' /\ AllSaved(r)'
    BY <2>3, <2>8 DEF Unsaved, Saved, table
  <2>9. CASE Prepare(r)
    <3>1. ~Merging(r)'
      BY <2>9 DEF Prepare, Decide, Merging, Coherent, TypeOK
    <3> QED BY <2>8, <2>9, <3>1 DEF Prepare, Decide, AllSaved
  <2>10. ASSUME NEW s \in Subs, SolveStart(r, s) \/ SolveEnd(r, s)
         PROVE  Unsaved(r)' /\ Saved(r)' /\ AllSaved(r)'
    <3>1. /\ \A x \in Subs \ {s} : part'[r][x] = part[r][x]
          /\ part[r][s] \in {"todo", "solving"}
          /\ part'[r][s] \notin {"reused", "feasible"}
          /\ pc'[r] = pc[r] /\ pc[r] = "solving"
          /\ UNCHANGED <<table, held>>
      BY <2>10 DEF SolveStart, SolveEnd, Coherent, TypeOK, Saving
    <3>2. Unsaved(r)'
      BY <2>3, <3>1 DEF Unsaved, table
    <3>3. Saved(r)'
      BY <2>3, <3>1 DEF Saved, table
    <3>4. AllSaved(r)'
      BY <3>1 DEF AllSaved, Merging
    <3> QED BY <3>2, <3>3, <3>4
  <2>11. ASSUME NEW s \in Subs, Save(r, s)
         PROVE  Unsaved(r)' /\ Saved(r)' /\ AllSaved(r)'
    <3>1. /\ \A x \in Subs \ {s} : part'[r][x] = part[r][x]
          /\ part'[r][s] \in {"feasible", "failed"}
          /\ pc'[r] = pc[r] /\ pc[r] = "solving"
          /\ UNCHANGED <<status, held>>
      BY <2>11 DEF Save, Coherent, TypeOK
    <3>2. \A x \in Subs \ {s} : ckpt'[held[r]][x] = ckpt[held[r]][x]
      BY <2>2, <2>11 DEF Save, Coherent, TypeOK
    <3>3. status[held[r]] = "running" => ckpt'[held[r]][s] # "none"
      BY <2>1, <2>2, <2>11 DEF Save, MayWrite, Coherent, TypeOK
    <3>4. Unsaved(r)'
      BY <2>3, <3>1, <3>2 DEF Unsaved, Saving
    <3>5. Saved(r)'
      BY <2>3, <3>1, <3>2, <3>3 DEF Saved
    <3>6. AllSaved(r)'
      BY <3>1 DEF AllSaved, Merging
    <3> QED BY <3>4, <3>5, <3>6
  <2>12. CASE Collect(r)
    <3>1. ASSUME pc'[r] = "merging" PROVE \A s \in Subs : ckpt[held[r]][s] # "none"
      <4>1. ~ShouldCancel(r) /\ Outcomes(r) \subseteq {"reused", "feasible"}
        BY <2>12, <3>1 DEF Collect, Decide, Done, Coherent, TypeOK
      <4>2. status[held[r]] = "running"
        BY <2>2, <4>1, OwnedJobIsActive DEF ShouldCancel, Active
      <4> QED BY <2>3, <4>1, <4>2 DEF Saved, Outcomes
    <3>2. pc'[r] = "finishing" => verdict'[r] # "completed"
      BY <2>12 DEF Collect, Decide, Coherent, TypeOK
    <3>3. UNCHANGED <<table, held, part>>
      BY <2>12 DEF Collect, Decide
    <3> QED BY <2>8, <3>1, <3>2, <3>3 DEF AllSaved, Merging, table
  <2>13. CASE Merge(r)
    <3>1. Merging(r)
      BY <2>13 DEF Merge, Merging
    <3>2. UNCHANGED <<table, held, part>>
      BY <2>13 DEF Merge, Decide
    <3> QED BY <2>3, <2>8, <3>1, <3>2 DEF AllSaved, table
  <2>14. ~ClaimRecover(r) /\ ~ClaimNothing(r) /\ ~Finish(r)
    BY <2>1 DEF ClaimRecover, ClaimNothing, Finish, Forget, Coherent, TypeOK, Working
  <2> QED BY <1>2, <2>7, <2>9, <2>10, <2>11, <2>12, <2>13, <2>14 DEF RunStep
<1> QED BY <1>1, <1>2

LEMMA CompletedByHolder ==
  ASSUME Coherent, [Next]_vars, NEW j \in Jobs,
         status[j] # "completed", status'[j] = "completed"
  PROVE  \E u \in Runs : /\ Finish(u) /\ OwnsLease(u)
                         /\ held[u] = j /\ verdict[u] = "completed"
<1> DEFINE ByHolder == \E u \in Runs : /\ Finish(u) /\ OwnsLease(u)
                                       /\ held[u] = j /\ verdict[u] = "completed"
<1>1. CASE UNCHANGED status
  BY <1>1
<1>2. ASSUME NEW k \in Jobs, Submit(k) \/ Cancel(k) \/ Expire(k) PROVE ByHolder
  BY <1>2 DEF Submit, Cancel, Expire, Coherent, TypeOK
<1>3. ASSUME NEW u \in Runs, ClaimRecover(u) PROVE ByHolder
  BY <1>3 DEF ClaimRecover, RecoverExpired, AfterRecovery
<1>4. ASSUME NEW u \in Runs, NEW k \in Jobs, ClaimJob(u, k) PROVE ByHolder
  BY <1>4 DEF ClaimJob, Coherent, TypeOK
<1>5. ASSUME NEW u \in Runs, Finish(u) PROVE ByHolder
  <2>1. OwnsLease(u) /\ status' = [status EXCEPT ![held[u]] = verdict[u]]
    BY <1>5 DEF Finish
  <2> QED BY <1>5, <2>1 DEF Coherent, TypeOK
<1> QED
  BY <1>1, <1>2, <1>3, <1>4, <1>5
  DEF Next, RunStep, ClaimNothing, Prepare, Decide, SolveStart, SolveEnd, Save, Collect,
      Merge, Crash, Heartbeat, vars, table

LEMMA StepCompletedIsCheckpointed ==
  ASSUME Coherent, Recorded, CompletedIsCheckpointed, [Next]_vars
  PROVE  CompletedIsCheckpointed'
<1> SUFFICES ASSUME NEW j \in Jobs, status'[j] = "completed", NEW s \in Subs
             PROVE  ckpt'[j][s] # "none"
  BY DEF CompletedIsCheckpointed
<1>1. CASE status[j] = "completed"
  BY <1>1, CheckpointsStay DEF CompletedIsCheckpointed
<1>2. CASE status[j] # "completed"
  <2>1. PICK u \in Runs : Finish(u) /\ OwnsLease(u) /\ held[u] = j /\ verdict[u] = "completed"
    BY <1>2, CompletedByHolder
  <2>2. Merging(u) /\ pc[u] \in Working
    BY <2>1 DEF Finish, Merging, Working
  <2> QED BY <2>1, <2>2, CheckpointsStay DEF Recorded, AllSaved
<1> QED BY <1>1, <1>2

LEMMA StepCheckpointIsWriteOnce ==
  ASSUME Coherent, Recorded, [Next]_vars, NEW j \in Jobs, NEW s \in Subs, ckpt[j][s] # "none"
  PROVE  ckpt'[j][s] = ckpt[j][s]
<1>1. ASSUME NEW u \in Runs, NEW x \in Subs, Save(u, x), held[u] = j, OwnsLease(u)
      PROVE  ckpt'[j][s] = ckpt[j][s]
  <2>1. pc[u] \in Working /\ part[u][x] \in Saving
    BY <1>1 DEF Save, Working
  <2>2. x # s
    BY <1>1, <2>1 DEF Recorded, Unsaved
  <2> QED BY <1>1, <2>2 DEF Save, Coherent, TypeOK
<1> QED BY <1>1, CheckpointWriter

LEMMA RecordedAlways ==
  ASSUME OneRunPerWorker PROVE Spec => []Recorded
<1>1. Init => Recorded
  BY DEF Init, Recorded, Working
<1>2. Coherent /\ Recorded /\ [Next]_vars => Recorded'
  BY StepRecorded
<1> QED BY <1>1, <1>2, QueueCoherent, PTL DEF Spec

\* A job becomes completed only when the result of each of its subproblems is
\* in its checkpoint, although the executor ignores the refusals of
\* save_job_checkpoint.
THEOREM CompletedHasCheckpoints ==
  ASSUME OneRunPerWorker PROVE Spec => []CompletedIsCheckpointed
<1>1. Init => CompletedIsCheckpointed
  BY DEF Init, CompletedIsCheckpointed
<1>2. Coherent /\ Recorded /\ CompletedIsCheckpointed /\ [Next]_vars => CompletedIsCheckpointed'
  BY StepCompletedIsCheckpointed
<1> QED BY <1>1, <1>2, QueueCoherent, RecordedAlways, PTL DEF Spec

\* A saved result is never overwritten by a later attempt or a stale one.
THEOREM CheckpointsAreWrittenOnce ==
  ASSUME OneRunPerWorker PROVE Spec => CheckpointIsWriteOnce
<1>1. Coherent /\ Recorded /\ [Next]_vars =>
        [\A j \in Jobs, s \in Subs : ckpt[j][s] # "none" => ckpt'[j][s] = ckpt[j][s]]_vars
  BY StepCheckpointIsWriteOnce
<1> QED BY <1>1, QueueCoherent, RecordedAlways, PTL DEF Spec, CheckpointIsWriteOnce
-----------------------------------------------------------------------------
(***************************************************************************)
(* The queue implements JobService, its workers, leases, recoveries and    *)
(* crashes included, when no two runs in progress share a worker id.       *)
(***************************************************************************)

\* The refinement mapping, as in SolveQueue.
Phase == [j \in Jobs |-> AbsPhase(j)]
Outcome == [j \in Jobs |-> IF status[j] \in Terminal THEN status[j] ELSE "none"]
Work == [j \in Jobs |-> {s \in Subs : ckpt[j][s] # "none"}]

LEMMA PhaseCases ==
  ASSUME NEW j \in Jobs
  PROVE  /\ status[j] = "absent" => Phase[j] = "absent"
         /\ status[j] = "queued" => Phase[j] = "waiting"
         /\ status[j] \in Active => Phase[j] = "held"
         /\ status[j] \in Terminal => Phase[j] = "done"
  BY DEF Phase, AbsPhase, Active, Terminal

LEMMA InitRefines == Init => Service!Init
<1> SUFFICES ASSUME Init PROVE Service!Init
  OBVIOUS
<1>1. \A j \in Jobs : status[j] = "absent" /\ \A s \in Subs : ckpt[j][s] = "none"
  BY DEF Init
<1>2. \A j \in Jobs : AbsPhase(j) = "absent"
  BY <1>1 DEF AbsPhase, Active
<1>3. \A j \in Jobs : {s \in Subs : ckpt[j][s] # "none"} = {}
  BY <1>1
<1> QED BY <1>1, <1>2, <1>3 DEF Service!Init, Terminal

\* A step that leaves statuses and checkpoints alone is a stutter.
LEMMA SameTableStutters ==
  ASSUME UNCHANGED <<status, ckpt>> PROVE UNCHANGED Service!vars
  BY DEF Service!vars, AbsPhase

LEMMA SubmitAdmits ==
  ASSUME Coherent, NEW j \in Jobs, Submit(j) PROVE Service!Admit(j)
<1>1. /\ status[j] = "absent" /\ status' = [status EXCEPT ![j] = "queued"]
      /\ status \in [Jobs -> Status] /\ ckpt' = ckpt
  BY DEF Submit, Coherent, TypeOK
<1>2. Phase[j] = "absent" /\ Phase' = [Phase EXCEPT ![j] = "waiting"]
  BY <1>1 DEF Phase, AbsPhase, Active
<1>3. Outcome' = Outcome
  BY <1>1 DEF Outcome, Terminal
<1>4. Work' = Work
  BY <1>1 DEF Work
<1> QED BY <1>2, <1>3, <1>4 DEF Service!Admit, Phase, Outcome, Work

LEMMA CancelSettles ==
  ASSUME Coherent, NEW j \in Jobs, Cancel(j)
  PROVE  Service!Settle(j, "cancelled") \/ UNCHANGED Service!vars
<1>1. status \in [Jobs -> Status] /\ ckpt' = ckpt
  BY DEF Cancel, Coherent, TypeOK
<1>2. Work' = Work
  BY <1>1 DEF Work
<1>3. CASE status[j] = "queued"
  <2>1. status' = [status EXCEPT ![j] = "cancelled"]
    BY <1>3 DEF Cancel
  <2>2. Phase[j] = "waiting" /\ Phase' = [Phase EXCEPT ![j] = "done"]
    BY <1>1, <1>3, <2>1 DEF Phase, AbsPhase, Active
  <2>3. Outcome' = [Outcome EXCEPT ![j] = "cancelled"]
    BY <1>1, <2>1 DEF Outcome, Terminal
  <2> QED BY <1>2, <2>2, <2>3 DEF Service!Settle, Phase, Outcome, Work
<1>4. CASE status[j] = "running"
  <2>1. status' = [status EXCEPT ![j] = "cancel_requested"]
    BY <1>4 DEF Cancel
  <2>2. Phase' = Phase
    BY <1>1, <1>4, <2>1 DEF Phase, AbsPhase, Active
  <2>3. Outcome' = Outcome
    BY <1>1, <1>4, <2>1 DEF Outcome, Terminal
  <2> QED BY <1>2, <2>2, <2>3 DEF Service!vars, Phase, Outcome, Work
<1> QED BY <1>3, <1>4 DEF Cancel

LEMMA RecoveryReclaims ==
  ASSUME Coherent, NEW r \in Runs, ClaimRecover(r)
  PROVE  \E back, off \in SUBSET Jobs : back \cap off = {} /\ Service!Reclaim(back, off)
<1>0. PICK back, off : /\ back = {j \in Overdue : status[j] = "running"}
                       /\ off = {j \in Overdue : status[j] = "cancel_requested"}
  OBVIOUS
<1>1. /\ status \in [Jobs -> Status] /\ ckpt' = ckpt
      /\ status' = [j \in Jobs |-> IF j \in Overdue THEN AfterRecovery(j) ELSE status[j]]
  BY DEF ClaimRecover, RecoverExpired, Coherent, TypeOK
<1>2. /\ back \in SUBSET Jobs /\ off \in SUBSET Jobs /\ back \cap off = {}
      /\ Overdue = back \cup off
  BY <1>0 DEF Overdue, Active
<1>3. \A j \in back \cup off : Phase[j] = "held"
  BY <1>2, PhaseCases DEF Overdue
<1>4. \A j \in Jobs : /\ j \in back => status'[j] = "queued"
                      /\ j \in off => status'[j] = "cancelled"
                      /\ j \notin back \cup off => status'[j] = status[j]
  BY <1>0, <1>1, <1>2 DEF AfterRecovery
<1>5. Phase' = [j \in Jobs |-> IF j \in back THEN "waiting"
                               ELSE IF j \in off THEN "done" ELSE Phase[j]]
  <2>1. ASSUME NEW j \in Jobs
        PROVE  AbsPhase(j)' = IF j \in back THEN "waiting"
                              ELSE IF j \in off THEN "done" ELSE AbsPhase(j)
    BY <1>0, <1>2, <1>4 DEF Overdue, AbsPhase, Active
  <2> QED BY <2>1 DEF Phase
<1>6. Outcome' = [j \in Jobs |-> IF j \in off THEN "cancelled" ELSE Outcome[j]]
  <2>1. ASSUME NEW j \in Jobs
        PROVE  (IF status'[j] \in Terminal THEN status'[j] ELSE "none")
                 = IF j \in off THEN "cancelled"
                   ELSE IF status[j] \in Terminal THEN status[j] ELSE "none"
    BY <1>0, <1>2, <1>4 DEF Overdue, Terminal
  <2> QED BY <2>1 DEF Outcome
<1>7. Work' = Work
  BY <1>1 DEF Work
<1>8. Service!Reclaim(back, off)
  BY <1>3, <1>5, <1>6, <1>7 DEF Service!Reclaim, Phase, Outcome, Work
<1> QED BY <1>2, <1>8

LEMMA SameCardinality == \A S : Service!Cardinality(S) = Cardinality(S)
  BY DEF Service!Cardinality, Cardinality

LEMMA ClaimGrants ==
  ASSUME Coherent, NEW r \in Runs, NEW j \in Jobs, ClaimJob(r, j) PROVE Service!Grant(j)
<1>1. /\ status[j] = "queued" /\ status' = [status EXCEPT ![j] = "running"]
      /\ status \in [Jobs -> Status] /\ ckpt' = ckpt
      /\ Cardinality(ActiveOf(TenantOf[j])) < ClaimQuota(TenantOf[j])
  BY DEF ClaimJob, Eligible, Candidates, HasRunningRoom, Coherent, TypeOK
<1>2. Phase[j] = "waiting" /\ Phase' = [Phase EXCEPT ![j] = "held"]
  BY <1>1 DEF Phase, AbsPhase, Active
<1>3. Outcome' = Outcome
  BY <1>1 DEF Outcome, Terminal
<1>4. Work' = Work
  BY <1>1 DEF Work
<1>5. {k \in Jobs : TenantOf[k] = TenantOf[j] /\ Phase[k] = "held"} = ActiveOf(TenantOf[j])
  BY DEF Phase, AbsPhase, ActiveOf, Active
<1> QED
  BY <1>1, <1>2, <1>3, <1>4, <1>5, SameCardinality DEF Service!Grant, Service!Holding, Phase, Outcome, Work

LEMMA SaveRecords ==
  ASSUME Coherent, Recorded, NEW r \in Runs, NEW s \in Subs, Save(r, s)
  PROVE  (\E j \in Jobs : Service!Record(j, s)) \/ UNCHANGED Service!vars
<1>1. held[r] \in Jobs /\ pc[r] \in Working /\ status' = status /\ part[r][s] \in Saving
  BY DEF Save, Coherent, RunShape, Working
<1>2. CASE ~MayWrite(r)
  BY <1>1, <1>2, SameTableStutters DEF Save
<1>3. CASE MayWrite(r)
  <2> DEFINE j == held[r]
  <2>1. PICK result \in {"feasible", "infeasible"} : ckpt' = [ckpt EXCEPT ![j][s] = result]
    BY <1>3 DEF Save
  <2>2. ckpt[j][s] = "none" /\ status[j] = "running"
    BY <1>1, <1>3 DEF Recorded, Unsaved, MayWrite
  <2>3. ckpt \in [Jobs -> [Subs -> {"none", "feasible", "infeasible"}]]
    BY DEF Coherent, TypeOK
  <2>4. Phase[j] = "held"
    BY <1>1, <2>2, PhaseCases DEF Active
  <2>5. s \notin Work[j] /\ Work' = [Work EXCEPT ![j] = @ \cup {s}]
    <3>1. s \notin Work[j]
      BY <1>1, <2>2 DEF Work
    <3>2. ASSUME NEW k \in Jobs
          PROVE  {x \in Subs : ckpt'[k][x] # "none"} = IF k = j THEN Work[k] \cup {s} ELSE Work[k]
      BY <2>1, <2>3 DEF Work
    <3> QED BY <1>1, <3>1, <3>2 DEF Work
  <2>6. Phase' = Phase /\ Outcome' = Outcome
    BY <1>1 DEF Phase, AbsPhase, Outcome
  <2> QED BY <1>1, <2>4, <2>5, <2>6 DEF Service!Record, Phase, Outcome, Work
<1> QED BY <1>2, <1>3

LEMMA FinishSettles ==
  ASSUME Coherent, Recorded, NEW r \in Runs, Finish(r)
  PROVE  (\E j \in Jobs, v \in {"cancelled", "completed", "failed"} : Service!Settle(j, v))
         \/ UNCHANGED Service!vars
<1>1. /\ held[r] \in Jobs /\ pc[r] \in Working /\ pc[r] = "finishing" /\ ckpt' = ckpt
      /\ verdict[r] \in {"cancelled", "completed", "failed"}
      /\ status \in [Jobs -> Status]
  BY DEF Finish, Coherent, TypeOK, RunShape, Working, Terminal
<1>2. CASE ~OwnsLease(r)
  BY <1>1, <1>2, SameTableStutters DEF Finish
<1>3. CASE OwnsLease(r)
  <2> DEFINE j == held[r]
  <2>1. status' = [status EXCEPT ![j] = verdict[r]]
    BY <1>3 DEF Finish
  <2>2. status[j] \in Active
    BY <1>1, <1>3, OwnedJobIsActive
  <2>3. verdict[r] = "completed" => Work[j] = Subs
    BY <1>1, <1>3 DEF Recorded, AllSaved, Merging, Work
  <2>4. Phase[j] = "held"
    BY <1>1, <2>2, PhaseCases
  <2>5. Phase' = [Phase EXCEPT ![j] = "done"]
    BY <1>1, <2>1 DEF Phase, AbsPhase, Active
  <2>6. Outcome' = [Outcome EXCEPT ![j] = verdict[r]]
    BY <1>1, <2>1 DEF Outcome, Terminal
  <2>7. Work' = Work
    BY <1>1 DEF Work
  <2> QED BY <1>1, <2>3, <2>4, <2>5, <2>6, <2>7 DEF Service!Settle, Phase, Outcome, Work
<1> QED BY <1>2, <1>3

LEMMA StepRefines ==
  ASSUME Coherent, Recorded, [Next]_vars PROVE [Service!Next]_(Service!vars)
<1>1. CASE UNCHANGED <<status, ckpt>>
  BY <1>1, SameTableStutters
<1>2. ASSUME NEW j \in Jobs, Submit(j) PROVE Service!Next
  BY <1>2, SubmitAdmits DEF Service!Next
<1>3. ASSUME NEW j \in Jobs, Cancel(j) PROVE [Service!Next]_(Service!vars)
  BY <1>3, CancelSettles DEF Service!Next
<1>4. ASSUME NEW r \in Runs, ClaimRecover(r) PROVE Service!Next
  BY <1>4, RecoveryReclaims DEF Service!Next
<1>5. ASSUME NEW r \in Runs, NEW j \in Jobs, ClaimJob(r, j) PROVE Service!Next
  BY <1>5, ClaimGrants DEF Service!Next
<1>6. ASSUME NEW r \in Runs, NEW s \in Subs, Save(r, s) PROVE [Service!Next]_(Service!vars)
  BY <1>6, SaveRecords DEF Service!Next
<1>7. ASSUME NEW r \in Runs, Finish(r) PROVE [Service!Next]_(Service!vars)
  BY <1>7, FinishSettles DEF Service!Next
<1> QED
  BY <1>1, <1>2, <1>3, <1>4, <1>5, <1>6, <1>7
  DEF Next, RunStep, Expire, ClaimNothing, Prepare, Decide, SolveStart, SolveEnd, Collect,
      Merge, Crash, Heartbeat, vars, table

\* The queue implements the service it promises: a job waits, is granted to
\* one holder at a time within the quota, has each result recorded once, and
\* gets one outcome, "completed" only with all results recorded.
THEOREM QueueImplementsService ==
  ASSUME OneRunPerWorker PROVE Spec => ImplementsService
<1>1. Init => Service!Init
  BY InitRefines
<1>2. Coherent /\ Recorded /\ [Next]_vars => [Service!Next]_(Service!vars)
  BY StepRefines
<1> QED BY <1>1, <1>2, QueueCoherent, RecordedAlways, PTL DEF Spec, ImplementsService, Service!Spec
=============================================================================
