------------------------------ MODULE SolveQueue ------------------------------
(***************************************************************************)
(* The durable solve queue of the production runtime: the solve-job table  *)
(* of the relational operational store, the DurableSolveQueue in front of  *)
(* it, and the SolveJobWorker.run_once calls that claim a job, solve its   *)
(* subproblems in a thread pool with a heartbeat beside it, and finish it. *)
(*                                                                         *)
(* Every store method is one transaction under the store's lock, hence one *)
(* step here.  claim_solve_job is two of them: it recovers expired leases  *)
(* in a transaction of its own and then takes a job in a second one.  The  *)
(* executor reads the store (cancel_check) and writes it (checkpoint       *)
(* callback) in separate steps between which everything may happen.        *)
(*                                                                         *)
(* A job is identified by its tenant and idempotency key: rows are never   *)
(* deleted, so a resubmission returns the row it finds and changes nothing *)
(* and is not a step.  Wall-clock time is reduced to what the code tests:  *)
(* whether a lease_expires_at lies in the past.                            *)
(***************************************************************************)
EXTENDS Naturals, FiniteSets

CONSTANTS
  Tenants,
  Jobs,             \* the (tenant, idempotency key) pairs that are submitted
  TenantOf,         \* [Jobs -> Tenants]
  Rank,             \* [Jobs -> Nat]: position by (priority, created_at)
  Runs,             \* slots for run_once calls in progress
  Workers,          \* worker ids; the id comes from the caller of run-once
  WorkerOf,         \* [Runs -> Workers]
  Subs,             \* the subproblems a job decomposes into
  MaxQueued,        \* [Tenants -> Nat]: quota_for(t).max_queued_jobs
  MaxRunning,       \* [Tenants -> Nat]: quota_for(t).max_running_jobs
  OwnQuota,         \* tenants given a quota with set_tenant_quota
  FallbackRunning,  \* max_running_jobs of TenantSolveQuota()
  ClaimWindow,      \* the limit(100) of the candidate query
  MaxAttempts,      \* bound: a job loses its lease fewer times than this
  None

ASSUME QueueConstants ==
  /\ TenantOf \in [Jobs -> Tenants]
  /\ Rank \in [Jobs -> Nat]
  /\ WorkerOf \in [Runs -> Workers]
  /\ MaxQueued \in [Tenants -> Nat]
  /\ MaxRunning \in [Tenants -> Nat]
  /\ OwnQuota \subseteq Tenants
  /\ FallbackRunning \in Nat
  /\ ClaimWindow \in Nat \ {0}
  /\ MaxAttempts \in Nat
  /\ None \notin Workers
  /\ None \notin Jobs

ASSUME FiniteJobs == IsFiniteSet(Jobs)

VARIABLES
  status,   \* the job table: status, lease_owner, lease_expires_at, attempt
  owner,
  lease,
  attempt,
  ckpt,     \* checkpoint["completed_subproblems"]
  pc,       \* local state of a run: where it is,
  held,     \*   the job it claimed,
  seen,     \*   the attempt its claim made,
  beating,  \*   whether its heartbeat thread still runs,
  part,     \*   where each subproblem is,
  verdict   \*   the terminal status it will ask finish_job for

table == <<status, owner, lease, attempt, ckpt>>
local == <<pc, held, seen, beating, part, verdict>>
vars  == <<table, local>>

Active   == {"running", "cancel_requested"}
Terminal == {"cancelled", "completed", "failed"}
Status   == {"absent", "queued"} \cup Active \cup Terminal

Saving == {"saving_feasible", "saving_infeasible"}
Done   == {"reused", "feasible", "failed", "cancelled"}
Part   == {"todo", "solving"} \cup Saving \cup Done

Working == {"preparing", "solving", "merging", "finishing"}

TypeOK ==
  /\ status \in [Jobs -> Status]
  /\ owner \in [Jobs -> Workers \cup {None}]
  /\ lease \in [Jobs -> {"none", "live", "expired"}]
  /\ attempt \in [Jobs -> Nat]
  /\ ckpt \in [Jobs -> [Subs -> {"none", "feasible", "infeasible"}]]
  /\ pc \in [Runs -> {"idle", "claiming"} \cup Working]
  /\ held \in [Runs -> Jobs \cup {None}]
  /\ seen \in [Runs -> Nat]
  /\ beating \in [Runs -> BOOLEAN]
  /\ part \in [Runs -> [Subs -> Part]]
  /\ verdict \in [Runs -> Terminal \cup {"none"}]

Init ==
  /\ status = [j \in Jobs |-> "absent"]
  /\ owner = [j \in Jobs |-> None]
  /\ lease = [j \in Jobs |-> "none"]
  /\ attempt = [j \in Jobs |-> 0]
  /\ ckpt = [j \in Jobs |-> [s \in Subs |-> "none"]]
  /\ pc = [r \in Runs |-> "idle"]
  /\ held = [r \in Runs |-> None]
  /\ seen = [r \in Runs |-> 0]
  /\ beating = [r \in Runs |-> FALSE]
  /\ part = [r \in Runs |-> [s \in Subs |-> "todo"]]
  /\ verdict = [r \in Runs |-> "none"]

-----------------------------------------------------------------------------
(* Queries and guards of the store.  The operators named Mut... are the    *)
(* mutated forms that show a property is sensitive to the code; nothing    *)
(* uses them.                                                              *)

QueuedOf(t) == {j \in Jobs : TenantOf[j] = t /\ status[j] = "queued"}
ActiveOf(t) == {j \in Jobs : TenantOf[j] = t /\ status[j] \in Active}

\* claim passes only the quotas of _quotas; for every other tenant the store
\* falls back on TenantSolveQuota() and not on the queue's default_quota.
ClaimQuota(t) == IF t \in OwnQuota THEN MaxRunning[t] ELSE FallbackRunning

MutHasQueueRoom(t) == Cardinality(QueuedOf(t)) <= MaxQueued[t]
HasQueueRoom(t) == Cardinality(QueuedOf(t)) < MaxQueued[t]
HasRunningRoom(t) == Cardinality(ActiveOf(t)) < ClaimQuota(t)

\* The candidate query: the first ClaimWindow queued rows by rank.
Candidates ==
  {j \in Jobs : /\ status[j] = "queued"
                /\ Cardinality({k \in Jobs : status[k] = "queued"
                                             /\ Rank[k] < Rank[j]}) < ClaimWindow}

MutEligible == Candidates
Eligible == {j \in Candidates : HasRunningRoom(TenantOf[j])}

\* heartbeat_job and save_job_checkpoint refuse anyone but the lease owner of
\* a running job; finish_job looks at the owner only.
MutOwnsLease(r) == TRUE
OwnsLease(r) == owner[held[r]] = WorkerOf[r]
MutMayWrite(r) == status[held[r]] = "running"
MayWrite(r)  == OwnsLease(r) /\ status[held[r]] = "running"
MutShouldCancel(r) == FALSE
ShouldCancel(r) == ~OwnsLease(r) \/ status[held[r]] = "cancel_requested"

-----------------------------------------------------------------------------
(* Callers of the queue.                                                   *)

\* submit_solve_job of a new (tenant, key).  A full queue or an oversized
\* job is refused with an error and leaves the table as it is.
Submit(j) ==
  /\ status[j] = "absent"
  /\ HasQueueRoom(TenantOf[j])
  /\ status' = [status EXCEPT ![j] = "queued"]
  /\ UNCHANGED <<owner, lease, attempt, ckpt, local>>

\* request_job_cancel: other statuses are left alone.
Cancel(j) ==
  /\ status[j] \in {"queued", "running"}
  /\ status' = [status EXCEPT ![j] = IF status[j] = "queued"
                                     THEN "cancelled" ELSE "cancel_requested"]
  /\ UNCHANGED <<owner, lease, attempt, ckpt, local>>

\* The clock passes lease_expires_at.
Expire(j) ==
  /\ lease[j] = "live"
  /\ attempt[j] < MaxAttempts
  /\ lease' = [lease EXCEPT ![j] = "expired"]
  /\ UNCHANGED <<status, owner, attempt, ckpt, local>>

MutOverdue == {j \in Jobs : status[j] = "running" /\ lease[j] = "expired"}
Overdue == {j \in Jobs : status[j] \in Active /\ lease[j] = "expired"}

MutAfterRecovery(j) == "queued"
AfterRecovery(j) == IF status[j] = "cancel_requested" THEN "cancelled" ELSE "queued"

\* recover_expired_leases: every overdue job in one transaction.
RecoverExpired ==
  /\ status' = [j \in Jobs |-> IF j \in Overdue THEN AfterRecovery(j) ELSE status[j]]
  /\ owner' = [j \in Jobs |-> IF j \in Overdue THEN None ELSE owner[j]]
  /\ lease' = [j \in Jobs |-> IF j \in Overdue THEN "none" ELSE lease[j]]
  /\ UNCHANGED <<attempt, ckpt>>

-----------------------------------------------------------------------------
(* SolveJobWorker.run_once.                                                *)

\* claim_solve_job, first transaction.
ClaimRecover(r) ==
  /\ pc[r] = "idle"
  /\ RecoverExpired
  /\ pc' = [pc EXCEPT ![r] = "claiming"]
  /\ UNCHANGED <<held, seen, beating, part, verdict>>

\* A subproblem with a checkpoint is not solved again, whatever the
\* checkpoint says about it.
MutResume(j) == [s \in Subs |-> "todo"]
MutResumeStatus(j) == [s \in Subs |-> IF ckpt[j][s] = "none" THEN "todo" ELSE ckpt[j][s]]
Resume(j) == [s \in Subs |-> IF ckpt[j][s] = "none" THEN "todo" ELSE "reused"]

\* claim_solve_job, second transaction, and the start of the heartbeat.
ClaimJob(r, j) ==
  /\ pc[r] = "claiming"
  /\ j \in Eligible
  /\ \A k \in Eligible : Rank[j] <= Rank[k]
  /\ status' = [status EXCEPT ![j] = "running"]
  /\ owner' = [owner EXCEPT ![j] = WorkerOf[r]]
  /\ lease' = [lease EXCEPT ![j] = "live"]
  /\ attempt' = [attempt EXCEPT ![j] = @ + 1]
  /\ pc' = [pc EXCEPT ![r] = "preparing"]
  /\ held' = [held EXCEPT ![r] = j]
  /\ seen' = [seen EXCEPT ![r] = attempt[j] + 1]
  /\ beating' = [beating EXCEPT ![r] = TRUE]
  /\ part' = [part EXCEPT ![r] = Resume(j)]
  /\ UNCHANGED <<ckpt, verdict>>

\* No candidate passes its tenant's quota: run_once returns without a job.
ClaimNothing(r) ==
  /\ pc[r] = "claiming"
  /\ Eligible = {}
  /\ pc' = [pc EXCEPT ![r] = "idle"]
  /\ UNCHANGED <<table, held, seen, beating, part, verdict>>

\* The loop of the heartbeat thread: it ends at the first refusal.
Heartbeat(r) ==
  /\ beating[r]
  /\ IF MayWrite(r)
     THEN /\ lease' = [lease EXCEPT ![held[r]] = "live"]
          /\ UNCHANGED beating
     ELSE /\ beating' = [beating EXCEPT ![r] = FALSE]
          /\ UNCHANGED lease
  /\ UNCHANGED <<status, owner, attempt, ckpt, pc, held, seen, part, verdict>>

Decide(r, v) ==
  /\ pc' = [pc EXCEPT ![r] = "finishing"]
  /\ verdict' = [verdict EXCEPT ![r] = v]
  /\ UNCHANGED <<table, held, seen, beating, part>>

\* The readiness manifest, the input blockers or any other exception fail
\* the run; otherwise the executor asks once whether to stop and starts.
Prepare(r) ==
  /\ pc[r] = "preparing"
  /\ \/ Decide(r, "failed")
     \/ ShouldCancel(r) /\ Decide(r, "cancelled")
     \/ /\ ~ShouldCancel(r)
        /\ pc' = [pc EXCEPT ![r] = "solving"]
        /\ UNCHANGED <<table, held, seen, beating, part, verdict>>

\* run_one up to the call of the scheduler.
SolveStart(r, s) ==
  /\ pc[r] = "solving"
  /\ part[r][s] = "todo"
  /\ part' = [part EXCEPT ![r][s] = IF ShouldCancel(r) THEN "cancelled" ELSE "solving"]
  /\ UNCHANGED <<table, pc, held, seen, beating, verdict>>

\* The scheduler returns or raises; a feasible result of a run that should
\* stop is dropped, any other result goes to the checkpoint callback.
SolveEnd(r, s) ==
  /\ pc[r] = "solving"
  /\ part[r][s] = "solving"
  /\ \E p \in Saving \cup {"failed"} :
       part' = [part EXCEPT ![r][s] =
                  IF p = "saving_feasible" /\ ShouldCancel(r) THEN "cancelled" ELSE p]
  /\ UNCHANGED <<table, pc, held, seen, beating, verdict>>

\* save_job_checkpoint; its refusal is ignored by the executor.
Save(r, s) ==
  LET result == IF part[r][s] = "saving_feasible" THEN "feasible" ELSE "infeasible"
  IN  /\ pc[r] = "solving"
      /\ part[r][s] \in Saving
      /\ ckpt' = IF MayWrite(r) THEN [ckpt EXCEPT ![held[r]][s] = result] ELSE ckpt
      /\ part' = [part EXCEPT ![r][s] = IF result = "feasible" THEN "feasible" ELSE "failed"]
      /\ UNCHANGED <<status, owner, lease, attempt, pc, held, seen, beating, verdict>>

Outcomes(r) == {part[r][s] : s \in Subs}

\* All futures are done: the executor looks for a reason to stop, then for
\* a subproblem without a schedule.
Collect(r) ==
  /\ pc[r] = "solving"
  /\ Outcomes(r) \subseteq Done
  /\ IF ShouldCancel(r) \/ "cancelled" \in Outcomes(r) THEN Decide(r, "cancelled")
     ELSE IF "failed" \in Outcomes(r) THEN Decide(r, "failed")
     ELSE /\ pc' = [pc EXCEPT ![r] = "merging"]
          /\ UNCHANGED <<table, held, seen, beating, part, verdict>>

\* Merge, global gate and serial repairs.  Each repair is preceded by a
\* cancel check, nothing after the last one is.
Merge(r) ==
  /\ pc[r] = "merging"
  /\ \/ Decide(r, "completed")
     \/ Decide(r, "failed")
     \/ ShouldCancel(r) /\ Decide(r, "cancelled")

Forget(r) ==
  /\ pc' = [pc EXCEPT ![r] = "idle"]
  /\ held' = [held EXCEPT ![r] = None]
  /\ seen' = [seen EXCEPT ![r] = 0]
  /\ beating' = [beating EXCEPT ![r] = FALSE]
  /\ part' = [part EXCEPT ![r] = [s \in Subs |-> "todo"]]
  /\ verdict' = [verdict EXCEPT ![r] = "none"]

\* finish_job: nothing is asked about the status, the expiry or the attempt.
MutFinish(r) ==
  /\ pc[r] = "finishing"
  /\ status' = IF OwnsLease(r) THEN [status EXCEPT ![held[r]] = verdict[r]] ELSE status
  /\ Forget(r)
  /\ UNCHANGED <<owner, lease, attempt, ckpt>>
Finish(r) ==
  /\ pc[r] = "finishing"
  /\ IF OwnsLease(r)
     THEN /\ status' = [status EXCEPT ![held[r]] = verdict[r]]
          /\ owner' = [owner EXCEPT ![held[r]] = None]
          /\ lease' = [lease EXCEPT ![held[r]] = "none"]
     ELSE UNCHANGED <<status, owner, lease>>
  /\ Forget(r)
  /\ UNCHANGED <<attempt, ckpt>>

\* The process dies: the row and its lease stay, the threads are gone.
Crash(r) ==
  /\ pc[r] \in Working
  /\ attempt[held[r]] < MaxAttempts
  /\ Forget(r)
  /\ UNCHANGED table

-----------------------------------------------------------------------------

RunStep(r) ==
  \/ ClaimRecover(r)
  \/ \E j \in Jobs : ClaimJob(r, j)
  \/ ClaimNothing(r)
  \/ Prepare(r)
  \/ \E s \in Subs : SolveStart(r, s) \/ SolveEnd(r, s) \/ Save(r, s)
  \/ Collect(r)
  \/ Merge(r)
  \/ Finish(r)

Next ==
  \/ \E j \in Jobs : Submit(j) \/ Cancel(j) \/ Expire(j)
  \/ \E r \in Runs : RunStep(r) \/ Heartbeat(r) \/ Crash(r)

Spec == Init /\ [][Next]_vars

\* Someone keeps calling run-once, threads are scheduled, and time passes.
Fairness ==
  /\ \A r \in Runs : WF_vars(RunStep(r))
  /\ \A j \in Jobs : WF_vars(Expire(j))

FairSpec == Spec /\ Fairness

-----------------------------------------------------------------------------
(* Properties.                                                             *)

\* The row is coherent after every interleaving of claim, heartbeat, cancel,
\* recovery and finish: a job has an owner and a lease exactly while it is
\* running or being cancelled, so nobody can write a settled or queued job.
LeaseMatchesStatus ==
  \A j \in Jobs : /\ status[j] \in Active <=> owner[j] # None
                  /\ owner[j] # None <=> lease[j] # "none"

\* However claims and recoveries interleave, a tenant never has more jobs
\* running or cancelling than the quota the claim consults.
RunningWithinClaimQuota ==
  \A t \in Tenants : Cardinality(ActiveOf(t)) <= ClaimQuota(t)

\* Recovery puts running jobs back in the queue without asking for room, so
\* max_queued_jobs alone does not bound the backlog: the two quotas do
\* together, whatever is claimed, lost and resubmitted in between.
BacklogBounded ==
  \A t \in Tenants :
    Cardinality(QueuedOf(t)) + Cardinality(ActiveOf(t)) <= MaxQueued[t] + ClaimQuota(t)

\* A run that the store still takes for the owner of its job made the latest
\* claim of it: a run that lost its lease is never mistaken for the holder,
\* although the store compares worker ids and never attempts.
OwnerMadeLatestClaim ==
  \A r \in Runs : pc[r] \in Working /\ OwnsLease(r) => seen[r] = attempt[held[r]]

\* Only the run that made the latest claim writes results: neither a
\* checkpoint nor a completed or failed status comes from an earlier attempt.
StaleRunsWriteNothing ==
  [][\A j \in Jobs :
       \/ ckpt'[j] # ckpt[j]
       \/ status[j] # status'[j] /\ status'[j] \in {"completed", "failed"}
       => \E r \in Runs : /\ held[r] = j /\ seen[r] = attempt[j]
                         /\ <<pc'[r], part'[r]>> # <<pc[r], part[r]>>]_vars

\* Once settled, a job keeps its outcome and its checkpoint, whichever late
\* finish, heartbeat, recovery or cancel still arrives.
TerminalIsFinal ==
  [][\A j \in Jobs : status[j] \in Terminal =>
       status'[j] = status[j] /\ ckpt'[j] = ckpt[j] /\ owner'[j] = None]_vars

\* A cancellation that was accepted is never undone: the job is not queued or
\* claimed again after a lost lease.
CancelIsSticky ==
  [][\A j \in Jobs : status[j] = "cancel_requested" =>
       status'[j] \in {"cancel_requested"} \cup Terminal]_vars

\* A job becomes "completed" only when the result of each of its subproblems,
\* from this attempt or an earlier one, is in its checkpoint, although the
\* executor ignores the refusals of save_job_checkpoint.
CompletedIsCheckpointed ==
  \A j \in Jobs : status[j] = "completed" => \A s \in Subs : ckpt[j][s] # "none"

\* A saved result is never overwritten by a later attempt or a stale one:
\* what was solved once is reused.
CheckpointIsWriteOnce ==
  [][\A j \in Jobs, s \in Subs : ckpt[j][s] # "none" => ckpt'[j][s] = ckpt[j][s]]_vars

\* Every submitted job settles, through lost leases, crashes and cancels.
EveryJobSettles ==
  \A j \in Jobs : status[j] # "absent" ~> status[j] \in Terminal

\* The queue implements the service it promises.
AbsPhase(j) ==
  CASE status[j] = "absent" -> "absent"
    [] status[j] = "queued" -> "waiting"
    [] status[j] \in Active -> "held"
    [] OTHER -> "done"

Service == INSTANCE JobService WITH
  Quota <- ClaimQuota,
  phase <- [j \in Jobs |-> AbsPhase(j)],
  outcome <- [j \in Jobs |-> IF status[j] \in Terminal THEN status[j] ELSE "none"],
  work <- [j \in Jobs |-> {s \in Subs : ckpt[j][s] # "none"}]

ImplementsService == Service!Spec

-----------------------------------------------------------------------------
(* What the documents say and the code does not do.                        *)

\* completion report, section 1: completed subproblems can be reused from
\* checkpoints; a job must not complete on one that was found infeasible.
CompletedIsFeasible ==
  \A j \in Jobs : status[j] = "completed" => \A s \in Subs : ckpt[j][s] = "feasible"
=============================================================================
