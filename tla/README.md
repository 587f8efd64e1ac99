# ReOrch 智策: TLA+ models, checks and proofs

ReOrch 智策 is a FastAPI service that helps a planner recover a production
schedule after an incident.  This directory models the parts of it that keep
state over several calls and must survive concurrency, retries and crashes.
Paths below are relative to the repository.

## 1. The system

One FastAPI process serves requests: coroutine handlers on one event loop, plain
handlers in a thread pool.  A second process, an ARQ worker, runs background
tasks (`core/tasks.py`).  State is kept in memory by services, in relational
tables through the *operational store* (`services/operational_store.py`) and in
the recovery tables, and reaches the outside through Kafka, a WebSocket, and the
MES/ERP adapters.

The operational store takes one re-entrant lock around each SQL transaction.
Inside one process, therefore, each store method is atomic, and a caller that
uses two of them is not.  The lock is not shared between processes.

### Components

| Component | State | Operations | Interacts with | What is hard | What makes it correct |
|---|---|---|---|---|---|
| Durable solve queue (`operational_store.py`, `solve_job_runtime.py`, `api/production_runtime.py`) | `solve_jobs` rows: status, lease owner and expiry, attempt, checkpoint; per-tenant quotas | submit, claim (recover, then take), heartbeat, save checkpoint, request cancel, finish | the executor through its cancel and checkpoint callbacks; the heartbeat thread | lost leases, crashes, late writers, cancel against finish, quotas under requeue | one writer per claim, settled jobs final, cancellations kept, quotas, every job settles |
| Decomposition executor (`decomposition_executor.py`) | futures of subproblems | solve each subproblem in a pool, reuse checkpoints, merge, repair | scheduler, queue callbacks | cancel checks at a few points only, ignored refusals | a completed job has all its results |
| CDC ingestion and as-of reads (`operational_store.py`, `cdc_consistency.py`) | event rows with a committed flag; checkpoint rows (sequence, watermark) | `apply_cdc_event`; `materialize_as_of` | sources deliver, readers ask | order, gaps, repeats, id collisions; reads in several sessions | the committed events are a prefix; an answer vouches for what it has |
| Shadow execution (`shadow_execution.py`, `operational_store.py`) | shadow case rows, receipt rows, evidence rows | run, planner decision, ingest receipts | MES receipts; concurrent requests | read, add, list, overwrite, file evidence in separate transactions | closed means complete; decision first; evidence never replaced |
| Integration registry (`integration_registry.py`) | versioned assets: draft, active, superseded; certifications | register, activate, certify | drift guard, readiness | check in one transaction, activate in another; several nodes | one active version; what is active was checked against what is active |
| Schema drift guard and quarantine (`schema_drift_guard.py`) | quarantine rows | evaluate, resolve | active manifest | a release that judges by an old manifest | nothing released but what an activated manifest accepts, after the refusing one is retired |
| Decision readiness (`decision_readiness.py`) | manifests | build, check at submission and at execution | registry, queue | the parts are read one by one; staleness between the checks | a job runs only on a manifest whose parts fit each other, or without one where that is allowed |
| Confirmation (`api/confirmation.py`, `confirmation_module.py`, `persistence.py`) | decision record in memory and in the database; the confirmed plan in memory only | accept, adjust, override, read the record | writeback, persistence | a restart loses one half of what was confirmed; a read that answers late | what is written is what was confirmed |
| MES writeback (`writeback_module.py`, `writeback_policy.py`, `core/tasks.py`) | keys already sent, job rows, what the MES has applied | check the permit, send each instruction, file the outcome, retry | MES, ARQ worker | lost answers, two writers of one row, retry by another process | a stored success is one; retries end |
| Constraint validation (`operational_constraint_validator.py`, `constraint_validator.py`) | none | judge a plan against a snapshot | every solver | the judge and the searches are written apart and read the snapshot in two ways | a plan that met the rules is accepted |
| SSGS scheduler (`constraint_aware_ssgs.py`) | the plan, the heap, reservations, for one call | place operations one by one | validator | insertion into gaps among many kinds of resources; times floored to minutes | nothing placed is disturbed later; the status tells why there is no plan |
| Anytime portfolio and hybrid solver (`anytime_hybrid_scheduler.py`, `schedule_objective.py`, `hybrid_solver.py`, `cp_sat_scheduler.py`) | candidates and incumbent, for one call | heuristic, direct CP-SAT, repairs of neighborhoods, choice | CP-SAT, validator | each repair starts from another plan, counts minutes from an origin of its own and is judged against the first | the best validated plan is returned; no repair takes back a delay, but for what rounding costs |
| Runtime backup (`runtime_backup.py`) | a file | create, restore, drill | the nine tables of the store | export is not one transaction | a restored store is a store that existed |
| Sandbox connector (`integration_sdk/digital_twin.py`) | versions, idempotency keys, receipts of a simulated MES | write, reconcile, compensate | the certification script | order of compensation and reconciliation | compensation restores what was there |
| Kafka consumer (`core/kafka_consumer.py`) | offset, handlers | poll, handle, commit | broker | a failed message before a committed one | a failed message is seen again |
| WebSocket push (`api/ws.py`) | client set, event log | connect, broadcast, replay | event loop | the set changes between awaits | each connected client gets each event |
| Incident transitions, experiments, module versions, idempotency, transactions | in-memory maps | transitions, rollback, replay | their tests only | none in the application | only listed transitions |
| Anomaly intake, strategy, rules, agents, laboratory, reports, adapters | none over calls | computation and conversion | external solver, language models, Redis | scoring | nothing that outlives a call |

`PROJECT.json` lists every component with its status, and every hazard at its line.

## 2. Modules

| Module | What it is |
|---|---|
| `SolveQueue` | the queue, its workers, the executor's control, crashes |
| `JobService` | the abstract service that `SolveQueue` implements |
| `MCSolveQueue` | instances for TLC |
| `SolveQueueProofs` | coherence of the rows; finality; cancellation; the two quotas; who writes results; the queue implements `JobService` |
| `CdcLog` | ingestion and as-of requests |
| `AppendOnlyLogs` | the abstract logs that ingestion implements |
| `MCCdcLog` | feeds for TLC |
| `CdcLogProofs` | ingestion; what an answer vouches for; ingestion implements `AppendOnlyLogs` |
| `ShadowExecution`, `MCShadowExecution` | shadow cases, and instances for TLC |
| `ShadowExecutionProofs` | closure, decision and evidence under concurrent requests |
| `IntegrationAssets`, `MCIntegrationAssets` | registry, drift guard and readiness over the asset rows, and an instance |
| `IntegrationAssetsProofs` | one active version; supported activations; releases; ingestion; runs |
| `Writeback`, `MCWriteback` | confirmation, writeback to the MES and its retry, and instances |
| `WritebackProofs` | what reaches the MES; what a stored success means |
| `ScheduleRules` | snapshots, their two readings, plans, the rules of the validator, the repair scope: operators only |
| `SsgsScheduler`, `MCSsgsScheduler` | the constraint-aware SSGS step by step, and its shops |
| `AnytimePortfolio`, `MCAnytimePortfolio` | the portfolio around CP-SAT and the hybrid solver's second judgement, and its requests |
| `ScheduleRulesProofs` | lemmas on least and greatest elements, sums, loads, scopes, minutes and the two readings, on which the next two rest |
| `SsgsSchedulerProofs` | the status; nothing placed is disturbed; regular plans are valid |
| `AnytimePortfolioProofs` | the best of all; delays; offers |

Operators named `Mut...` are wrong variants of the operator next to them.  No
specification uses them; they record for each property a change of the code
that breaks it.

### SolveQueue

`status`, `owner`, `lease`, `attempt` and `ckpt` are the columns of a
`solve_jobs` row; `pc`, `held`, `seen`, `beating`, `part` and `verdict` are the
locals of a `SolveJobWorker.run_once` call, its heartbeat thread and its pool of
subproblems.  A job is a pair of tenant and idempotency key, so the one
submission of a job is a step and every resubmission is none.

| Action | Code |
|---|---|
| `Submit`, `Cancel` | `submit_solve_job`, `request_job_cancel` |
| `ClaimRecover`, `ClaimJob`, `ClaimNothing` | `claim_solve_job`: `recover_expired_leases` is a transaction of its own, then a second transaction takes the first eligible row |
| `Heartbeat` | the loop of the heartbeat thread, ended by its first refusal |
| `Prepare`, `SolveStart`, `SolveEnd`, `Save`, `Collect`, `Merge` | `DecompositionExecutor.execute` up to each point at which it reads or writes the store |
| `Finish` | `finish_job` and the end of the call |
| `Expire`, `Crash` | the clock passes `lease_expires_at`; the process dies |

Time is reduced to whether `lease_expires_at` has passed; the priority and
creation order to a rank; a schedule to "feasible", "infeasible" or an error.
The merge, the global gate and the serial repairs end in one of their outcomes.
`run_once` returning an error before the executor starts is a `failed` verdict.

### CdcLog

`rows`, `committed`, `seqNo` and `mark` are the event rows, their committed flag
and the checkpoint rows; the rest is one `materialize_as_of` request.
`apply_cdc_event` is one locked transaction: `Buffer` is its `gap_buffered`
branch and `Accept` its `accepted` one, with every buffered event that the new
one connects.  Its other answers (duplicate, collision, stale, checksum) change
nothing.  A request reads each source's checkpoint, then its pending sequences,
judges them and loads the events, each in a session of its own.  The fold of
events into entities is `View`.  Times are ticks, of which a second has `Second`:
the code cuts a skew down to whole seconds before it compares it, so one that is
above the limit by less than a second passes.

### ShadowExecution

`status`, `decision`, `copy` and `chain` are a case row (`copy` is its list of
receipts, `chain` its fingerprint as the sequence of what was hashed), `stored`
the receipt rows, `evidence` the closure evidence.  A request reads its case
(`BeginDecision`, `BeginIngest`), adds its receipts one at a time
(`AddReceipt`), lists what is stored (`List`), overwrites the row with a copy of
what it read (`Save`, `Decide`) and files the evidence (`PutEvidence`).  `Crash`
ends it anywhere.

### IntegrationAssets

`status` is the status column of the asset rows, `built` what a readiness
manifest says, `quar` the quarantine rows by what their fingerprint holds (the
observation and the manifest that judged it), `lock` the store's lock while an
activation is between its read and its write.  A request is one of `Calls`; its
locals are `pc`, `on`, `found`, `obs`, `judge`, `purpose`, `filed`, `reads`.

| Action | Code |
|---|---|
| `Register`, `RegisterReport`, `Approve` | `_register`; reports that activate themselves; the gate of `activate_scenario_contract` and `activate_connector_manifest`, read before the activation |
| `Lock`, `NotDraft`, `Activate` | `activate_integration_asset` |
| `Judge`, `Quarantine`, `Pass`, `Release`, `Reject` | `SchemaDriftGuard.evaluate` and `resolve`; the ingestion behind it |
| `IngestUnjudged` | `ingest_cdc_event` of an event that names no connector |
| `StartEvaluation`, `ReadNext`, `NoContract`, `Evaluate` | `DecisionReadinessService.evaluate`, one query of an active version at a time |
| `SubmitJob`, `RunJob`, `Expire` | `assert_ready_manifest`, or the question for the environment, at submission and before execution; `expires_at` |
| `Crash` | the process dies; an open transaction is rolled back |

A matrix is reduced to its rules (role, paths, when valid), a contract to its fields
and constraints with their roles and criticality, a constraint definition to its
roles, a connector manifest to its version, source and schemas.  Activation and
readiness ask different things of a matrix: the gate (`Supported`) wants a rule for
each role, whatever it covers, the evaluation (`Resolved`) one that covers the field's
path at the time asked for.  A request may list the connector or not
(`required_connector_ids`, empty by default), in which case neither its manifest nor
its report is read.  `strict` is whether the environment is staging or production:
only there are jobs without a manifest and events without a connector refused.  One
process is modelled: with several processes over one database the store's lock does
not help.

### Writeback

`decisions` are the decision records in the order of confirmation, `stored`
those that are in the database; `cache`, `kept` and `sent` are
`_decision_record_store`, `_confirmed_plans` and the adapter's
`_sent_idempotency_keys`, which a restart empties; `jobs` are the job rows.
`applied` is outside the program: what the MES has done.

`Record` (by `Accept`, `Adjust`, `Reject`) is `confirm_plan`; `FetchRecord` and
`CacheRecord` are the two halves of `get_decision_record`. A writeback is
`StartWriteback`, then for each instruction `SkipSent`, `Refuse` or `Post` with `Answer`
or `NoAnswer`, then `SelectRow` and `Report`, the two halves of `persist_writeback_job`.
A job row is selected in one step and committed in a later one, and the commit writes
the columns in which the new values differ from the selected ones (`Changed`,
`Updated`), as the ORM does; so two commits of one row can mix.
`RetryRead`, `RetrySelect` and `RetryWrite` are the retry task of the worker.  It has no permit, and
with an MES configured the policy refuses every instruction it sends. The model assumes
`INTEGRATION_MES_BASE_URL` is set; without it nothing leaves the process.

### ScheduleRules, SsgsScheduler, AnytimePortfolio

`ScheduleRules` holds the rules of `OperationalConstraintValidator` as predicates
over a plan; `Accepted` is its report without violations.  Times are ticks, of which a
minute has `Minute`.  A snapshot (`IsSnapshot`) is read in two ways:

- `SearchView` is what the parser and the SSGS make of it: starts, ends, windows and
  deadlines floored to whole minutes from the origin, missing times read as the
  origin, delays rounded to the nearest minute, windows cut at the horizon, tools
  blocked by the capacity known when their row is read, gates by the operations they
  name, lead times of approved outsourcing.
- `JudgeView` is what the validator makes of it: times as they are, rows without a
  time passed over, gates by operation and by batch, tools blocked by their final
  capacity, what is eligible (`allowed`) and how many an approval admits (`quota`).

`SsgsScheduler` keeps the snapshot (`snap`) and the search's reading of it (`shop`),
takes the operations of the repair scope from a heap (`First`, `Place`, `Fail`), and
has its plan judged, with the operations that stay as they were (`Built`), on the
validator's reading.  The search for a slot (`Slot`, `MachineSlot`, `HasCapacity`) is a
function of the plan so far, in the code's own terms and not in those of the
validator.  `TimeOut` may happen before any operation, and a search may be cut short
(`Searched`).  Abstracted: setups do not differ by machine; one delay holds for all
affected operations; every operation has a row in the raw work orders; the order of
the snapshot, where the code falls back on it, is `Rank`; transport times are not
negative; the horizon is a constant in whole minutes; an operation of the snapshot
does not end before it starts, as the table demands (`models/db/schedule_fact.py:57`).

`AnytimePortfolio` is `AnytimeHybridScheduler.solve`: `Heuristic`, `Direct`, one
`Repair` per neighborhood, `Finish` with the Pareto filter and the choice.  CP-SAT
and the heuristic return any plan that the validator accepts, within the scope,
above the lower bounds and on the whole minutes that the code posts, or none.  Each
solve has an origin of its own (`Origin`: the earliest of its snapshot's starts and of
`captured_at`), floors the starts that it is given (`Start`) and rounds the delay;
CP-SAT also writes what it keeps anew, in whole minutes (`Rewritten`), which the
validator then refuses unless that changes nothing that is frozen.  A repair's horizon
is that of the first solve, and a score is not rounded: the code rounds to a
ten-thousandth of a minute.  `Offered` is the validation that `HybridSolver` repeats on
the result.

## 3. What is checked

| Run | Instance | Shows |
|---|---|---|
| `SolveQueueWork` | one job, two subproblems, two workers, leases lost up to three times | row coherence; only the latest claimant writes; completed means checkpointed; settled is final; cancellations stay; results are written once |
| `SolveQueueQuota` | three jobs of one tenant, two workers, quotas of one, claim window two | running quota; backlog |
| `SolveQueueLive` | two jobs of one tenant, two workers | the queue implements `JobService`; every submitted job settles |
| `CdcLog` | two sources with repeats and colliding ids, three cuts, skew one second, two ticks a second | prefix, nothing left waiting, complete and final answers, skew, refinement of `AppendOnlyLogs`, gaps close |
| `ShadowExecution` | two concurrent requests on one executing case, a blocked case, partial and mismatching batches | closed means complete; decision first; each event counts once; evidence is final |
| `IntegrationAssets` | an active matrix, a draft contract, two connector versions with their reports, two concurrent requests, either kind of environment; with one observation that only the second version accepts, or with a constraint definition and a readiness manifest, evaluated at two times, with or without the connector | one active version; supported activations; a release only after the refusing manifest is retired and if an activated one accepts; in staging and production no ingestion that no activated version accepts; no run on parts that do not fit, and in staging and production none without a manifest |
| `Writeback` | one plan of two instructions, two confirmations, two concurrent writebacks, restarts | what is applied was confirmed, in that version; a success is filed only when all was applied, and a row that says so belongs to a decision of which a version was applied |
| `SsgsScheduler` | some 24,500 snapshots of three operations and two machines, a minute of two ticks | nothing placed is disturbed, but for less than a minute by what stays; regular plans are valid; the status tells the order |
| `AnytimePortfolio` | 68 requests on three operations of two work orders, two repairs, a minute of two ticks | the best of all is returned; what rounding may take from a delay; when a result is discarded |
| `SolveQueueInfeasible`, `CdcLate`, `WritebackRetries` | the smallest instance of each | a statement of the repository that the code does not meet (section 5) |

Bounds.  `MaxAttempts` caps how often one job loses its lease or its process; two losses
already give a stale writer, a new owner and a late heartbeat at the same time, a third
lets the stale one come back.  Two workers are enough for a stale and a current owner.
Two subproblems let one be saved by an earlier attempt while the other is solved anew.
A claim window of one or two stands for the 100 of the code, so that rows beyond the
window exist.  Quotas are per tenant and never add up, so one tenant is checked and
every set of tenants is covered by the proofs.  Three jobs are one more than a queue and
a running quota of one admit.  The feeds hold a repeat under another id, a repeat of a
sequence with other contents, an id used by two sources, and all orders of arrival.
`MaxChain` caps how often one case is hashed; new requests stop there, so that run does
not check for deadlock.  In `SolveQueueWork` the subproblems, in `SolveQueueQuota` the
runs together with their workers, and in `ShadowExecution` the calls, are
interchangeable and declared symmetric, as are the requests on the assets and
the sessions and operations in `Writeback`; the runs with liveness use no symmetry.

On the assets two requests suffice for every race of a check with an activation; the
rows bound the run by themselves, because a version is activated once.  The guard and
the readiness evaluation share nothing but the activations, so a behaviour of the run
uses one of the two and not both (`GuardOrReadiness`); the theorems have no such bound.
The matrix has a role for every field, but covers the quantity at one of two times
only, so that a contract can pass the gate and still not be ready.
In `Writeback`, `MaxDecisions` and `MaxLoad` bound the confirmations and the writebacks
under way together, and `MaxRetries` the retry counts: two decisions let a retry pick
the other one's job, two sessions let one skip what the other has sent.  `MaxRetries` and
`RetryLimit` are one there; in `WritebackRetries` the limit is three, as in the code.
The snapshots of `SsgsScheduler` are five families: what is in scope and in which order
(with cycles and missing predecessors), machines (calendars, setups, deadlines,
limits), what is shared (tools, outages, lanes, buffers), times (within a minute or
missing, of releases, parts, gates and materials), and rows on which the two readings
differ (lead times, approvals, block capacities, rows of one lane or buffer).  Within
nine minutes three operations can be placed, collide, be inserted into a gap and miss
their deadline; every outcome occurs, and each shared thing occurs in regular snapshots
with a feasible outcome.  In `AnytimePortfolio` two repairs are what `HybridSolver` asks
for, and four minutes leave each operation room to move and to be late.  Two ticks a
minute (and a second, in `CdcLog`) are the least with which flooring and rounding show:
some starts, delays, captures and events lie between two whole units.  These two runs
do not check for deadlock because a call that has returned stops.

Fairness.  `SolveQueue!FairSpec`: somebody keeps calling run-once and the threads of a
call are scheduled (weak fairness of each run), and time passes (weak fairness of each
expiry).  Nothing is assumed of callers who submit or cancel, nor of the heartbeat.  A
crash is never fair and `MaxAttempts` bounds it: a job whose process dies every time
would be requeued for ever, because the code has no limit on attempts.  In
`SolveQueueLive` there is one claim window and a quota of one, so a job waits for the
one before it.  `CdcLog!FairSpec`: each event of the feed is delivered until the store
has taken it, which is what an at-least-once source does; the reader needs no fairness.

## 4. What is proved

The theorems hold for all values of the constants that satisfy the assumptions
declared in `SolveQueue` (`QueueConstants`, `FiniteJobs`), `CdcLog`
(`CdcConstants`), `ShadowExecution` (`ShadowConstants`), `IntegrationAssets`
(`AssetConstants`), `Writeback` (`OpsAssumption`, `BoundsAssumption`), `SsgsScheduler`
(`SsgsConstants`) and `AnytimePortfolio` (`PortfolioConstants`), not only for the
instances above.  Each invariant that a run checks has its theorem, and so has each
action property and each refinement.

*Coherence (`SolveQueueProofs`).*  The statuses alone are not inductive: that a
heartbeat may write `lease` rests on the run's job being active.  The inductive
invariant `Coherent` joins the types, the shape of the runs' locals (`RunShape`)
and `LeaseMatchesStatus`.  From it follow `QueueTypeOK`, `LeasesMatch`, and two
action properties, `SettledIsFinal` and `CancelStays`: a settled job has no
owner, so no run passes the owner check on it.

*Quotas (`SolveQueueProofs`).*  `StatusSteps` shows that only `Submit` and
`ClaimJob` add to the queued and the running jobs.  `WithinClaimQuota` and
`BacklogWithinBound` count with the finite-set theorems; the second needs the
first, since a submission only sees the queued jobs.

*Ownership (`SolveQueueProofs`).*  Under `OneRunPerWorker`, no two runs in progress
share a worker id.  `OwnerClaimedOrStayed` says that a run that owns its job
after a step has just claimed it or owned it before with nobody claiming in
between; `OwnerIsLatest` and `OnlyTheLatestWrites` follow.  For completion the
invariant `Recorded` says what an owner knows of its checkpoint (`Unsaved`,
`Saved`, `AllSaved`).  `Saved` needs the job to be running, because a
checkpoint is refused while a cancellation is pending; `CompletedHasCheckpoints`
holds because the executor then asks again before it merges.

*Refinement (`SolveQueueProofs`).*  Each kind of step that changes a status or
a checkpoint maps to one step of `JobService` (`SubmitAdmits`, `CancelSettles`,
`RecoveryReclaims`, `ClaimGrants`, `SaveRecords`, `FinishSettles`), every other
one to a stutter.  `SaveRecords` needs `Unsaved` (the service records a piece of
work once) and `FinishSettles` needs `AllSaved`; so the theorem inherits
`OneRunPerWorker`.

*Ingestion (`CdcLogProofs`).*  `Contiguous` joins the types, `CommittedIsPrefix`,
`NothingCommittableWaits` and that a request never saw more than there is.  The
key lemma, `BatchIsRun`, shows that what an accepted event commits is an
interval that nothing stored continues.  `SnapshotComplete` follows for every
feed.  `MarkIsLast`, `AnsweredCutIsFinal` and `AnsweredWithinSkew` assume
`OrderedClocks`: in each source a later sequence has a later time.  (Without it the
watermark, the maximum of the last batch alone, can move back.)  The run
`CdcLate` shows what happens without it.  `AnsweredWithinSkew` bounds the skew in whole
seconds, as the code does: up to a second less a tick more than the limit may pass.
`IngestionImplementsLogs` is the refinement of `AppendOnlyLogs`: an accepted event
extends the log of its source (`AcceptExtends`), every other step is a stutter.  That
old entries stay rests on both parts of `CommittedIsPrefix`, since the entry at a
sequence is whichever committed event has it.

*Shadow cases (`ShadowExecutionProofs`).*  What the rows say is kept by requests that
write what they read earlier, so the invariant `Sound` adds what a request in
progress may rely on (`RequestShape`): its case is feasible, the receipts it
copied or listed are stored for this case, and a planner had decided before an
ingestion began.  Because receipts are never removed and a decision never
returns to none, a stale overwrite (`UpsertSound`) cannot take away what another
request established.  `ClosedIsComplete`, `DecisionIsFirst`, `EventsCountedOnce`
and `EvidenceStays` follow for any number of concurrent requests.

*Integration assets (`IntegrationAssetsProofs`).*  None of the five properties is
inductive, because each rests on what a request read in an earlier transaction.
The invariant `Governed` says what such a reading still guarantees: a request
that holds the lock has found exactly the active rows of its scope
(`Activating`); one that passed a gate had a supporter that was activated; one
that judged an observation read a manifest that was activated, and the row it
is about to release was filed against another verdict (`Judging`, `Filed`); a readiness
evaluation has read versions that were activated (`Reading`, `Backed`).  These
facts survive the steps of others because a row goes from draft to active to
retired and never back (`Lifecycle`).  For one active version the argument is
`LockHeld`: between `Lock` and `Activate` nobody else writes a status.
`OneVersionActive`, `ActivationSupported`, `ReleaseSuperseded`, `IngestedAccepted` and
`RunsBacked` follow for any number of versions and concurrent requests, in one process.
What they do not say: a release or an ingestion may use a manifest that was replaced
since it was read.  `RunsBacked` says of a job with a manifest that each part it names
was active once, that no field or constraint of the contract had a gap (`Gaps`), and,
if the connector was asked for, that its report is of its version (`ConnectorReady`);
of a job without one, that the environment is neither staging nor production.

*Writeback (`WritebackProofs`).*  The invariant `Written` joins the two
properties with what a request under way knows: its decision is no override and,
once it waits for an answer, its version is the one that the decision confirms
(`Underway`, by the permit check at each send); what it has ticked off without a
failure was applied (`Good`); a key in `sent` was applied; and the row that a writer has
selected is a row of its decision.  There is one lemma per action.
`OnlyConfirmedPlansWritten` and `SuccessIsApplied` hold for any number of plans,
operations, confirmations and concurrent writebacks, through restarts and in spite of
two writers of one job row.  Because a commit writes changed columns only, a row can mix
two outcomes.  What `SuccessIsApplied` says is what remains true: a session files a
success only when all its instructions were applied, and a row with the status success
belongs to a decision of which one version (the confirmed one, or the candidate it came
from: `Writable`) was applied as a whole.  It does not say that the instructions in the
row's payload were (section 5).

*Schedulers: how they could be reached (`ScheduleRulesProofs`).*  Their properties are
about sums over intervals and about lists that are built one by one, and the library's
induction theorems cannot be used.  Three things stand in for them.  A sum is the number
of its units (`Total`), so that adding a use adds its units (`LoadOfMore`); what is
downstream is the least set that is closed under successors (`Downstream`), so that it
grows with its argument (`DownstreamGrows`); and a set of naturals that has 0 and with
each number the next is all of them (`NatGrows`), because otherwise it would miss a
least one.  With the set of the numbers for which a fact holds in its place, `NatGrows`
is induction, and it serves for the recursive functions: the search for a slot and the
Pareto front are shown to exist and to have what each of their steps keeps.

*SSGS (`SsgsSchedulerProofs`).*  `OrderInv` (`PlacedInOrder`) relates the three
structures of the code: what is ready has all its predecessors of the scope in the plan,
and an indegree is the number of those that are missing.  `StatusIsTrue` follows from
it: if the heap is empty and an operation is missing, the missing ones are a circle, and
if there is a circle none of it is ever placed.  For `PlacedStaysFit` the key is
`SlotSuits`, what the search guarantees of the start that it returns although it tries
one after another: the machine is clear with its setups on both sides, the tools, lanes
and buffers have room, and it ends in time.  A later insertion keeps what was placed
because it looked at it: `FitsWithMore` adds a use to a resource whose peak the search
has bounded at every minute.  All this holds in the times that the search reads
(`ReadingIsShop`: either reading of a snapshot is a shop), and `FloorFacts` carries it
over to the times as they are: nothing is lost among what is placed, which the search
puts on whole minutes, and less than a minute against what stays and against windows.
`RegularIsValid` adds an invariant for each rule of the
validator, over the partial plan, under the hypotheses that `Regular` names: that the
two readings of the snapshot say the same of what the rules look at (`Agree`), and that
the shop is one whose rules the search covers (`Orderly`).  A lemma for
each rule (`Adds...`) shows that a placement keeps it.  Where the rule speaks of the
next operation on a machine the proof needs that operations take time, and that no setup
spans a window.

*Portfolio (`AnytimePortfolioProofs`).*  `PortfolioInv` (`CandidatesJudged`) says that
each candidate was validated and scored, and that the incumbent has the plan of one of
them. `ResultIsBest` is the argument for filtering before choosing: `FrontFacts` shows,
over the list, that whatever is dropped from the front leaves one there with the same
plan or one that dominates it, and `LessFacts` that domination implies a ranking that is
no worse under each of the goals.  `DelaysStay` needs that the repairs start from the
incumbent (`RepairKeeps`), because they are asked with no delay.  Its bound adds up what
conversions cost: half a minute when the delay is rounded (`RoundedFacts`), less than a
minute when the first solver floors a start against its origin (`StartFacts`), and again
in each repair (`RepairAnswer`), whose origin is another; so after `tries` repairs
less than `tries` + 1.5 minutes of the delay are lost.  `LocalIsOffered` assumes two repairs or fewer, as `HybridSolver` asks for (`hybrid_solver.py:397`): the
first neighborhood is what is affected, so until the second one only the scope of the
first has moved, which every later scope includes (`OfferInv`).  From the third repair
on the incumbent may have moved what the scope of the last one lacks: with `Iterations`
at three TLC finds such a result on the requests of the run.

Only model-checked: the liveness properties `EveryJobSettles` and `CatchesUp`, which
rest on fairness and `ENABLED`, out of the prover's reach.

## 5. Where the code differs from what is said about it

| Run | Statement | Code |
|---|---|---|
| `SolveQueueInfeasible` | completed subproblems are reused from checkpoints (line 28) | infeasible ones are too, and count as solved (`decomposition_executor.py:88`) |
| `CdcLate` | later events are excluded (`cdc_consistency.py:161`) | events are read after the checkpoints and filtered by time only |
| `WritebackRetries` | a failed writeback is retried at most three times (`core/tasks.py:61`) | the count is taken from the newest job of the incident and filed under another decision, whose count never grows: it is retried without end (`core/tasks.py:125`) |

The completion report is
`src/docs/validation/production_runtime_completion_report_20260712.md`.

Seen while modelling, without a run of their own:

- *Queue.*  A lease is the worker id, which the caller of run-once chooses, and attempts
  are not compared (`operational_store.py:387`), although line 74 of the report
  says exclusive claim; the ownership theorems therefore assume `OneRunPerWorker`.  The
  configured default of the running quota does not reach the claim
  (`operational_store.py:307`; report, line 73).  `finish_job` and
  `save_job_checkpoint` do not look at the lease's expiry (`:387`, `:345`), while
  `docs/integration/production_runtime_onboarding.md:56` lets expired leases fail
  closed; until a recovery takes the job away its old owner may write, and no
  other run holds it.
- *Shadow cases.*  A receipt delivered again to a closed case changes its
  fingerprint chain and ends in an evidence collision (`shadow_execution.py:145`;
  report, line 85).  Receipts are unique by tenant and event
  (`operational_store.py:461`), not by case, so an event reported for one case is
  skipped when it is reported for another.
- *Readiness.*  A manifest is "valid only for this ... asset versions"
  (`decision_readiness.py:253`), but `assert_ready_manifest` does not ask whether
  the versions it names are still active; `RunsAreBacked` says that they were.
- *Confirmation.*  `ACCEPT` does not look at the plan's constraint report, while
  the module says hard constraint violations block confirmation
  (`confirmation_module.py:11`, `:189`).  The snapshot is any one in the cache
  (`confirmation.py:174`).
- *Writeback.*  The retry task presents no permit, so with an MES configured every
  retry is refused and turns a partial success into a failure.  Writing plan A,
  then B, then A skips the last as already sent (`writeback_module.py:127`).  A
  restart during a writeback leaves applied instructions without a job row.  Two
  first reports of one decision insert two rows, of which the older is never
  updated.  Two commits of one row mix when each writes the columns that changed for it
  (`persistence.py:807`, `core/tasks.py:83`): the retry of a failed job may put the
  instructions of another decision's job into a row that a session has just set to
  success, and that row then reports instructions that were never applied.  A GET that
  answers late caches an older record (`confirmation.py:495`),
  whose plan can then be written although a newer decision, even an
  override, followed.
- *Schedulers.*  `HybridSolver` freezes what the last repair did not move
  (`hybrid_solver.py:431`), so under the global strategy a validated best plan
  may be discarded, while `docs/architecture/anytime_hybrid_rescheduling.md` has it
  returned.  Urgent affected operations lose their delay in the repairs
  (`anytime_hybrid_scheduler.py:143`), whose lower bound for them is zero.  A
  delay may lose minutes to rounding and flooring (`DelaysAreKept` bounds the loss).
  The SSGS makes plans that the validator refuses for two kinds of reason.  It does not
  look: when a changeover spans a calendar window, when a transport or a buffer leads to
  an operation that stays or joins operations that are not in sequence, when two
  transports of one operation share a lane or two flows into one share a buffer
  (`Orderly`).  Or it reads the snapshot differently (`Agree`):

  | Row | Search | Validator |
  |---|---|---|
  | times within a minute | floored to minutes from the origin (`constraint_aware_ssgs.py:908`) | as they are |
  | a time that is missing | the origin | the row is passed over |
  | QMS gates | by the operations they name (`cp_sat_scheduler.py:810`) | by batch, too (`operational_constraint_validator.py:733`) |
  | substitutes | one without a time is available at once (`cp_sat_scheduler.py:764`) | the earliest of the times that are given (`:653`) |
  | outages of a tool | each blocks the capacity known when it is read (`constraint_aware_ssgs.py:677`) | all block the final capacity (`:815`) |
  | rows of one lane or buffer | each row by itself | a lane by its last row (`:498`), a buffer by the least room and the greatest stock (`:533`) |
  | machines | the operation's own, if nothing else is eligible | only what the rows allow |
  | approved outsourcing | the machine's own limit | the quantity approved, too |

  `RegularIsValid` shows that a snapshot with none of these differences gets no plan
  that the validator refuses.  `Regular` is sufficient and not necessary: many snapshots outside it get valid
  plans, too.

## 6. Not modelled

The plan is carried out as far as the code has state worth a model: the queue,
change data, shadow cases, integration assets with guard and readiness,
confirmation and writeback, the validator, the SSGS and the portfolio.  What is
left, and why:

- Incident transitions, experiments, module versions, the idempotency store and
  the transaction manager are classes that only their tests call; the Kafka
  consumer is abstract without a subclass, and `broadcast` has no caller.  A model
  would have to invent the environment that gives them meaning.
- The sandbox connector is a simulated MES that one sequential script drives.
- The runtime backup is one read of nine tables without a stated promise.
- CP-SAT is an external program; its models and the scheduling heuristics other
  than the SSGS are numerical search.  Strategies, rules, agents, the laboratory,
  reports and evaluation compute without state that outlives a call; source
  adapters convert; authentication is in external libraries.
- Several API processes over one database: the store's lock would not hold there,
  and the repository starts one process.
- Inside the modelled parts: the roles and signatures of users, the approvals and
  certificates of a snapshot, the evidence that activates a constraint definition, the
  tracking of execution progress, the audit rows, and the further candidates of
  `HybridSolver`.

An abstract service of writebacks, with the refinement that `Writeback` implements
it, would be worth adding.
