----------------------------- MODULE Writeback -----------------------------
(***************************************************************************)
(* Confirmation of a recovery plan and its writeback to the MES, for one   *)
(* incident: confirm_plan, get_decision_record and sandbox_writeback of    *)
(* app/api/confirmation.py with the ConfirmationModule, the writeback      *)
(* policy and the MES adapter in the API process, the decision and job     *)
(* rows of app/services/persistence.py in the database, and the retry task *)
(* of app/core/tasks.py in the worker process.                             *)
(*                                                                         *)
(* The handlers are coroutines, so what runs between two awaits is one     *)
(* step.  A job row is updated by a select and, later, a commit that       *)
(* writes the columns whose new value is not the one selected.             *)
(* The API process may be restarted at any step and then loses its         *)
(* memory; a persist call that fails is swallowed by the code.             *)
(* Requests that a check refuses (roles, second person, note, certificate, *)
(* settings) change nothing and are left out.  Time is left out: a retry   *)
(* may be due, and a permit may be expired, at any step.  A request that   *)
(* reaches the MES after its sender has given up counts as applied before: *)
(* nothing the program keeps can tell the difference.                      *)
(***************************************************************************)
EXTENDS Naturals, Sequences, FiniteSets

CONSTANTS
  Plans,         \* the candidate plans of the incident
  Ops,           \* the operations of the schedule
  OpsOf,         \* the operations that a plan moves: its instructions
  Sessions,      \* concurrent executions of sandbox_writeback
  RetryLimit,    \* the retry_count at which retries stop, 3 in the code
  MaxRetries,    \* bound on the retry counts of a behaviour
  MaxDecisions,  \* bound on the confirmations of a behaviour
  MaxLoad        \* bound on the confirmations and the concurrent writebacks together

ASSUME OpsAssumption == OpsOf \in [Plans -> SUBSET Ops]
ASSUME BoundsAssumption == {MaxDecisions, MaxLoad, MaxRetries, RetryLimit} \subseteq Nat

None == 0
Decisions == 1..MaxDecisions

\* A plan version: a candidate as it was solved (adjustment None), or the copy
\* of it with a new plan id that the confirmation of that number adjusted.
Versions == Plans \X (Decisions \cup {None})

\* The idempotency key of an instruction, reorch:{plan_id}:{operation_id}.
Keys == Versions \X Ops

Verdicts == {"success", "partial_success", "failed"}

VARIABLES
  decisions,  \* the decision records in the order of their confirmed_at
  stored,     \* the records in the database
  jobs,       \* the writeback job rows in the order of created_at
  cache,      \* the incident's record in _decision_record_store, or None
  fetched,    \* the record that a GET has read and not yet cached, or None
  kept,       \* _confirmed_plans of the ConfirmationModule
  sent,       \* _sent_idempotency_keys of the API process's adapter
  session,    \* the writeback requests of the API process
  retry,      \* the job that the worker is retrying
  applied     \* the instructions that the MES has applied

memory == <<cache, fetched, kept, sent, session>>
vars == <<decisions, stored, jobs, memory, retry, applied>>

Idle == [pc |-> "idle"]
\* The greatest of the positive numbers S alone, or None alone if there is none.
Newest(S) == {x \in S \cup {None} : \A y \in S : y <= x}

Instructions(v) == {v} \X OpsOf[v[1]]

\* A job: its decision, the version that its request_payload instructs, its
\* status and its retry_count; and the columns that an update may write.
JobRow == [dec : Decisions, ver : Versions, status : Verdicts, retries : Nat]
Columns == {"ver", "status", "retries"}

Request ==
  [pc : {"sending", "waiting", "filing"}, dec : Decisions, ver : Versions,
   left : SUBSET Keys, now : SUBSET Keys, good : BOOLEAN, bad : BOOLEAN,
   row : Nat, cols : SUBSET Columns]

Session == {Idle} \cup Request

Retry ==
  {Idle} \cup [pc : {"sending", "filing"}, dec : Decisions, ver : Versions,
               retries : Nat, row : Nat, cols : SUBSET Columns]

TypeOK ==
  /\ decisions \in Seq([ver : Versions, override : BOOLEAN])
  /\ Len(decisions) <= MaxDecisions
  /\ stored \subseteq DOMAIN decisions
  /\ jobs \in Seq(JobRow)
  /\ cache \in DOMAIN decisions \cup {None}
  /\ fetched \in DOMAIN decisions \cup {None}
  /\ kept \subseteq Versions
  /\ sent \subseteq Keys
  /\ session \in [Sessions -> Session]
  /\ retry \in Retry
  /\ applied \subseteq Keys

Init ==
  /\ decisions = <<>>
  /\ stored = {}
  /\ jobs = <<>>
  /\ cache = None
  /\ fetched = None
  /\ kept = {}
  /\ sent = {}
  /\ session = [s \in Sessions |-> Idle]
  /\ retry = Idle
  /\ applied = {}

\* The bound that MaxLoad sets on one more confirmation or writeback.
HasRoom == Len(decisions) + Cardinality({s \in Sessions : session[s] # Idle}) < MaxLoad

-----------------------------------------------------------------------------
(* Confirmation.                                                           *)

\* confirm_plan: the record goes to the process's store and, unless its persist
\* fails, to the database; the accepted version is kept in the process only.
Record(v, override) ==
  LET d == Len(decisions) + 1 IN
  /\ d <= MaxDecisions
  /\ HasRoom
  /\ decisions' = Append(decisions, [ver |-> v, override |-> override])
  /\ stored' \in {stored, stored \cup {d}}
  /\ cache' = d
  /\ kept' = kept \cup {v}
  /\ UNCHANGED <<jobs, fetched, sent, session, retry, applied>>

\* ACCEPT takes the candidate as it is.
Accept(p) == Record(<<p, None>>, FALSE)

\* ACCEPT_WITH_ADJUSTMENT takes a copy with a new id, once its constraints are
\* validated.
Adjust(p) == Record(<<p, Len(decisions) + 1>>, FALSE)

\* REJECT_AND_RESELECT records an override with the selected candidate.
Reject(p) == Record(<<p, None>>, TRUE)

\* get_decision_record in a process without the record reads the newest row...
FetchRecord ==
  /\ cache = None
  /\ fetched = None
  /\ stored # {}
  /\ fetched' \in Newest(stored)
  /\ UNCHANGED <<decisions, stored, jobs, cache, kept, sent, session, retry, applied>>

\* ... and puts it in the store when the answer comes.
CacheRecord ==
  /\ fetched # None
  /\ cache' = fetched
  /\ fetched' = None
  /\ UNCHANGED <<decisions, stored, jobs, kept, sent, session, retry, applied>>

-----------------------------------------------------------------------------
(* Writeback by the API process.                                           *)

\* The record that sandbox_writeback works on, alone.
Current == IF cache # None THEN {cache} ELSE Newest(stored)

\* The plan it writes: the confirmed version if the process still has it, else
\* the candidate with the confirmed id or with the id it was derived from.
PlanOf(d) ==
  LET v == decisions[d].ver IN
  IF v \in kept THEN v ELSE <<v[1], None>>

\* sandbox_writeback up to the first instruction.
StartWriteback(s) ==
  /\ session[s] = Idle
  /\ HasRoom
  /\ \E d \in Current \ {None} :
       /\ ~decisions[d].override
       /\ Instructions(PlanOf(d)) # {}
       /\ session' = [session EXCEPT ![s] =
            [pc |-> "sending", dec |-> d, ver |-> PlanOf(d), left |-> Instructions(PlanOf(d)),
             now |-> {}, good |-> FALSE, bad |-> FALSE, row |-> None, cols |-> {}]]
  /\ UNCHANGED <<decisions, stored, jobs, cache, fetched, kept, sent, retry, applied>>

\* The instructions in ks (one of them) have succeeded.
Succeeded(s, ks) ==
  session' = [session EXCEPT ![s].pc = "sending", ![s].left = @ \ ks,
                             ![s].now = {}, ![s].good = TRUE]

Failed(s, ks) ==
  session' = [session EXCEPT ![s].pc = "sending", ![s].left = @ \ ks,
                             ![s].now = {}, ![s].bad = TRUE]

\* Mutated: only the decision of the permit is compared.
MutPermitCovers(d, v) == TRUE

\* assert_adapter_send_allowed: the permit was issued for the version that the
\* decision confirms and is presented with the version that is written.
PermitCovers(d, v) == decisions[d].ver = v

\* The adapter has had an answer for this key before.
SkipSent(s, k) ==
  /\ session[s].pc = "sending"
  /\ k \in session[s].left \cap sent
  /\ Succeeded(s, {k})
  /\ UNCHANGED <<decisions, stored, jobs, cache, fetched, kept, sent, retry, applied>>

\* The permit is for another plan, or expired.
Refuse(s, k) ==
  /\ session[s].pc = "sending"
  /\ k \in session[s].left \ sent
  /\ Failed(s, {k})
  /\ UNCHANGED <<decisions, stored, jobs, cache, fetched, kept, sent, retry, applied>>

\* The request is sent; the MES applies it, unless it knows the key, or never
\* sees it.
Post(s, k) ==
  /\ session[s].pc = "sending"
  /\ k \in session[s].left \ sent
  /\ PermitCovers(session[s].dec, session[s].ver)
  /\ session' = [session EXCEPT ![s].pc = "waiting", ![s].now = {k}]
  /\ applied' \in {applied, applied \cup {k}}
  /\ UNCHANGED <<decisions, stored, jobs, cache, fetched, kept, sent, retry>>

\* Mutated: a request that was sent counts as answered.
MutAnswered(s) == TRUE

Answered(s) == session[s].now \subseteq applied

Answer(s) ==
  /\ session[s].pc = "waiting"
  /\ Answered(s)
  /\ sent' = sent \cup session[s].now
  /\ Succeeded(s, session[s].now)
  /\ UNCHANGED <<decisions, stored, jobs, cache, fetched, kept, retry, applied>>

\* A timeout, an error status or a lost answer.
NoAnswer(s) ==
  /\ session[s].pc = "waiting"
  /\ Failed(s, session[s].now)
  /\ UNCHANGED <<decisions, stored, jobs, cache, fetched, kept, sent, retry, applied>>

\* Mutated: a status that the column's readers do not know.
MutVerdict(good, bad) ==
  IF ~bad THEN "success" ELSE IF good THEN "partial" ELSE "failed"

Verdict(good, bad) ==
  IF ~bad THEN "success" ELSE IF good THEN "partial_success" ELSE "failed"

\* The newest job row of decision d, or None, alone.
RowOf(d) == Newest({i \in DOMAIN jobs : jobs[i].dec = d})

\* The columns of row n that a job changes, as the row is now.
Changed(n, job) == IF n = None THEN {} ELSE {c \in Columns : job[c] # jobs[n][c]}

\* What a session reports.
Outcome(s) ==
  [dec |-> session[s].dec, ver |-> session[s].ver, retries |-> 0,
   status |-> Verdict(session[s].good, session[s].bad)]

\* persist_writeback_job once all instructions are tried: it selects a row and
\* sets its attributes...
SelectRow(s) ==
  /\ session[s].pc = "sending"
  /\ session[s].left = {}
  /\ \E n \in RowOf(session[s].dec) :
       session' = [session EXCEPT ![s].pc = "filing", ![s].row = n,
                                  ![s].cols = Changed(n, Outcome(s))]
  /\ UNCHANGED <<decisions, stored, jobs, cache, fetched, kept, sent, retry, applied>>

\* Row old with the columns cols of job.
Updated(old, job, cols) ==
  [dec |-> old.dec,
   ver |-> IF "ver" \in cols THEN job.ver ELSE old.ver,
   status |-> IF "status" \in cols THEN job.status ELSE old.status,
   retries |-> IF "retries" \in cols THEN job.retries ELSE old.retries]

\* ... and commits the columns that were changed, or adds a row, whatever
\* another session has committed since.
PutRow(n, job, cols) ==
  jobs' = IF n = None THEN Append(jobs, job) ELSE [jobs EXCEPT ![n] = Updated(@, job, cols)]

Report(s) ==
  /\ session[s].pc = "filing"
  /\ PutRow(session[s].row, Outcome(s), session[s].cols)
  /\ session' = [session EXCEPT ![s] = Idle]
  /\ UNCHANGED <<decisions, stored, cache, fetched, kept, sent, retry, applied>>

\* The API process is restarted.
Crash ==
  /\ cache' = None
  /\ fetched' = None
  /\ kept' = {}
  /\ sent' = {}
  /\ session' = [s \in Sessions |-> Idle]
  /\ UNCHANGED <<decisions, stored, jobs, retry, applied>>

-----------------------------------------------------------------------------
(* Retry by the worker process.                                            *)

\* list_retryable_writeback_jobs.
Retryable(j) == j.status # "success" /\ j.retries < RetryLimit

\* fetch_writeback_job_by_incident.
NewestJob == jobs[Len(jobs)]

\* writeback_retry, called by execution_progress_poll for the decision of a
\* retryable job, takes the newest job of the incident.  The poll's list is not
\* kept: a job that has changed between the listing and its turn is one that
\* changes between this step and the next.
RetryRead(d) ==
  /\ retry = Idle
  /\ d \in stored
  /\ \E i \in DOMAIN jobs : jobs[i].dec = d /\ Retryable(jobs[i])
  /\ NewestJob.retries < MaxRetries
  /\ retry' = [pc |-> "sending", dec |-> d, ver |-> NewestJob.ver,
               retries |-> NewestJob.retries + 1, row |-> None, cols |-> {}]
  /\ UNCHANGED <<decisions, stored, jobs, memory, applied>>

\* Every instruction of it is refused by the policy, for want of a permit, and
\* the outcome is stored under the decision, with the payload of that job.
RetryOutcome ==
  [dec |-> retry.dec, ver |-> retry.ver, status |-> "failed", retries |-> retry.retries]

RetrySelect ==
  /\ retry.pc = "sending"
  /\ \E n \in RowOf(retry.dec) :
       retry' = [retry EXCEPT !.pc = "filing", !.row = n, !.cols = Changed(n, RetryOutcome)]
  /\ UNCHANGED <<decisions, stored, jobs, memory, applied>>

RetryWrite ==
  /\ retry.pc = "filing"
  /\ PutRow(retry.row, RetryOutcome, retry.cols)
  /\ retry' = Idle
  /\ UNCHANGED <<decisions, stored, memory, applied>>

WorkerCrash ==
  /\ retry # Idle
  /\ retry' = Idle
  /\ UNCHANGED <<decisions, stored, jobs, memory, applied>>

-----------------------------------------------------------------------------

Next ==
  \/ \E p \in Plans : Accept(p) \/ Adjust(p) \/ Reject(p)
  \/ \E d \in Decisions : RetryRead(d)
  \/ FetchRecord \/ CacheRecord
  \/ \E s \in Sessions :
       \/ StartWriteback(s) \/ Answer(s) \/ NoAnswer(s) \/ SelectRow(s) \/ Report(s)
       \/ \E k \in Keys : SkipSent(s, k) \/ Refuse(s, k) \/ Post(s, k)
  \/ Crash
  \/ RetrySelect \/ RetryWrite \/ WorkerCrash

Spec == Init /\ [][Next]_vars

-----------------------------------------------------------------------------
(* Properties.                                                             *)

\* The requests that a session waits for.
Waiting == UNION {session[s].now : s \in {x \in Sessions : session[x].pc # "idle"}}

\* Whatever reaches the MES, once or twice, is an instruction of the
\* exact plan version that a decision confirmed, adjusted or not, and of no
\* decision that was an override: the process may have lost the adjusted
\* version by a restart and fall back on the candidate it was derived from, and
\* it is the permit, checked at every send, that keeps this from being written.
WrittenAsConfirmed ==
  \A k \in applied \cup Waiting :
    \E d \in DOMAIN decisions : decisions[d].ver = k[1] /\ ~decisions[d].override

\* The two versions that a writeback of decision d may instruct: the confirmed
\* one and, once the process has lost it, the candidate it was derived from.
Writable(d) == {decisions[d].ver, <<decisions[d].ver[1], None>>}

\* Success means applied, whichever requests timed out, were answered after a
\* restart or were skipped because another request had sent them: a session
\* that is about to file a success has had every one of its instructions applied
\* by the MES, and the decision of a job that is stored as successful has had
\* one of its versions applied as a whole, whatever other sessions and the retry
\* task have written to the columns of the row in between.  (It need not be
\* the version of the row's payload, which another commit may have put there.)
SuccessMeansApplied ==
  /\ \A s \in Sessions :
       session[s].pc = "filing" /\ Outcome(s).status = "success"
         => Instructions(session[s].ver) \subseteq applied
  /\ \A i \in DOMAIN jobs :
       jobs[i].status = "success"
         => \E v \in Writable(jobs[i].dec) : Instructions(v) \subseteq applied

\* "At most three retries" (the comment at app/core/tasks.py:61): an automatic
\* retry that files its outcome has counted itself on the row of its decision.
RetriesAreCounted ==
  [][RetryWrite =>
       \A n \in {retry.row} \cap DOMAIN jobs : jobs'[n].retries > jobs[n].retries]_vars
=============================================================================
