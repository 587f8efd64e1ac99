--------------------------- MODULE IntegrationAssets ---------------------------
(***************************************************************************)
(* The versioned integration assets of a tenant, the schema drift guard    *)
(* and the readiness manifests that are built from them                    *)
(* (IntegrationRegistryService, SchemaDriftGuard, DecisionReadinessService *)
(* over the operational store).                                            *)
(*                                                                         *)
(* A row is immutable but for its status.  An activation first reads what  *)
(* the asset must be supported by (a contract by the authority matrix, a   *)
(* connector manifest by a conformance report of its version) and then     *)
(* activates in a transaction of its own.  An observation is judged by the *)
(* active connector manifest, and quarantined, ingested or released in a   *)
(* later transaction.  A readiness manifest is put together from reads in  *)
(* a session each.  Requests run in the server's thread pool, so all of     *)
(* these steps interleave.  The store's lock covers writing transactions,  *)
(* not reads.  Audit events are appended and never read; they are left out.*)
(*                                                                         *)
(* A scope stands for an asset type with its scope key; there is one       *)
(* tenant, one connector and one scenario type.                            *)
(***************************************************************************)
EXTENDS FiniteSets

CONSTANTS
  Assets,        \* versions; those in Readiness get their contents when built
  Scopes,
  Scope,         \* [Assets -> Scopes]
  Rules,         \* matrices: sets of [role, paths, times]: where each is valid
  Requires,      \* contracts: [fields: set of [path, role, hard],
                 \*   constraints: set of [scope, role, hard], scopes unique]
  Version,       \* connector manifests and reports: the connector_version
  Roles,         \* constraint definitions: the authority_roles
  Manual,        \* versions whose own contents an administrator may activate
  Harness,       \* passed reports: registered and activated by one call
  Readiness,     \* ids for readiness manifests
  MatrixScope, ContractScope, ConnectorScope, ReportScope, ReadinessScope,
  Observations,  \* [source, entity, fields]
  Registration,  \* connector manifests: [source, schemas]
  Fields,
  Canonical,     \* the aliases of _normalize_type
  Times,         \* the as_of times of readiness requests
  Drafts,        \* registered to begin with,
  Actives,       \* active to begin with
  Calls,         \* slots for requests in progress
  None, Unread

Manifests == {a \in Assets : Scope[a] = ConnectorScope}

\* The scope that an activation of a consults first.
Gate(a) ==
  IF Scope[a] = ContractScope THEN MatrixScope
  ELSE IF Scope[a] = ConnectorScope THEN ReportScope
  ELSE None

RolesOf(contract) ==
  {x.role : x \in Requires[contract].fields \cup Requires[contract].constraints}

\* What activate_scenario_contract and activate_connector_manifest ask of it:
\* a rule for every role of the contract; the version of the manifest.
Supported(b, a) ==
  IF Scope[a] = ContractScope
  THEN RolesOf(a) \subseteq {x.role : x \in Rules[b]}
  ELSE Version[b] = Version[a]

ASSUME AssetConstants ==
  /\ Scope \in [Assets -> Scopes]
  /\ Readiness \subseteq Assets
  /\ \A a \in Assets : a \in Readiness <=> Scope[a] = ReadinessScope
  /\ {MatrixScope, ContractScope, ConnectorScope, ReportScope} \subseteq Scopes
  /\ \A a \in Assets : Scope[a] = ContractScope =>
        \A x \in Requires[a].constraints :
          x.scope \in Scopes \ {MatrixScope, ContractScope, ConnectorScope, ReportScope}
  /\ Harness \cap Readiness = {} /\ Manual \cap Readiness = {}
  /\ \A a \in Harness \cup Readiness : Gate(a) = None
  /\ Drafts \subseteq Assets \ Readiness
  /\ Actives \subseteq Assets \ (Readiness \cup Manifests)
  /\ \A a, b \in Actives : Scope[a] = Scope[b] => a = b
  /\ \A a \in Actives : Gate(a) # None =>
        \E b \in Actives : Scope[b] = Gate(a) /\ Supported(b, a)
  /\ None \notin Assets /\ None \notin Scopes /\ None \notin Calls
  /\ None \notin Observations
  /\ Unread \notin Assets /\ Unread # None

VARIABLES
  status,   \* the asset rows
  built,    \* contents of the readiness manifests: verdict, what they refer to
  lock,     \* the call inside a writing transaction of two steps, or None
  quar,     \* quarantine rows, by observation and the manifest that judged it
  ingested, \* observations whose event was ingested
  strict,   \* whether app.env is staging or production
  expired,  \* readiness manifests past expires_at
  jobs,     \* readiness manifests with a submitted job, None for one without,
  runs,     \*   with one that went on to its executor
  pc, on, found,             \* activation: the asset, the active rows found
  obs, judge, purpose, filed, \* drift guard: observation, manifest read, why,
                             \*   and the judge of the row to be released
  reads                      \* readiness: what was read of each scope so far

assets == <<status, built, lock>>
guard  == <<quar, ingested>>
gov    == <<strict, expired, jobs, runs>>
local  == <<pc, on, found, obs, judge, purpose, filed, reads>>
vars   == <<assets, guard, gov, local>>

NoReads == [s \in Scopes |-> Unread]
Reads == [Scopes -> Assets \cup {None, Unread}]
Blank == [verdict |-> "none", asof |-> None, refs |-> NoReads]

TypeOK ==
  /\ status \in [Assets -> {"absent", "draft", "active", "retired"}]
  /\ built \in [Readiness -> [verdict: {"none", "ready", "degraded", "blocked"},
                              asof: Times \cup {None}, refs: Reads]]
  /\ lock \in Calls \cup {None}
  /\ quar \in [Observations \X (Manifests \cup {None}) ->
                 {"absent", "open", "released", "rejected"}]
  /\ ingested \subseteq Observations
  /\ strict \in BOOLEAN
  /\ expired \subseteq Readiness
  /\ jobs \subseteq Readiness \cup {None} /\ runs \subseteq jobs
  /\ pc \in [Calls -> {"idle", "approved", "locked", "judged", "reading"}]
  /\ on \in [Calls -> Assets \cup {None}]
  /\ found \in [Calls -> SUBSET Assets]
  /\ obs \in [Calls -> Observations \cup {None}]
  /\ judge \in [Calls -> Manifests \cup {None}]
  /\ purpose \in [Calls -> {"none", "probe", "ingest", "release"}]
  /\ filed \in [Calls -> Manifests \cup {None}]
  /\ reads \in [Calls -> Reads]

Init ==
  /\ status = [a \in Assets |-> IF a \in Actives THEN "active"
                                ELSE IF a \in Drafts THEN "draft" ELSE "absent"]
  /\ built = [r \in Readiness |-> Blank]
  /\ lock = None
  /\ quar = [q \in Observations \X (Manifests \cup {None}) |-> "absent"]
  /\ strict \in BOOLEAN
  /\ ingested = {} /\ expired = {} /\ jobs = {} /\ runs = {}
  /\ pc = [k \in Calls |-> "idle"]
  /\ on = [k \in Calls |-> None]
  /\ found = [k \in Calls |-> {}]
  /\ obs = [k \in Calls |-> None]
  /\ judge = [k \in Calls |-> None]
  /\ purpose = [k \in Calls |-> "none"]
  /\ filed = [k \in Calls |-> None]
  /\ reads = [k \in Calls |-> NoReads]

-----------------------------------------------------------------------------

ActiveIn(s) == {a \in Assets : Scope[a] = s /\ status[a] = "active"}

\* get_active_integration_asset: any active row of the scope.
IsActiveRead(s, v) == IF ActiveIn(s) = {} THEN v = None ELSE v \in ActiveIn(s)

\* The end of a request; its locals are gone.
Return(k) ==
  /\ pc' = [pc EXCEPT ![k] = "idle"]
  /\ on' = [on EXCEPT ![k] = None]
  /\ found' = [found EXCEPT ![k] = {}]
  /\ obs' = [obs EXCEPT ![k] = None]
  /\ judge' = [judge EXCEPT ![k] = None]
  /\ purpose' = [purpose EXCEPT ![k] = "none"]
  /\ filed' = [filed EXCEPT ![k] = None]
  /\ reads' = [reads EXCEPT ![k] = NoReads]

ToActivate(k, a) ==
  /\ pc' = [pc EXCEPT ![k] = "approved"]
  /\ on' = [on EXCEPT ![k] = a]
  /\ UNCHANGED <<found, obs, judge, purpose, filed, reads>>

-----------------------------------------------------------------------------
(* Registration and activation *)

\* _register: the same version again is the same row.
Register(a) ==
  /\ a \notin Readiness \cup Harness
  /\ lock = None
  /\ status[a] = "absent"
  /\ status' = [status EXCEPT ![a] = "draft"]
  /\ UNCHANGED <<built, lock, guard, gov, local>>

\* register_connector_conformance and register_writeback_certification of a
\* passed report: registered, then activated; a repeat finds the row.
RegisterReport(k, a) ==
  /\ pc[k] = "idle"
  /\ lock = None
  /\ a \in Harness
  /\ status' = [status EXCEPT ![a] = IF @ = "absent" THEN "draft" ELSE @]
  /\ ToActivate(k, a)
  /\ UNCHANGED <<built, lock, guard, gov>>

\* The gate of activate_scenario_contract and activate_connector_manifest: the
\* asset that is active in the other scope as the request reads it.
MutGateOpen(a) == \/ Gate(a) = None
                  \/ ActiveIn(Gate(a)) # {}
GateOpen(a) == \/ Gate(a) = None
               \/ \E b \in ActiveIn(Gate(a)) : Supported(b, a)

Approve(k, a) ==
  /\ pc[k] = "idle"
  /\ a \in Manual
  /\ status[a] # "absent"
  /\ GateOpen(a)
  /\ ToActivate(k, a)
  /\ UNCHANGED <<assets, guard, gov>>

\* activate_integration_asset: under the store's lock, the draft's row and the
\* active rows of its scope are read and locked,
MutFree == TRUE
Free == lock = None

Lock(k) ==
  /\ pc[k] = "approved"
  /\ Free
  /\ status[on[k]] = "draft"
  /\ lock' = k
  /\ found' = [found EXCEPT ![k] = ActiveIn(Scope[on[k]])]
  /\ pc' = [pc EXCEPT ![k] = "locked"]
  /\ UNCHANGED <<status, built, guard, gov, on, obs, judge, purpose, filed, reads>>

\* or the row is no draft: an active one is returned, a retired one refused.
NotDraft(k) ==
  /\ pc[k] = "approved"
  /\ Free
  /\ status[on[k]] # "draft"
  /\ Return(k)
  /\ UNCHANGED <<assets, guard, gov>>

\* and written.
Activate(k) ==
  /\ pc[k] = "locked"
  /\ status' = [a \in Assets |-> IF a = on[k] THEN "active"
                                 ELSE IF a \in found[k] THEN "retired" ELSE status[a]]
  /\ lock' = None
  /\ Return(k)
  /\ UNCHANGED <<built, guard, gov>>

\* The process dies; an open transaction is rolled back.
Crash(k) ==
  /\ pc[k] # "idle"
  /\ lock' = IF lock = k THEN None ELSE lock
  /\ Return(k)
  /\ UNCHANGED <<status, built, guard, gov>>

-----------------------------------------------------------------------------
(* The schema drift guard *)

CompatibleTypes(expected, observed) ==
  \/ Canonical[expected] = Canonical[observed]
  \/ Canonical[expected] = "number" /\ Canonical[observed] = "integer"

Accepts(m, o) ==
  LET r == Registration[m] IN
  /\ r.source = o.source
  /\ o.entity \in DOMAIN r.schemas
  /\ \A f \in Fields \cap DOMAIN r.schemas[o.entity] :
       LET expected == r.schemas[o.entity][f] IN
       IF f \in DOMAIN o.fields
       THEN CompatibleTypes(expected.type, o.fields[f])
       ELSE ~expected.required

Compatible(m, o) == m # None /\ Accepts(m, o)

\* evaluate reads the active manifest: for POST schema-drift/evaluate, for an
\* event that is to be ingested, or for a row that is to be released.
Judge(k, o, why, was) ==
  /\ pc[k] = "idle"
  /\ why = "release" => quar[<<o, was>>] # "absent"
  /\ why # "release" => was = None
  /\ pc' = [pc EXCEPT ![k] = "judged"]
  /\ obs' = [obs EXCEPT ![k] = o]
  /\ \E m \in Manifests \cup {None} :
       /\ IsActiveRead(ConnectorScope, m)
       /\ judge' = [judge EXCEPT ![k] = m]
  /\ purpose' = [purpose EXCEPT ![k] = why]
  /\ filed' = [filed EXCEPT ![k] = was]
  /\ UNCHANGED <<assets, guard, gov, on, found, reads>>

\* put_quarantine_record: the fingerprint holds the observation and the
\* manifest, so a repeat finds the row, whatever became of it.
Quarantine(k) ==
  /\ pc[k] = "judged"
  /\ lock = None
  /\ ~Compatible(judge[k], obs[k])
  /\ quar' = [quar EXCEPT ![<<obs[k], judge[k]>>] = IF @ = "absent" THEN "open" ELSE @]
  /\ Return(k)
  /\ UNCHANGED <<assets, ingested, gov>>

\* resolve_quarantine_record for a release; a row already resolved is refused.
MutMayRelease(k) == TRUE
MayRelease(k) == Compatible(judge[k], obs[k])

Release(k) ==
  /\ pc[k] = "judged" /\ purpose[k] = "release"
  /\ lock = None
  /\ MayRelease(k)
  /\ quar' = [quar EXCEPT ![<<obs[k], filed[k]>>] = IF @ = "open" THEN "released" ELSE @]
  /\ Return(k)
  /\ UNCHANGED <<assets, ingested, gov>>

\* The event is handed to apply_cdc_event, or the report is all that was asked.
Pass(k) ==
  /\ pc[k] = "judged" /\ purpose[k] \in {"probe", "ingest"}
  /\ lock = None
  /\ Compatible(judge[k], obs[k])
  /\ ingested' = IF purpose[k] = "ingest" THEN ingested \cup {obs[k]} ELSE ingested
  /\ Return(k)
  /\ UNCHANGED <<assets, quar, gov>>

\* An event that names no connector is not judged; staging and production
\* refuse it.
MutIngestUnjudged(o) ==
  /\ lock = None
  /\ ingested' = ingested \cup {o}
  /\ UNCHANGED <<assets, quar, gov, local>>
IngestUnjudged(o) ==
  /\ ~strict
  /\ lock = None
  /\ ingested' = ingested \cup {o}
  /\ UNCHANGED <<assets, quar, gov, local>>

Reject(o, m) ==
  /\ lock = None
  /\ quar[<<o, m>>] = "open"
  /\ quar' = [quar EXCEPT ![<<o, m>>] = "rejected"]
  /\ UNCHANGED <<assets, ingested, gov, local>>

-----------------------------------------------------------------------------
(* Readiness *)

ConstraintScopes(q) == {x.scope : x \in Requires[q[ContractScope]].constraints}

\* The reads of evaluate in their order: matrix and contract; then, if the
\* request names the connector (required_connector_ids, none by default), its
\* manifest and its report; then the definitions that the contract requires,
\* whose order among each other is left open.
MayRead(q, s) ==
  /\ q[s] = Unread
  /\ \/ s = MatrixScope
     \/ s = ContractScope /\ q[MatrixScope] # Unread
     \/ /\ {q[MatrixScope], q[ContractScope]} \subseteq Assets
        /\ \/ s = ConnectorScope /\ \A x \in ConstraintScopes(q) : q[x] = Unread
           \/ s = ReportScope /\ q[ConnectorScope] # Unread
           \/ /\ s \in ConstraintScopes(q)
              /\ q[ConnectorScope] # Unread => q[ReportScope] # Unread

AllRead(q) ==
  /\ {q[MatrixScope], q[ContractScope]} \subseteq Assets
  /\ q[ConnectorScope] # Unread => q[ReportScope] # Unread
  /\ \A s \in ConstraintScopes(q) : q[s] # Unread

\* evaluate makes a manifest with an id of its own.
StartEvaluation(k, r) ==
  /\ pc[k] = "idle"
  /\ status[r] = "absent"
  /\ \A j \in Calls : on[j] # r
  /\ pc' = [pc EXCEPT ![k] = "reading"]
  /\ on' = [on EXCEPT ![k] = r]
  /\ UNCHANGED <<assets, guard, gov, found, obs, judge, purpose, filed, reads>>

ReadNext(k) ==
  /\ pc[k] = "reading"
  /\ \E s \in Scopes, v \in Assets \cup {None} :
       /\ MayRead(reads[k], s)
       /\ IsActiveRead(s, v)
       /\ reads' = [reads EXCEPT ![k] = [@ EXCEPT ![s] = v]]
  /\ UNCHANGED <<assets, guard, gov, pc, on, found, obs, judge, purpose, filed>>

\* No matrix or no contract: nothing is evaluated.
NoContract(k) ==
  /\ pc[k] = "reading"
  /\ reads[k][ContractScope] # Unread
  /\ None \in {reads[k][MatrixScope], reads[k][ContractScope]}
  /\ Return(k)
  /\ UNCHANGED <<assets, guard, gov>>

\* The connector check, if the connector was asked for.  (An active report is
\* one that passed.)
ConnectorReady(q) ==
  \/ q[ConnectorScope] = Unread
  \/ /\ {q[ConnectorScope], q[ReportScope]} \subseteq Assets
     /\ Version[q[ReportScope]] = Version[q[ConnectorScope]]

\* _resolve_authority: a rule of matrix m for the role covers the field's path
\* and is valid at time t.
Resolved(m, f, t) == \E x \in Rules[m] : x.role = f.role /\ f.path \in x.paths /\ t \in x.times

\* The requirements of the contract that the assets alone leave unmet.
Gaps(q, t) ==
  {f \in Requires[q[ContractScope]].fields : ~Resolved(q[MatrixScope], f, t)} \cup
  {x \in Requires[q[ContractScope]].constraints :
     q[x.scope] \notin Assets \/ x.role \notin Roles[q[x.scope]]}

\* A hard gap blocks and a soft one degrades; what the observations of the
\* request, or a freshness window in the past, add to the gaps is up to them.
Verdicts(q, t) ==
  {v \in {"ready", "degraded", "blocked"} :
     /\ v = "ready" => Gaps(q, t) = {}
     /\ v # "blocked" => ConnectorReady(q) /\ \A g \in Gaps(q, t) : ~g.hard}

\* _persist_manifest: put, then activate, which retires the one before.
Evaluate(k) ==
  /\ pc[k] = "reading"
  /\ lock = None
  /\ AllRead(reads[k])
  /\ \E t \in Times, v \in {"ready", "degraded", "blocked"} :
       /\ v \in Verdicts(reads[k], t)
       /\ built' = [built EXCEPT ![on[k]] = [verdict |-> v, asof |-> t, refs |-> reads[k]]]
  /\ status' = [status EXCEPT ![on[k]] = "draft"]
  /\ pc' = [pc EXCEPT ![k] = "approved"]
  /\ reads' = [reads EXCEPT ![k] = NoReads]
  /\ UNCHANGED <<lock, guard, gov, on, found, obs, judge, purpose, filed>>

Expire(r) ==
  /\ status[r] # "absent"
  /\ expired' = expired \cup {r}
  /\ UNCHANGED <<assets, guard, strict, jobs, runs, local>>

\* assert_ready_manifest
MutIsReady(r) == status[r] = "active" /\ r \notin expired
IsReady(r) == status[r] = "active" /\ built[r].verdict = "ready" /\ r \notin expired

\* A request without a manifest will do outside of staging and production.
MayExecute(r) == IF r = None THEN ~strict ELSE IsReady(r)

\* A job is submitted, and a worker that claimed it asks again.
SubmitJob(r) ==
  /\ MayExecute(r)
  /\ jobs' = jobs \cup {r}
  /\ UNCHANGED <<assets, guard, strict, expired, runs, local>>

MutRunJob(r) ==
  /\ MayExecute(r)
  /\ runs' = runs \cup {r}
  /\ UNCHANGED <<assets, guard, strict, expired, jobs, local>>
RunJob(r) ==
  /\ r \in jobs
  /\ MayExecute(r)
  /\ runs' = runs \cup {r}
  /\ UNCHANGED <<assets, guard, strict, expired, jobs, local>>

-----------------------------------------------------------------------------

CallStep(k) ==
  \/ \E a \in Assets : RegisterReport(k, a) \/ Approve(k, a)
  \/ Lock(k) \/ NotDraft(k) \/ Activate(k) \/ Crash(k)
  \/ \E o \in Observations, why \in {"probe", "ingest", "release"},
        was \in Manifests \cup {None} : Judge(k, o, why, was)
  \/ Quarantine(k) \/ Release(k) \/ Pass(k)
  \/ \E r \in Readiness : StartEvaluation(k, r)
  \/ ReadNext(k) \/ NoContract(k) \/ Evaluate(k)

Next ==
  \/ \E k \in Calls : CallStep(k)
  \/ \E a \in Assets : Register(a)
  \/ \E o \in Observations : IngestUnjudged(o)
  \/ \E o \in Observations, m \in Manifests \cup {None} : Reject(o, m)
  \/ \E r \in Readiness : Expire(r)
  \/ \E r \in Readiness \cup {None} : SubmitJob(r) \/ RunJob(r)

Spec == Init /\ [][Next]_vars

-----------------------------------------------------------------------------
(* Properties *)

WasActive(a) == status[a] \in {"active", "retired"}

\* At most one version of a scope is active, whatever activations race: the
\* second reads the active rows after the first has written them.
OneActivePerScope ==
  \A a, b \in Assets :
    status[a] = "active" /\ status[b] = "active" /\ Scope[a] = Scope[b] => a = b

\* Whatever is or was active had a supporter that is or was active itself,
\* although the gate is read before, and another version of the supporter may
\* be activated in between.
ActivatedWasSupported ==
  \A a \in Assets :
    WasActive(a) /\ Gate(a) # None =>
      \E b \in Assets : Scope[b] = Gate(a) /\ Supported(b, a) /\ WasActive(b)

\* What was quarantined is released only after the manifest that refused it
\* was replaced, and an activated manifest accepts it: the guard never lets an
\* observation through against its own judgement, however late the release.
ReleasedIsSuperseded ==
  \A o \in Observations, m \in Manifests \cup {None} :
    quar[<<o, m>>] = "released" =>
      /\ m # None => status[m] = "retired"
      /\ \E n \in Manifests : WasActive(n) /\ Accepts(n, o)

\* In staging and production nothing is ingested that no activated version of
\* the connector accepts, although the manifest that judged an event may have
\* been replaced before it is applied.
IngestedWasAccepted ==
  strict => \A o \in ingested : \E m \in Manifests : WasActive(m) /\ Accepts(m, o)

\* A job without a manifest runs only outside of staging and production.  Any
\* other runs on a manifest that was activated and whose parts were, too, and
\* fit each other, although they were read one after the other: every field of
\* the contract resolves in the matrix at the time asked for, every constraint
\* has a definition by the required role, and the connector, if it was asked
\* for, has a report of its version.
RunsAreBacked ==
  /\ None \in runs => ~strict
  /\ \A r \in runs \ {None} :
       LET q == built[r].refs IN
       /\ WasActive(r)
       /\ {q[MatrixScope], q[ContractScope]} \subseteq Assets
       /\ \A s \in Scopes : q[s] \in Assets => WasActive(q[s])
       /\ Gaps(q, built[r].asof) = {}
       /\ ConnectorReady(q)
================================================================================
