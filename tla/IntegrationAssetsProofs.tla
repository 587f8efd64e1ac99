------------------------ MODULE IntegrationAssetsProofs ------------------------
(***************************************************************************)
(* One active version, gates, quarantine and readiness for any number of   *)
(* versions, observations and concurrent requests.                         *)
(***************************************************************************)
EXTENDS IntegrationAssets, TLAPS

\* Who is in a transaction of two steps holds the lock.
LockHeld == lock # None => pc[lock] = "locked"

\* An asset that may be activated has a supporter that was activated.
HadSupport(a) ==
  Gate(a) # None =>
    \E b \in Assets : Scope[b] = Gate(a) /\ Supported(b, a) /\ WasActive(b)

Activating(k) ==
  /\ pc[k] \in {"approved", "locked"} =>
       on[k] \in Assets /\ status[on[k]] # "absent" /\ HadSupport(on[k])
  /\ pc[k] = "locked" =>
       /\ lock = k
       /\ status[on[k]] = "draft"
       /\ found[k] = ActiveIn(Scope[on[k]])

\* What a request that judges may rely on when it comes to release a row.
Judging(k) ==
  pc[k] = "judged" =>
    /\ obs[k] \in Observations
    /\ judge[k] # None => WasActive(judge[k])
    /\ purpose[k] = "release" =>
         /\ quar[<<obs[k], filed[k]>>] # "absent"
         /\ Compatible(judge[k], obs[k]) /\ filed[k] # None => status[filed[k]] = "retired"

KnownRefs(q) == \A s \in Scopes : q[s] \in Assets => WasActive(q[s])

Reading(k) ==
  /\ pc[k] = "reading" =>
       /\ on[k] \in Readiness
       /\ status[on[k]] = "absent"
       /\ KnownRefs(reads[k])
       /\ \A j \in Calls : on[j] = on[k] => j = k

\* A call that is not in progress has read nothing.
Resting(k) == pc[k] = "idle" => reads[k] = NoReads

\* A row was judged by a manifest that was active and refused it.
Filed ==
  \A o \in Observations, m \in Manifests \cup {None} :
    quar[<<o, m>>] # "absent" /\ m # None => WasActive(m) /\ ~Accepts(m, o)

Backed ==
  \A r \in Readiness :
    built[r].verdict = "ready" =>
      /\ {built[r].refs[MatrixScope], built[r].refs[ContractScope]} \subseteq Assets
      /\ Gaps(built[r].refs, built[r].asof) = {}
      /\ ConnectorReady(built[r].refs)
      /\ KnownRefs(built[r].refs)

Ran ==
  /\ None \in runs => ~strict
  /\ \A r \in runs \ {None} : WasActive(r) /\ built[r].verdict = "ready"

Governed ==
  /\ TypeOK /\ LockHeld
  /\ OneActivePerScope /\ ActivatedWasSupported
  /\ ReleasedIsSuperseded /\ IngestedWasAccepted /\ Filed /\ Backed /\ Ran
  /\ \A k \in Calls : Activating(k) /\ Judging(k) /\ Reading(k) /\ Resting(k)

-----------------------------------------------------------------------------
(* The initial states *)

LEMMA InitGoverned == Init => Governed
<1>1. SUFFICES ASSUME Init PROVE Governed
  OBVIOUS
<1>2. TypeOK
  BY <1>1, AssetConstants DEF Init, TypeOK, Blank, NoReads, Reads, Manifests
<1>3. OneActivePerScope
  BY <1>1, AssetConstants DEF Init, OneActivePerScope
<1>4. ActivatedWasSupported
  BY <1>1, AssetConstants DEF Init, ActivatedWasSupported, WasActive
<1>5. ReleasedIsSuperseded /\ IngestedWasAccepted /\ Filed /\ Backed /\ Ran /\ LockHeld
  BY <1>1, AssetConstants
     DEF Init, ReleasedIsSuperseded, IngestedWasAccepted, Filed, Backed, Ran, LockHeld, Blank
<1>6. \A k \in Calls : Activating(k) /\ Judging(k) /\ Reading(k) /\ Resting(k)
  BY <1>1 DEF Init, Activating, Judging, Reading, Resting
<1>7. QED
  BY <1>2, <1>3, <1>4, <1>5, <1>6 DEF Governed

-----------------------------------------------------------------------------
(* Types *)

LEMMA ReturnTypes ==
  ASSUME TypeOK, NEW k \in Calls, Return(k)
  PROVE  /\ pc' \in [Calls -> {"idle", "approved", "locked", "judged", "reading"}]
         /\ on' \in [Calls -> Assets \cup {None}]
         /\ found' \in [Calls -> SUBSET Assets]
         /\ obs' \in [Calls -> Observations \cup {None}]
         /\ judge' \in [Calls -> Manifests \cup {None}]
         /\ purpose' \in [Calls -> {"none", "probe", "ingest", "release"}]
         /\ filed' \in [Calls -> Manifests \cup {None}]
         /\ reads' \in [Calls -> Reads]
BY DEF TypeOK, Return, NoReads, Reads

LEMMA TypeStep ==
  ASSUME Governed, [Next]_vars PROVE TypeOK'
<1> USE AssetConstants DEF Governed, assets, guard, gov, local
<1>1. ASSUME NEW k \in Calls, CallStep(k) PROVE TypeOK'
  <2>1. ASSUME NEW a \in Assets, RegisterReport(k, a) PROVE TypeOK'
    BY <2>1 DEF TypeOK, RegisterReport, ToActivate
  <2>2. ASSUME NEW a \in Assets, Approve(k, a) PROVE TypeOK'
    BY <2>2 DEF TypeOK, Approve, ToActivate
  <2>3. CASE Lock(k)
    BY <2>3 DEF TypeOK, Lock, ActiveIn
  <2>4. CASE NotDraft(k)
    BY <2>4, ReturnTypes DEF TypeOK, NotDraft
  <2>5. CASE Activate(k)
    BY <2>5, ReturnTypes DEF TypeOK, Activate
  <2>6. CASE Crash(k)
    BY <2>6, ReturnTypes DEF TypeOK, Crash
  <2>7. ASSUME NEW o \in Observations, NEW why \in {"probe", "ingest", "release"},
               NEW was \in Manifests \cup {None}, Judge(k, o, why, was)
        PROVE  TypeOK'
    <3>1. PICK m \in Manifests \cup {None} : judge' = [judge EXCEPT ![k] = m]
      BY <2>7 DEF Judge
    <3>2. judge' \in [Calls -> Manifests \cup {None}]
      BY <3>1 DEF TypeOK
    <3>3. QED
      BY <2>7, <3>2 DEF TypeOK, Judge
  <2>8. CASE Quarantine(k)
    BY <2>8, ReturnTypes DEF TypeOK, Quarantine
  <2>9. CASE Release(k)
    BY <2>9, ReturnTypes DEF TypeOK, Release
  <2>10. CASE Pass(k)
    <3>1. obs[k] \in Observations
      BY <2>10 DEF Pass, Judging
    <3>2. ingested' \subseteq Observations
      BY <2>10, <3>1 DEF Pass, TypeOK
    <3>3. QED
      BY <2>10, <3>2, ReturnTypes DEF TypeOK, Pass
  <2>11. ASSUME NEW r \in Readiness, StartEvaluation(k, r) PROVE TypeOK'
    BY <2>11 DEF TypeOK, StartEvaluation
  <2>12. CASE ReadNext(k)
    <3>1. PICK s \in Scopes, v \in Assets \cup {None} :
            reads' = [reads EXCEPT ![k] = [@ EXCEPT ![s] = v]]
      BY <2>12 DEF ReadNext
    <3>2. [reads[k] EXCEPT ![s] = v] \in Reads
      BY DEF TypeOK, Reads
    <3>3. reads' \in [Calls -> Reads]
      BY <3>1, <3>2 DEF TypeOK
    <3>4. QED
      BY <2>12, <3>3 DEF TypeOK, ReadNext
  <2>13. CASE NoContract(k)
    BY <2>13, ReturnTypes DEF TypeOK, NoContract
  <2>14. CASE Evaluate(k)
    <3>1. on[k] \in Readiness /\ reads[k] \in Reads
      BY <2>14 DEF Evaluate, Reading, TypeOK
    <3>2. PICK t \in Times, v \in {"ready", "degraded", "blocked"} :
            built' = [built EXCEPT ![on[k]] = [verdict |-> v, asof |-> t, refs |-> reads[k]]]
      BY <2>14 DEF Evaluate
    <3>3. built' \in [Readiness -> [verdict: {"none", "ready", "degraded", "blocked"},
                                    asof: Times \cup {None}, refs: Reads]]
      BY <3>1, <3>2 DEF TypeOK
    <3>4. reads' \in [Calls -> Reads]
      BY <2>14 DEF Evaluate, TypeOK, NoReads, Reads
    <3>5. QED
      BY <2>14, <3>1, <3>3, <3>4 DEF TypeOK, Evaluate
  <2>15. QED
    BY <1>1, <2>1, <2>2, <2>3, <2>4, <2>5, <2>6, <2>7, <2>8, <2>9, <2>10, <2>11,
       <2>12, <2>13, <2>14 DEF CallStep
<1>2. ASSUME NEW a \in Assets, Register(a) PROVE TypeOK'
  BY <1>2 DEF TypeOK, Register
<1>3. ASSUME NEW o \in Observations, NEW m \in Manifests \cup {None}, Reject(o, m)
      PROVE  TypeOK'
  BY <1>3 DEF TypeOK, Reject
<1>4. CASE \E r \in Readiness : Expire(r)
  BY <1>4 DEF Expire, TypeOK
<1>5. ASSUME NEW r \in Readiness \cup {None}, SubmitJob(r) \/ RunJob(r) PROVE TypeOK'
  <2>1. UNCHANGED <<status, built, lock, quar, ingested, strict, expired, local>>
    BY <1>5 DEF SubmitJob, RunJob
  <2>2. jobs' \subseteq Readiness \cup {None} /\ runs' \subseteq jobs'
    BY <1>5 DEF SubmitJob, RunJob, TypeOK
  <2>3. QED
    BY <2>1, <2>2 DEF TypeOK
<1>6. ASSUME NEW o \in Observations, IngestUnjudged(o) PROVE TypeOK'
  BY <1>6 DEF TypeOK, IngestUnjudged
<1>7. CASE UNCHANGED vars
  BY <1>7 DEF TypeOK, vars
<1>8. QED
  BY <1>1, <1>2, <1>3, <1>4, <1>5, <1>6, <1>7 DEF Next

-----------------------------------------------------------------------------
(* The life of a version *)

\* A step leaves the rows alone, adds a draft, or commits an activation.
LEMMA StatusSteps ==
  ASSUME Governed, [Next]_vars
  PROVE  \/ status' = status
         \/ \E a \in Assets : /\ lock = None /\ status[a] = "absent"
                              /\ status' = [status EXCEPT ![a] = "draft"]
         \/ \E k \in Calls : Activate(k)
<1> USE AssetConstants DEF assets, guard, gov, local
<1>1. ASSUME NEW k \in Calls, CallStep(k)
      PROVE  \/ status' = status
             \/ \E a \in Assets : /\ lock = None /\ status[a] = "absent"
                                  /\ status' = [status EXCEPT ![a] = "draft"]
             \/ Activate(k)
  <2>1. ASSUME NEW a \in Assets, RegisterReport(k, a)
        PROVE  \/ status' = status
               \/ /\ lock = None /\ status[a] = "absent"
                  /\ status' = [status EXCEPT ![a] = "draft"]
    <3>1. CASE status[a] = "absent"
      BY <2>1, <3>1 DEF RegisterReport
    <3>2. CASE status[a] # "absent"
      BY <2>1, <3>2 DEF RegisterReport, Governed, TypeOK
    <3>3. QED
      BY <3>1, <3>2
  <2>2. CASE Evaluate(k)
    BY <2>2 DEF Evaluate, Governed, Reading
  <2>3. QED
    BY <1>1, <2>1, <2>2
       DEF CallStep, Approve, Lock, NotDraft, Crash, Judge, Quarantine, Release, Pass,
           StartEvaluation, ReadNext, NoContract
<1>2. ASSUME NEW a \in Assets, Register(a)
      PROVE  /\ lock = None /\ status[a] = "absent"
             /\ status' = [status EXCEPT ![a] = "draft"]
  BY <1>2 DEF Register
<1>3. QED
  BY <1>1, <1>2 DEF Next, IngestUnjudged, Reject, Expire, SubmitJob, RunJob, vars

LEMMA ActivateRows ==
  ASSUME Governed, NEW k \in Calls, Activate(k)
  PROVE  /\ on[k] \in Assets /\ status[on[k]] = "draft" /\ lock = k
         /\ HadSupport(on[k])
         /\ \A a \in Assets :
              status'[a] = IF a = on[k] THEN "active"
                           ELSE IF Scope[a] = Scope[on[k]] /\ status[a] = "active"
                                THEN "retired" ELSE status[a]
BY DEF Governed, Activating, Activate, ActiveIn

LEMMA Lifecycle ==
  ASSUME Governed, [Next]_vars, NEW a \in Assets
  PROVE  /\ WasActive(a) => WasActive(a)'
         /\ status[a] = "retired" => status'[a] = "retired"
         /\ status[a] # "absent" => status'[a] # "absent"
<1>1. CASE status' = status
  BY <1>1 DEF WasActive
<1>2. ASSUME NEW b \in Assets, status[b] = "absent",
             status' = [status EXCEPT ![b] = "draft"]
      PROVE  /\ WasActive(a) => WasActive(a)'
             /\ status[a] = "retired" => status'[a] = "retired"
             /\ status[a] # "absent" => status'[a] # "absent"
  BY <1>2 DEF WasActive, Governed, TypeOK
<1>3. ASSUME NEW k \in Calls, Activate(k)
      PROVE  /\ WasActive(a) => WasActive(a)'
             /\ status[a] = "retired" => status'[a] = "retired"
             /\ status[a] # "absent" => status'[a] # "absent"
  BY <1>3, ActivateRows DEF WasActive
<1>4. QED
  BY <1>1, <1>2, <1>3, StatusSteps

SupportedNext(a) ==
  Gate(a) # None =>
    \E b \in Assets : /\ Scope[b] = Gate(a) /\ Supported(b, a)
                      /\ status'[b] \in {"active", "retired"}

LEMMA SupportStays ==
  ASSUME Governed, [Next]_vars, NEW a \in Assets, HadSupport(a)
  PROVE  SupportedNext(a)
BY Lifecycle DEF HadSupport, SupportedNext, WasActive

LEMMA OneActiveStep ==
  ASSUME Governed, [Next]_vars PROVE OneActivePerScope'
<1>1. CASE status' = status
  BY <1>1 DEF OneActivePerScope, Governed
<1>2. ASSUME NEW b \in Assets, status[b] = "absent",
             status' = [status EXCEPT ![b] = "draft"]
      PROVE  OneActivePerScope'
  BY <1>2 DEF OneActivePerScope, Governed, TypeOK
<1>3. ASSUME NEW k \in Calls, Activate(k)
      PROVE  OneActivePerScope'
  BY <1>3, ActivateRows DEF OneActivePerScope, Governed
<1>4. QED
  BY <1>1, <1>2, <1>3, StatusSteps

LEMMA SupportedStep ==
  ASSUME Governed, [Next]_vars PROVE ActivatedWasSupported'
<1>1. SUFFICES ASSUME NEW a \in Assets, WasActive(a)' PROVE SupportedNext(a)
  BY DEF ActivatedWasSupported, SupportedNext, WasActive
<1>2. CASE WasActive(a)
  <2>1. HadSupport(a)
    BY <1>2 DEF Governed, ActivatedWasSupported, HadSupport
  <2>2. QED
    BY <2>1, SupportStays
<1>3. CASE ~WasActive(a)
  <2>1. PICK k \in Calls : Activate(k)
    BY <1>1, <1>3, StatusSteps DEF WasActive, Governed, TypeOK
  <2>2. a = on[k]
    BY <1>1, <1>3, <2>1, ActivateRows DEF WasActive
  <2>3. QED
    BY <2>1, <2>2, ActivateRows, SupportStays
<1>4. QED
  BY <1>2, <1>3

-----------------------------------------------------------------------------
(* Quarantine *)

\* The steps, by what they are a step of.
LEMMA NextKinds ==
  ASSUME [Next]_vars
  PROVE  \/ UNCHANGED vars
         \/ \E k \in Calls : CallStep(k)
         \/ \E a \in Assets : Register(a)
         \/ \E o \in Observations : IngestUnjudged(o)
         \/ \E o \in Observations, m \in Manifests \cup {None} : Reject(o, m)
         \/ \E r \in Readiness : Expire(r)
         \/ \E r \in Readiness \cup {None} : SubmitJob(r) \/ RunJob(r)
BY DEF Next

\* What a request leaves alone unless it is the drift guard's or an evaluation.
LEMMA RequestWrites ==
  ASSUME NEW k \in Calls, CallStep(k)
  PROVE  /\ UNCHANGED gov
         /\ quar' = quar \/ Quarantine(k) \/ Release(k)
         /\ ingested' = ingested \/ Pass(k)
         /\ built' = built \/ Evaluate(k)
<1>1. CASE \E a \in Assets : RegisterReport(k, a) \/ Approve(k, a)
  BY <1>1 DEF RegisterReport, Approve, assets, guard
<1>2. CASE Lock(k) \/ NotDraft(k)
  BY <1>2 DEF Lock, NotDraft, assets, guard
<1>3. CASE Activate(k) \/ Crash(k)
  BY <1>3 DEF Activate, Crash, guard
<1>4. CASE \E o \in Observations, why \in {"probe", "ingest", "release"},
              was \in Manifests \cup {None} : Judge(k, o, why, was)
  BY <1>4 DEF Judge, assets, guard
<1>5. CASE Quarantine(k) \/ Release(k)
  BY <1>5 DEF Quarantine, Release, assets
<1>6. CASE Pass(k)
  BY <1>6 DEF Pass, assets
<1>7. CASE \E r \in Readiness : StartEvaluation(k, r)
  BY <1>7 DEF StartEvaluation, assets, guard
<1>8. CASE ReadNext(k) \/ NoContract(k)
  BY <1>8 DEF ReadNext, NoContract, assets, guard
<1>9. CASE Evaluate(k)
  BY <1>9 DEF Evaluate, guard
<1>10. QED
  BY <1>1, <1>2, <1>3, <1>4, <1>5, <1>6, <1>7, <1>8, <1>9 DEF CallStep

\* How the quarantine rows change.
LEMMA QuarSteps ==
  ASSUME Governed, [Next]_vars
  PROVE  \/ quar' = quar
         \/ \E k \in Calls : Quarantine(k) \/ Release(k)
         \/ \E o \in Observations, m \in Manifests \cup {None} : Reject(o, m)
<1>1. CASE \E k \in Calls : CallStep(k)
  BY <1>1, RequestWrites
<1>2. CASE UNCHANGED vars \/ \E a \in Assets : Register(a)
  BY <1>2 DEF vars, guard, Register
<1>3. CASE \E o \in Observations : IngestUnjudged(o)
  BY <1>3 DEF IngestUnjudged
<1>4. CASE \E r \in Readiness : Expire(r)
  BY <1>4 DEF guard, Expire
<1>5. CASE \E r \in Readiness \cup {None} : SubmitJob(r) \/ RunJob(r)
  BY <1>5 DEF guard, SubmitJob, RunJob
<1>6. QED
  BY <1>1, <1>2, <1>3, <1>4, <1>5, NextKinds

LEMMA QuarRows ==
  ASSUME Governed, NEW o \in Observations, NEW m \in Manifests \cup {None}
  PROVE  /\ \A k \in Calls : Quarantine(k) =>
              quar'[<<o, m>>] = IF obs[k] = o /\ judge[k] = m /\ quar[<<o, m>>] = "absent"
                            THEN "open" ELSE quar[<<o, m>>]
         /\ \A k \in Calls : Release(k) =>
              quar'[<<o, m>>] = IF obs[k] = o /\ filed[k] = m /\ quar[<<o, m>>] = "open"
                            THEN "released" ELSE quar[<<o, m>>]
         /\ \A p \in Observations, n \in Manifests \cup {None} : Reject(p, n) =>
              quar'[<<o, m>>] = IF p = o /\ n = m THEN "rejected" ELSE quar[<<o, m>>]
<1>1. <<o, m>> \in Observations \X (Manifests \cup {None})
  OBVIOUS
<1>2. ASSUME NEW k \in Calls, Quarantine(k)
      PROVE  quar'[<<o, m>>] = IF obs[k] = o /\ judge[k] = m /\ quar[<<o, m>>] = "absent"
                           THEN "open" ELSE quar[<<o, m>>]
  BY <1>1, <1>2 DEF Quarantine, Governed, TypeOK
<1>3. ASSUME NEW k \in Calls, Release(k)
      PROVE  quar'[<<o, m>>] = IF obs[k] = o /\ filed[k] = m /\ quar[<<o, m>>] = "open"
                           THEN "released" ELSE quar[<<o, m>>]
  BY <1>1, <1>3 DEF Release, Governed, TypeOK
<1>4. ASSUME NEW p \in Observations, NEW n \in Manifests \cup {None}, Reject(p, n)
      PROVE  quar'[<<o, m>>] = IF p = o /\ n = m THEN "rejected" ELSE quar[<<o, m>>]
  BY <1>1, <1>4 DEF Reject, Governed, TypeOK
<1>5. QED
  BY <1>2, <1>3, <1>4

LEMMA RowsStay ==
  ASSUME Governed, [Next]_vars, NEW o \in Observations, NEW m \in Manifests \cup {None},
         quar[<<o, m>>] # "absent"
  PROVE  quar'[<<o, m>>] # "absent"
BY QuarSteps, QuarRows

LEMMA FiledStep ==
  ASSUME Governed, [Next]_vars PROVE Filed'
<1>1. SUFFICES ASSUME NEW o \in Observations, NEW m \in Manifests \cup {None},
                      quar'[<<o, m>>] # "absent", m # None
               PROVE  WasActive(m)' /\ ~Accepts(m, o)
  BY DEF Filed, Accepts, CompatibleTypes
<1>2. m \in Assets
  BY <1>1 DEF Manifests
<1>3. CASE quar[<<o, m>>] # "absent"
  <2>1. WasActive(m) /\ ~Accepts(m, o)
    BY <1>1, <1>3 DEF Governed, Filed
  <2>2. QED
    BY <1>2, <2>1, Lifecycle
<1>4. CASE quar[<<o, m>>] = "absent"
  <2>1. PICK k \in Calls : Quarantine(k) /\ obs[k] = o /\ judge[k] = m
    BY <1>1, <1>4, QuarSteps, QuarRows DEF Reject
  <2>6. WasActive(m) /\ ~Accepts(m, o)
    BY <1>1, <2>1 DEF Quarantine, Governed, Judging, Compatible
  <2>7. QED
    BY <1>2, <2>6, Lifecycle
<1>5. QED
  BY <1>3, <1>4

LEMMA ReleasedStep ==
  ASSUME Governed, [Next]_vars PROVE ReleasedIsSuperseded'
<1>1. SUFFICES ASSUME NEW o \in Observations, NEW m \in Manifests \cup {None},
                      quar'[<<o, m>>] = "released"
               PROVE  /\ m # None => status'[m] = "retired"
                      /\ \E n \in Manifests : WasActive(n)' /\ Accepts(n, o)
  BY DEF ReleasedIsSuperseded, Accepts, CompatibleTypes
<1>2. m # None => m \in Assets
  BY DEF Manifests
<1>3. Manifests \subseteq Assets
  BY DEF Manifests
<1>4. CASE quar[<<o, m>>] = "released"
  <2>1. /\ m # None => status[m] = "retired"
        /\ \E n \in Manifests : WasActive(n) /\ Accepts(n, o)
    BY <1>4 DEF Governed, ReleasedIsSuperseded
  <2>2. QED
    BY <1>2, <1>3, <2>1, Lifecycle
<1>5. CASE quar[<<o, m>>] # "released"
  <2>1. PICK k \in Calls : Release(k) /\ obs[k] = o /\ filed[k] = m
    BY <1>1, <1>5, QuarSteps, QuarRows
  <2>2. judge[k] \in Manifests \cup {None}
    BY DEF Governed, TypeOK
  <2>6. Compatible(judge[k], o)
    BY <2>1 DEF Release, MayRelease
  <2>7. judge[k] \in Manifests /\ WasActive(judge[k]) /\ Accepts(judge[k], o)
    BY <2>1, <2>2, <2>6 DEF Release, Governed, Judging, Compatible
  <2>8. m # None => status[m] = "retired"
    BY <2>1, <2>6 DEF Release, Governed, Judging
  <2>9. QED
    BY <1>2, <1>3, <2>7, <2>8, Lifecycle
<1>6. QED
  BY <1>4, <1>5

-----------------------------------------------------------------------------
(* Readiness manifests *)

LEMMA BuiltSteps ==
  ASSUME Governed, [Next]_vars
  PROVE  built' = built \/ \E k \in Calls : Evaluate(k)
<1>1. CASE \E k \in Calls : CallStep(k)
  BY <1>1, RequestWrites
<1>2. CASE UNCHANGED vars \/ \E a \in Assets : Register(a)
  BY <1>2 DEF vars, assets, Register
<1>3. CASE \E o \in Observations, m \in Manifests \cup {None} : Reject(o, m)
  BY <1>3 DEF assets, Reject
<1>4. CASE \E r \in Readiness : Expire(r)
  BY <1>4 DEF assets, Expire
<1>5. CASE \E r \in Readiness \cup {None} : SubmitJob(r) \/ RunJob(r)
  BY <1>5 DEF assets, SubmitJob, RunJob
<1>6. CASE \E o \in Observations : IngestUnjudged(o)
  BY <1>6 DEF assets, IngestUnjudged
<1>7. QED
  BY <1>1, <1>2, <1>3, <1>4, <1>5, <1>6, NextKinds

LEMMA RunSteps ==
  ASSUME Governed, [Next]_vars
  PROVE  /\ strict' = strict
         /\ runs' = runs \/ \E r \in Readiness \cup {None} : RunJob(r)
<1>1. CASE \E k \in Calls : CallStep(k)
  BY <1>1, RequestWrites DEF gov
<1>2. CASE UNCHANGED vars \/ \E a \in Assets : Register(a)
  BY <1>2 DEF vars, gov, Register
<1>3. CASE \E o \in Observations, m \in Manifests \cup {None} : Reject(o, m)
  BY <1>3 DEF gov, Reject
<1>4. CASE \E r \in Readiness : Expire(r)
  BY <1>4 DEF Expire
<1>5. CASE \E r \in Readiness \cup {None} : SubmitJob(r) \/ RunJob(r)
  BY <1>5 DEF SubmitJob, RunJob
<1>6. CASE \E o \in Observations : IngestUnjudged(o)
  BY <1>6 DEF gov, IngestUnjudged
<1>7. QED
  BY <1>1, <1>2, <1>3, <1>4, <1>5, <1>6, NextKinds

\* What an evaluation builds.
LEMMA EvaluateBuilds ==
  ASSUME Governed, NEW k \in Calls, Evaluate(k)
  PROVE  /\ on[k] \in Readiness /\ status[on[k]] = "absent"
         /\ status' = [status EXCEPT ![on[k]] = "draft"]
         /\ \E t \in Times, v \in {"ready", "degraded", "blocked"} :
              /\ v \in Verdicts(reads[k], t)
              /\ \A r \in Readiness :
                   built'[r] = IF r = on[k]
                               THEN [verdict |-> v, asof |-> t, refs |-> reads[k]]
                               ELSE built[r]
BY DEF Evaluate, Governed, Reading, TypeOK

LEMMA BackedStep ==
  ASSUME Governed, [Next]_vars PROVE Backed'
<1> DEFINE Known(q) == \A s \in Scopes : q[s] \in Assets => status'[q[s]] \in {"active", "retired"}
           Fits(b) == /\ {b.refs[MatrixScope], b.refs[ContractScope]} \subseteq Assets
                      /\ Gaps(b.refs, b.asof) = {}
                      /\ ConnectorReady(b.refs)
<1>1. SUFFICES ASSUME NEW r \in Readiness, built'[r].verdict = "ready"
               PROVE  Fits(built'[r]) /\ Known(built'[r].refs)
  BY DEF Backed, ConnectorReady, Gaps, Resolved, KnownRefs, WasActive
<1>2. ASSUME NEW q, KnownRefs(q) PROVE Known(q)
  BY <1>2, Lifecycle DEF KnownRefs, WasActive
<1>3. CASE built'[r] = built[r]
  <2>1. Fits(built[r]) /\ KnownRefs(built[r].refs)
    BY <1>1, <1>3 DEF Governed, Backed
  <2>2. QED
    BY <1>2, <1>3, <2>1
<1>4. CASE built'[r] # built[r]
  <2>1. PICK k \in Calls : Evaluate(k)
    BY <1>4, BuiltSteps
  <2>2. PICK t \in Times, v \in {"ready", "degraded", "blocked"} :
          /\ v \in Verdicts(reads[k], t)
          /\ \A x \in Readiness :
               built'[x] = IF x = on[k] THEN [verdict |-> v, asof |-> t, refs |-> reads[k]]
                           ELSE built[x]
    BY <2>1, EvaluateBuilds
  <2>3. built'[r] = [verdict |-> v, asof |-> t, refs |-> reads[k]]
    BY <1>4, <2>2
  <2>4. built'[r].refs = reads[k] /\ built'[r].asof = t /\ v = "ready"
    BY <1>1, <2>3
  <2>5. Gaps(reads[k], t) = {} /\ ConnectorReady(reads[k])
    BY <2>2, <2>4 DEF Verdicts
  <2>6. {reads[k][MatrixScope], reads[k][ContractScope]} \subseteq Assets
    BY <2>1 DEF Evaluate, AllRead
  <2>7. KnownRefs(reads[k])
    BY <2>1 DEF Governed, Reading, Evaluate
  <2>8. QED
    BY <1>2, <2>4, <2>5, <2>6, <2>7
<1>5. QED
  BY <1>3, <1>4

LEMMA RanStep ==
  ASSUME Governed, [Next]_vars PROVE Ran'
<1>1. None \in runs' => ~strict'
  <2>1. CASE None \in runs
    BY <2>1, RunSteps DEF Governed, Ran
  <2>2. ASSUME None \notin runs, None \in runs' PROVE ~strict
    <3>1. PICK x \in Readiness \cup {None} : RunJob(x)
      BY <2>2, RunSteps
    <3>2. QED
      BY <2>2, <3>1 DEF RunJob, MayExecute
  <2>3. QED
    BY <2>1, <2>2, RunSteps
<1>2. ASSUME NEW r \in runs' \ {None} PROVE WasActive(r)' /\ built'[r].verdict = "ready"
  <2>1. r \in Readiness /\ WasActive(r) /\ built[r].verdict = "ready"
    <3>1. CASE r \in runs
      BY <1>2, <3>1 DEF Governed, Ran, TypeOK
    <3>2. CASE r \notin runs
      <4>1. PICK x \in Readiness \cup {None} : RunJob(x)
        BY <1>2, <3>2, RunSteps
      <4>2. QED
        BY <1>2, <3>2, <4>1 DEF RunJob, MayExecute, IsReady, WasActive
    <3>3. QED
      BY <3>1, <3>2
  <2>2. built'[r] = built[r]
    <3>1. ASSUME NEW k \in Calls, Evaluate(k) PROVE built'[r] = built[r]
      BY <2>1, <3>1, EvaluateBuilds DEF WasActive
    <3>2. QED
      BY <3>1, BuiltSteps
  <2>3. QED
    BY <2>1, <2>2, Lifecycle, AssetConstants
<1>3. QED
  BY <1>1, <1>2 DEF Ran, WasActive

-----------------------------------------------------------------------------
(* Ingested events *)

LEMMA IngestedSteps ==
  ASSUME [Next]_vars
  PROVE  \/ ingested' = ingested
         \/ \E k \in Calls : Pass(k)
         \/ \E o \in Observations : IngestUnjudged(o)
<1>1. CASE \E k \in Calls : CallStep(k)
  BY <1>1, RequestWrites
<1>2. CASE UNCHANGED vars \/ \E a \in Assets : Register(a)
  BY <1>2 DEF vars, guard, Register
<1>3. CASE \E o \in Observations, m \in Manifests \cup {None} : Reject(o, m)
  BY <1>3 DEF Reject
<1>4. CASE \E r \in Readiness : Expire(r)
  BY <1>4 DEF guard, Expire
<1>5. CASE \E r \in Readiness \cup {None} : SubmitJob(r) \/ RunJob(r)
  BY <1>5 DEF guard, SubmitJob, RunJob
<1>6. QED
  BY <1>1, <1>2, <1>3, <1>4, <1>5, NextKinds

LEMMA IngestedStep ==
  ASSUME Governed, [Next]_vars PROVE IngestedWasAccepted'
<1>1. SUFFICES ASSUME strict', NEW o \in ingested'
               PROVE  \E m \in Manifests : WasActive(m)' /\ Accepts(m, o)
  BY DEF IngestedWasAccepted, Accepts, CompatibleTypes
<1>2. strict
  BY <1>1, RunSteps
<1>3. PICK m \in Manifests : WasActive(m) /\ Accepts(m, o)
  <2>1. CASE o \in ingested
    BY <1>2, <2>1 DEF Governed, IngestedWasAccepted
  <2>2. CASE o \notin ingested
    <3>1. \A x \in Observations : ~IngestUnjudged(x)
      BY <1>2 DEF IngestUnjudged
    <3>2. PICK k \in Calls : Pass(k)
      BY <1>1, <2>2, <3>1, IngestedSteps
    <3>3. o = obs[k] /\ pc[k] = "judged" /\ Compatible(judge[k], obs[k])
      BY <1>1, <2>2, <3>2 DEF Pass
    <3>4. judge[k] \in Manifests \cup {None}
      BY DEF Governed, TypeOK
    <3>5. QED
      BY <3>3, <3>4 DEF Governed, Judging, Compatible
  <2>3. QED
    BY <2>1, <2>2
<1>4. WasActive(m)'
  BY <1>3, Lifecycle DEF Manifests
<1>5. QED
  BY <1>3, <1>4

-----------------------------------------------------------------------------
(* Requests in progress *)

Untouched(u) ==
  /\ pc'[u] = pc[u] /\ on'[u] = on[u] /\ found'[u] = found[u]
  /\ obs'[u] = obs[u] /\ judge'[u] = judge[u] /\ purpose'[u] = purpose[u]
  /\ filed'[u] = filed[u] /\ reads'[u] = reads[u]

LEMMA OthersStay ==
  ASSUME Governed, NEW k \in Calls, NEW u \in Calls, u # k, CallStep(k)
  PROVE  Untouched(u)
<1>1. Return(k) => Untouched(u)
  BY DEF Return, Governed, TypeOK, Untouched
<1>2. ASSUME NEW a \in Assets, ToActivate(k, a) PROVE Untouched(u)
  BY <1>2 DEF ToActivate, Governed, TypeOK, Untouched
<1>3. ASSUME NEW o \in Observations, NEW why \in {"probe", "ingest", "release"},
             NEW was \in Manifests \cup {None}, Judge(k, o, why, was)
      PROVE  Untouched(u)
  BY <1>3 DEF Judge, Governed, TypeOK, Untouched
<1>4. ASSUME NEW r \in Readiness, StartEvaluation(k, r) PROVE Untouched(u)
  BY <1>4 DEF StartEvaluation, Governed, TypeOK, Untouched
<1>5. Lock(k) \/ ReadNext(k) \/ Evaluate(k) => Untouched(u)
  BY DEF Lock, ReadNext, Evaluate, Governed, TypeOK, Untouched
<1>6. QED
  BY <1>1, <1>2, <1>3, <1>4, <1>5 DEF CallStep, RegisterReport, Approve, NotDraft, Activate,
     Crash, Quarantine, Release, Pass, NoContract

LEMMA Idle ==
  ASSUME Governed, NEW k \in Calls, Return(k)
  PROVE  pc'[k] = "idle" /\ on'[k] = None
BY DEF Return, Governed, TypeOK

\* A step is taken by one call, or leaves the calls and the lock alone.
LEMMA WhoSteps ==
  ASSUME Governed, [Next]_vars
  PROVE  (\E k \in Calls : CallStep(k)) \/ (UNCHANGED local /\ lock' = lock)
BY DEF Next, vars, assets, guard, gov, local, Register, IngestUnjudged, Reject, Expire,
   SubmitJob, RunJob

\* While a call stays inside its transaction nothing else writes a row.
LEMMA LockExcludes ==
  ASSUME Governed, [Next]_vars, NEW u \in Calls, pc[u] = "locked", pc'[u] = "locked"
  PROVE  status' = status /\ lock' = u
<1>1. lock = u
  BY DEF Governed, Activating
<1>2. u # None
  BY AssetConstants
<1>3. ~Activate(u)
  BY Idle DEF Activate
<1>4. \A k \in Calls : Activate(k) => k = u
  BY <1>1 DEF Activate, Governed, Activating
<1>5. status' = status
  BY <1>1, <1>2, <1>3, <1>4, StatusSteps
<1>6. lock' = u
  <2>1. ASSUME NEW k \in Calls, CallStep(k) PROVE lock' = lock
    BY <1>1, <1>2, <1>3, <1>4, <2>1, Idle
       DEF CallStep, RegisterReport, Approve, Lock, Free, NotDraft, Crash, Judge,
           Quarantine, Release, Pass, StartEvaluation, ReadNext, NoContract, Evaluate,
           assets, guard, gov
  <2>2. QED
    BY <1>1, <2>1, WhoSteps
<1>7. QED
  BY <1>5, <1>6

LEMMA OwnOrUntouched ==
  ASSUME Governed, [Next]_vars, NEW u \in Calls
  PROVE  CallStep(u) \/ Untouched(u)
BY OthersStay, WhoSteps DEF local, Untouched

LEMMA LockStep ==
  ASSUME Governed, [Next]_vars PROVE LockHeld'
<1>1. ASSUME NEW k \in Calls, CallStep(k) PROVE LockHeld'
  <2>1. CASE Lock(k)
    BY <2>1 DEF Lock, LockHeld, Governed, TypeOK
  <2>2. CASE Activate(k)
    BY <2>2 DEF Activate, LockHeld
  <2>3. CASE Crash(k)
    <3>1. ASSUME lock' # None PROVE lock' = lock /\ lock # k /\ lock \in Calls
      BY <2>3, <3>1 DEF Crash, Governed, TypeOK
    <3>2. QED
      BY <1>1, <3>1, OthersStay DEF LockHeld, Governed, Untouched
  <2>4. CASE ~Lock(k) /\ ~Activate(k) /\ ~Crash(k)
    <3>1. lock' = lock /\ pc[k] # "locked"
      BY <1>1, <2>4 DEF CallStep, RegisterReport, Approve, NotDraft, Judge, Quarantine,
         Release, Pass, StartEvaluation, ReadNext, NoContract, Evaluate, assets
    <3>2. QED
      BY <1>1, <3>1, OthersStay DEF LockHeld, Governed, Untouched, TypeOK
  <2>5. QED
    BY <2>1, <2>2, <2>3, <2>4
<1>2. CASE UNCHANGED local /\ lock' = lock
  BY <1>2 DEF LockHeld, local, Governed
<1>3. QED
  BY <1>1, <1>2, WhoSteps

LEMMA ActivatingStep ==
  ASSUME Governed, [Next]_vars, NEW u \in Calls PROVE Activating(u)'
<1>1. CASE Untouched(u)
  <2>1. ASSUME pc'[u] \in {"approved", "locked"}
        PROVE  on'[u] \in Assets /\ status'[on'[u]] # "absent" /\ SupportedNext(on'[u])
    <3>1. on[u] \in Assets /\ status[on[u]] # "absent" /\ HadSupport(on[u])
      BY <1>1, <2>1 DEF Untouched, Governed, Activating
    <3>2. status'[on[u]] # "absent" /\ SupportedNext(on[u])
      BY <3>1, Lifecycle, SupportStays
    <3>3. QED
      BY <1>1, <3>1, <3>2 DEF Untouched
  <2>2. ASSUME pc'[u] = "locked"
        PROVE  /\ lock' = u /\ status'[on'[u]] = "draft"
               /\ found'[u] = {a \in Assets : Scope[a] = Scope[on'[u]] /\ status'[a] = "active"}
    <3>1. pc[u] = "locked" /\ status' = status /\ lock' = u
      BY <1>1, <2>2, LockExcludes DEF Untouched
    <3>2. QED
      BY <1>1, <3>1 DEF Untouched, Governed, Activating, ActiveIn
  <2>3. QED
    BY <2>1, <2>2 DEF Activating, ActiveIn, HadSupport, WasActive, SupportedNext
<1>2. CASE CallStep(u)
  <2>1. Return(u) => Activating(u)'
    BY Idle DEF Activating
  <2>2. ASSUME NEW a \in Assets, RegisterReport(u, a) PROVE Activating(u)'
    <3>1. pc'[u] = "approved" /\ on'[u] = a /\ status'[a] # "absent" /\ Gate(a) = None
      BY <2>2, AssetConstants DEF RegisterReport, ToActivate, Governed, TypeOK
    <3>2. QED
      BY <3>1 DEF Activating, HadSupport
  <2>3. ASSUME NEW a \in Assets, Approve(u, a) PROVE Activating(u)'
    <3>1. pc'[u] = "approved" /\ on'[u] = a /\ status'[a] # "absent"
      BY <2>3 DEF Approve, ToActivate, Governed, TypeOK, assets
    <3>2. HadSupport(a)
      BY <2>3 DEF Approve, GateOpen, HadSupport, ActiveIn, WasActive
    <3>3. SupportedNext(a)
      BY <3>2, SupportStays
    <3>4. QED
      BY <3>1, <3>3 DEF Activating, HadSupport, WasActive, SupportedNext
  <2>4. CASE Lock(u)
    <3>1. /\ pc'[u] = "locked" /\ on'[u] = on[u] /\ lock' = u /\ status' = status
          /\ found'[u] = ActiveIn(Scope[on[u]]) /\ status[on[u]] = "draft"
          /\ on[u] \in Assets /\ HadSupport(on[u])
      BY <2>4 DEF Lock, Governed, TypeOK, Activating
    <3>2. SupportedNext(on[u])
      BY <3>1, SupportStays
    <3>3. QED
      BY <3>1, <3>2 DEF Activating, ActiveIn, HadSupport, WasActive, SupportedNext
  <2>5. CASE Evaluate(u)
    <3>1. /\ pc'[u] = "approved" /\ on'[u] = on[u] /\ on[u] \in Readiness
          /\ status'[on[u]] = "draft"
      BY <2>5, AssetConstants DEF Evaluate, Governed, TypeOK, Reading
    <3>2. QED
      BY <3>1, AssetConstants DEF Activating, HadSupport
  <2>6. CASE ReadNext(u)
    BY <2>6 DEF ReadNext, Activating
  <2>7. ASSUME NEW o \in Observations, NEW why \in {"probe", "ingest", "release"},
               NEW was \in Manifests \cup {None}, Judge(u, o, why, was)
        PROVE  Activating(u)'
    BY <2>7 DEF Judge, Activating, Governed, TypeOK
  <2>8. ASSUME NEW r \in Readiness, StartEvaluation(u, r) PROVE Activating(u)'
    BY <2>8 DEF StartEvaluation, Activating, Governed, TypeOK
  <2>9. QED
    BY <1>2, <2>1, <2>2, <2>3, <2>4, <2>5, <2>6, <2>7, <2>8
       DEF CallStep, NotDraft, Activate, Crash, Quarantine, Release, Pass, NoContract
<1>3. QED
  BY <1>1, <1>2, OwnOrUntouched

LEMMA JudgingStep ==
  ASSUME Governed, [Next]_vars, NEW u \in Calls PROVE Judging(u)'
<1>1. Manifests \subseteq Assets
  BY DEF Manifests
<1>2. CASE Untouched(u)
  <2>1. SUFFICES ASSUME pc[u] = "judged"
        PROVE  /\ obs[u] \in Observations
               /\ judge[u] # None => status'[judge[u]] \in {"active", "retired"}
               /\ purpose[u] = "release" =>
                    /\ quar'[<<obs[u], filed[u]>>] # "absent"
                    /\ Compatible(judge[u], obs[u]) /\ filed[u] # None =>
                         status'[filed[u]] = "retired"
    BY <1>2 DEF Judging, Untouched, Compatible, Accepts, CompatibleTypes, WasActive
  <2>2. Judging(u) /\ judge[u] \in Manifests \cup {None} /\ filed[u] \in Manifests \cup {None}
    BY DEF Governed, TypeOK
  <2>3. judge[u] # None => status'[judge[u]] \in {"active", "retired"}
    BY <1>1, <2>1, <2>2, Lifecycle DEF Judging, WasActive
  <2>4. ASSUME purpose[u] = "release" PROVE quar'[<<obs[u], filed[u]>>] # "absent"
    BY <2>1, <2>2, <2>4, RowsStay DEF Judging
  <2>5. ASSUME purpose[u] = "release", Compatible(judge[u], obs[u]), filed[u] # None
        PROVE  status'[filed[u]] = "retired"
    BY <1>1, <2>1, <2>2, <2>5, Lifecycle DEF Judging
  <2>6. QED
    BY <2>1, <2>2, <2>3, <2>4, <2>5 DEF Judging
<1>3. CASE CallStep(u)
  <2>1. Return(u) => Judging(u)'
    BY Idle DEF Judging
  <2>2. ASSUME NEW a \in Assets, ToActivate(u, a) PROVE Judging(u)'
    BY <2>2 DEF ToActivate, Judging, Governed, TypeOK
  <2>3. Lock(u) \/ ReadNext(u) \/ Evaluate(u) => Judging(u)'
    BY DEF Lock, ReadNext, Evaluate, Judging, Governed, TypeOK
  <2>4. ASSUME NEW r \in Readiness, StartEvaluation(u, r) PROVE Judging(u)'
    BY <2>4 DEF StartEvaluation, Judging, Governed, TypeOK
  <2>5. ASSUME NEW o \in Observations, NEW why \in {"probe", "ingest", "release"},
               NEW was \in Manifests \cup {None}, Judge(u, o, why, was)
        PROVE  Judging(u)'
    <3>1. PICK m \in Manifests \cup {None} :
            IsActiveRead(ConnectorScope, m) /\ judge' = [judge EXCEPT ![u] = m]
      BY <2>5 DEF Judge
    <3>2. /\ pc'[u] = "judged" /\ obs'[u] = o /\ judge'[u] = m
          /\ purpose'[u] = why /\ filed'[u] = was /\ status' = status /\ quar' = quar
          /\ why = "release" => quar[<<o, was>>] # "absent"
      BY <2>5, <3>1 DEF Judge, Governed, TypeOK, assets, guard
    <3>3. m # None => m \in Assets /\ status[m] = "active" /\ Scope[m] = ConnectorScope
      BY <3>1, AssetConstants DEF IsActiveRead, ActiveIn
    <3>4. ASSUME why = "release", Compatible(m, o), was # None PROVE status[was] = "retired"
      <4>1. WasActive(was) /\ ~Accepts(was, o)
        BY <3>2, <3>4 DEF Governed, Filed
      <4>2. Accepts(m, o) /\ m # None
        BY <3>4 DEF Compatible
      <4>3. was \in Assets /\ Scope[was] = ConnectorScope /\ was # m
        BY <3>4, <4>1, <4>2 DEF Manifests
      <4>4. status[was] # "active"
        BY <3>3, <4>2, <4>3 DEF Governed, OneActivePerScope
      <4>5. QED
        BY <4>1, <4>4 DEF WasActive
    <3>5. QED
      BY <3>2, <3>3, <3>4 DEF Judging, WasActive, Compatible, Accepts, CompatibleTypes
  <2>6. QED
    BY <1>3, <2>1, <2>2, <2>3, <2>4, <2>5
       DEF CallStep, RegisterReport, Approve, NotDraft, Activate, Crash, Quarantine,
           Release, Pass, NoContract
<1>4. QED
  BY <1>2, <1>3, OwnOrUntouched

LEMMA ReadingStep ==
  ASSUME Governed, [Next]_vars, NEW u \in Calls PROVE Reading(u)'
<1> DEFINE Known(q) == \A s \in Scopes : q[s] \in Assets => status'[q[s]] \in {"active", "retired"}
<1>1. \A a \in Assets : status[a] \in {"active", "retired"} => status'[a] \in {"active", "retired"}
  BY Lifecycle DEF WasActive
<1>2. SUFFICES ASSUME pc'[u] = "reading"
               PROVE  /\ on'[u] \in Readiness
                      /\ status'[on'[u]] = "absent"
                      /\ Known(reads'[u])
                      /\ \A j \in Calls : on'[j] = on'[u] => j = u
  BY DEF Reading, KnownRefs, WasActive
<1>3. ASSUME NEW a \in Assets, ToActivate(u, a) PROVE FALSE
  BY <1>2, <1>3 DEF ToActivate, Governed, TypeOK
<1>4. ~Return(u)
  BY <1>2, Idle
<1>5. ASSUME NEW r \in Readiness, StartEvaluation(u, r)
      PROVE  /\ on'[u] \in Readiness
             /\ status'[on'[u]] = "absent"
             /\ Known(reads'[u])
             /\ \A j \in Calls : on'[j] = on'[u] => j = u
  <2>1. /\ on'[u] = r /\ status'[r] = "absent" /\ pc[u] = "idle" /\ reads'[u] = reads[u]
        /\ \A j \in Calls : on[j] # r /\ (j # u => on'[j] = on[j])
    BY <1>5 DEF StartEvaluation, Governed, TypeOK, assets
  <2>2. reads[u] = NoReads
    BY <2>1 DEF Governed, Resting
  <2>3. QED
    BY <2>1, <2>2, AssetConstants DEF NoReads
<1>6. CASE ReadNext(u)
  <2>1. PICK s \in Scopes, v \in Assets \cup {None} :
          /\ IsActiveRead(s, v)
          /\ reads' = [reads EXCEPT ![u] = [@ EXCEPT ![s] = v]]
    BY <1>6 DEF ReadNext
  <2>2. v \in Assets => status[v] = "active"
    BY <2>1, AssetConstants DEF IsActiveRead, ActiveIn
  <2>3. /\ reads[u] \in [Scopes -> Assets \cup {None, Unread}]
        /\ reads'[u] = [reads[u] EXCEPT ![s] = v]
        /\ on' = on /\ status' = status
    BY <1>6, <2>1 DEF ReadNext, Governed, TypeOK, Reads, assets
  <2>4. Reading(u) /\ pc[u] = "reading"
    BY <1>6 DEF Governed, ReadNext
  <2>5. Known(reads'[u])
    BY <2>2, <2>3, <2>4 DEF Reading, KnownRefs, WasActive
  <2>6. QED
    BY <2>3, <2>4, <2>5 DEF Reading
<1>7. CASE Untouched(u)
  <2>1. /\ pc[u] = "reading" /\ on[u] \in Readiness /\ status[on[u]] = "absent"
        /\ KnownRefs(reads[u])
        /\ \A j \in Calls : on[j] = on[u] => j = u
    BY <1>2, <1>7 DEF Untouched, Governed, Reading, TypeOK
  <2>2. Known(reads[u])
    BY <1>1, <2>1 DEF KnownRefs, WasActive
  <2>3. status'[on[u]] = "absent"
    <3>1. ASSUME NEW k \in Calls, Activate(k) PROVE status'[on[u]] = "absent"
      BY <2>1, <3>1, ActivateRows, AssetConstants
    <3>2. ASSUME NEW k \in Calls, CallStep(k), ~Activate(k) PROVE status'[on[u]] = "absent"
      <4>1. CASE Evaluate(k)
        <5>1. on[k] # on[u]
          BY <1>2, <1>7, <2>1, <4>1 DEF Evaluate, Untouched, Governed, TypeOK
        <5>2. QED
          BY <2>1, <4>1, <5>1, EvaluateBuilds, AssetConstants DEF Governed, TypeOK
      <4>2. ASSUME NEW a \in Assets, RegisterReport(k, a) PROVE status'[on[u]] = "absent"
        BY <2>1, <4>2, AssetConstants DEF RegisterReport, Governed, TypeOK
      <4>3. QED
        BY <2>1, <3>2, <4>1, <4>2 DEF CallStep, Approve, Lock, NotDraft, Crash, Judge, Quarantine,
           Release, Pass, StartEvaluation, ReadNext, NoContract, assets
    <3>3. ASSUME NEW a \in Assets, Register(a) PROVE status'[on[u]] = "absent"
      BY <2>1, <3>3, AssetConstants DEF Register, Governed, TypeOK
    <3>4. QED
      BY <2>1, <3>1, <3>2, <3>3
         DEF Next, IngestUnjudged, Reject, Expire, SubmitJob, RunJob, assets, vars
  <2>4. ASSUME NEW j \in Calls, on'[j] = on[u] PROVE j = u
    <3>1. CASE on'[j] = on[j]
      BY <2>1, <2>4, <3>1
    <3>2. CASE on'[j] # on[j]
      <4>1. CallStep(j)
        BY <3>2, OwnOrUntouched DEF Untouched
      <4>2. on[u] # None
        BY <2>1, AssetConstants
      <4>3. ~Return(j)
        BY <2>4, <4>2, Idle
      <4>4. ASSUME NEW a \in Assets, RegisterReport(j, a) \/ Approve(j, a) PROVE FALSE
        BY <2>1, <2>4, <4>4, AssetConstants DEF RegisterReport, Approve, ToActivate, Governed, TypeOK
      <4>5. ASSUME NEW r \in Readiness, StartEvaluation(j, r) PROVE FALSE
        BY <2>1, <2>4, <4>5 DEF StartEvaluation, Governed, TypeOK
      <4>6. QED
        BY <3>2, <4>1, <4>3, <4>4, <4>5 DEF CallStep, Lock, NotDraft, Activate, Crash, Judge,
           Quarantine, Release, Pass, ReadNext, NoContract, Evaluate
    <3>3. QED
      BY <3>1, <3>2
  <2>5. QED
    BY <1>7, <2>1, <2>2, <2>3, <2>4 DEF Untouched
<1>8. CASE CallStep(u)
  <2>1. ~Lock(u) /\ ~Evaluate(u)
    BY <1>2 DEF Lock, Evaluate, Governed, TypeOK
  <2>2. \A o \in Observations, why \in {"probe", "ingest", "release"},
           was \in Manifests \cup {None} : ~Judge(u, o, why, was)
    BY <1>2 DEF Judge, Governed, TypeOK
  <2>3. QED
    BY <1>3, <1>4, <1>5, <1>6, <1>8, <2>1, <2>2
       DEF CallStep, RegisterReport, Approve, NotDraft, Activate, Crash, Quarantine,
           Release, Pass, NoContract
<1>9. QED
  BY <1>7, <1>8, OwnOrUntouched

LEMMA RestingStep ==
  ASSUME Governed, [Next]_vars, NEW u \in Calls PROVE Resting(u)'
<1>1. CASE Untouched(u)
  BY <1>1 DEF Untouched, Resting, Governed
<1>2. CASE CallStep(u)
  <2>1. Return(u) => Resting(u)'
    BY DEF Return, Resting, Governed, TypeOK
  <2>2. ASSUME pc'[u] # "idle" PROVE Resting(u)'
    BY <2>2 DEF Resting
  <2>3. ASSUME NEW w \in {"approved", "locked", "judged"}, pc' = [pc EXCEPT ![u] = w]
        PROVE  Resting(u)'
    BY <2>2, <2>3 DEF Governed, TypeOK
  <2>4. CASE \E a \in Assets : RegisterReport(u, a) \/ Approve(u, a)
    BY <2>3, <2>4 DEF RegisterReport, Approve, ToActivate
  <2>5. CASE Lock(u) \/ Evaluate(u)
    BY <2>3, <2>5 DEF Lock, Evaluate
  <2>6. CASE \E o \in Observations, why \in {"probe", "ingest", "release"},
                was \in Manifests \cup {None} : Judge(u, o, why, was)
    BY <2>3, <2>6 DEF Judge
  <2>7. CASE ReadNext(u) \/ \E r \in Readiness : StartEvaluation(u, r)
    BY <2>2, <2>7 DEF ReadNext, StartEvaluation, Governed, TypeOK
  <2>8. CASE NotDraft(u) \/ Activate(u) \/ Crash(u)
    BY <2>1, <2>8 DEF NotDraft, Activate, Crash
  <2>9. CASE Quarantine(u) \/ Release(u) \/ Pass(u) \/ NoContract(u)
    BY <2>1, <2>9 DEF Quarantine, Release, Pass, NoContract
  <2>10. QED
    BY <1>2, <2>4, <2>5, <2>6, <2>7, <2>8, <2>9 DEF CallStep
<1>3. QED
  BY <1>1, <1>2, OwnOrUntouched

-----------------------------------------------------------------------------
(* The theorems *)

\* The invariant the others follow from: types, the lock, and what a request
\* in progress may rely on although it holds nothing between its transactions.
THEOREM AssetsGoverned == Spec => []Governed
<1>1. ASSUME Governed, [Next]_vars PROVE Governed'
  BY <1>1, TypeStep, LockStep, OneActiveStep, SupportedStep, ReleasedStep, IngestedStep, FiledStep,
     BackedStep, RanStep, ActivatingStep, JudgingStep, ReadingStep, RestingStep DEF Governed
<1>2. QED
  BY <1>1, InitGoverned, PTL DEF Spec

\* The rows and the requests have their types.
THEOREM AssetTypeOK == Spec => []TypeOK
BY AssetsGoverned, PTL DEF Governed

\* However activations race, no scope has two active versions.
THEOREM OneVersionActive == Spec => []OneActivePerScope
BY AssetsGoverned, PTL DEF Governed

\* What was activated had its supporter activated, in spite of the stale gate.
THEOREM ActivationSupported == Spec => []ActivatedWasSupported
BY AssetsGoverned, PTL DEF Governed

\* A quarantined observation is released only after the manifest that refused
\* it was retired, on the word of one that was activated.
THEOREM ReleaseSuperseded == Spec => []ReleasedIsSuperseded
BY AssetsGoverned, PTL DEF Governed

\* In staging and production only what an activated manifest accepts is ingested.
THEOREM IngestedAccepted == Spec => []IngestedWasAccepted
BY AssetsGoverned, PTL DEF Governed

\* A job runs on a manifest whose parts were active and fit each other, or on
\* none where that is allowed.
THEOREM RunsBacked == Spec => []RunsAreBacked
<1>1. Governed => RunsAreBacked
  BY DEF Governed, TypeOK, Ran, Backed, KnownRefs, RunsAreBacked
<1>2. QED
  BY <1>1, AssetsGoverned, PTL
================================================================================
