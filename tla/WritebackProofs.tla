--------------------------- MODULE WritebackProofs ---------------------------
(***************************************************************************)
(* What the MES applies and what the job rows say about it, for any number *)
(* of plans, operations, confirmations and concurrent writebacks.          *)
(***************************************************************************)
EXTENDS Writeback, SequenceTheorems, TLAPS

\* A request that is under way works on a decision that was no override and on
\* one of its versions, waits for one of the instructions that it has left, and
\* files its outcome in a row of its decision.
Underway(s) ==
  session[s].pc # "idle" =>
    /\ session[s].dec \in DOMAIN decisions
    /\ ~decisions[session[s].dec].override
    /\ session[s].ver \in Writable(session[s].dec)
    /\ session[s].left \subseteq Instructions(session[s].ver)
    /\ session[s].now \subseteq session[s].left
    /\ session[s].row \in DOMAIN jobs \cup {None}
    /\ session[s].row # None => jobs[session[s].row].dec = session[s].dec
    /\ session[s].pc = "filing" => session[s].left = {}
    /\ session[s].now # {} => decisions[session[s].dec].ver = session[s].ver

\* A request that has not failed on an instruction has had all but those left
\* applied.
Good(s) ==
  session[s].pc # "idle" /\ ~session[s].bad =>
    Instructions(session[s].ver) \ session[s].left \subseteq applied

\* So is a retry, for the decision and the row.
Retrying ==
  retry.pc # "idle" =>
    /\ retry.dec \in DOMAIN decisions
    /\ retry.row \in DOMAIN jobs \cup {None}

\* A row is one of a decision; a success, of one that had a version applied.
Rows ==
  \A i \in DOMAIN jobs :
    /\ jobs[i].dec \in DOMAIN decisions
    /\ jobs[i].status = "success" =>
         \E v \in Writable(jobs[i].dec) : Instructions(v) \subseteq applied

\* Why both properties are inductive: the adapter remembers only keys that the
\* MES has applied.
Written ==
  /\ TypeOK
  /\ \A s \in Sessions : Underway(s) /\ Good(s)
  /\ sent \subseteq applied
  /\ \A k \in applied :
       \E d \in DOMAIN decisions : decisions[d].ver = k[1] /\ ~decisions[d].override
  /\ Rows
  /\ Retrying

LEMMA SessionFields ==
  ASSUME TypeOK, NEW s \in Sessions, session[s].pc # "idle"
  PROVE  /\ session[s].pc \in {"sending", "waiting", "filing"}
         /\ session[s].dec \in Decisions
         /\ session[s].ver \in Versions
         /\ session[s].left \subseteq Keys
         /\ session[s].now \subseteq Keys
         /\ session[s].good \in BOOLEAN
         /\ session[s].bad \in BOOLEAN
         /\ session[s].row \in Nat
         /\ session[s].cols \subseteq Columns
         /\ session[s] \in Request
<1>1. session[s] \in Session
  BY DEF TypeOK
<1>2. session[s] # Idle
  BY DEF Idle
<1> QED
  BY <1>1, <1>2 DEF Session, Request

LEMMA IdleFields == Idle.pc = "idle" /\ Idle \in Session /\ Idle \in Retry
  BY DEF Idle, Session, Retry

LEMMA InstructionsAreKeys ==
  ASSUME NEW v \in Versions
  PROVE  /\ Instructions(v) \subseteq Keys
         /\ \A k \in Instructions(v) : k[1] = v
<1>1. v[1] \in Plans
  BY DEF Versions
<1>2. OpsOf[v[1]] \subseteq Ops
  BY <1>1, OpsAssumption
<1> QED
  BY <1>2 DEF Instructions, Keys

LEMMA InitWritten == Init => Written
<1> SUFFICES ASSUME Init PROVE Written
  OBVIOUS
<1>1. TypeOK
  <2>1. decisions \in Seq([ver : Versions, override : BOOLEAN]) /\ jobs \in Seq(JobRow)
    BY DEF Init
  <2>2. Len(decisions) = 0 /\ DOMAIN decisions = {}
    BY DEF Init
  <2>3. session \in [Sessions -> Session] /\ retry \in Retry
    BY IdleFields DEF Init
  <2> QED
    BY <2>1, <2>2, <2>3, BoundsAssumption DEF TypeOK, Init
<1>2. \A s \in Sessions : session[s].pc = "idle"
  BY IdleFields DEF Init
<1> QED
  BY <1>1, <1>2, IdleFields DEF Written, Underway, Good, Rows, Retrying, Init

\* A step that leaves everything but the worker and the records read alone.
LEMMA RestKept ==
  ASSUME Written, TypeOK', Retrying',
         UNCHANGED <<decisions, jobs, sent, session, applied>>
  PROVE  Written'
<1>1. ASSUME NEW s \in Sessions PROVE (Underway(s) /\ Good(s))'
  BY DEF Written, Underway, Good, Writable, Instructions
<1>2. Rows'
  BY DEF Written, Rows, Writable, Instructions
<1> QED
  BY <1>1, <1>2 DEF Written

\* A step of one session that touches nothing else.
LEMMA SessionStep ==
  ASSUME Written, NEW s \in Sessions, NEW x \in Session,
         session' = [session EXCEPT ![s] = x],
         UNCHANGED <<decisions, stored, jobs, cache, fetched, kept, retry>>,
         applied \subseteq applied', applied' \subseteq Keys,
         sent' \subseteq applied',
         \A k \in applied' : \E d \in DOMAIN decisions :
           decisions[d].ver = k[1] /\ ~decisions[d].override,
         Underway(s)', Good(s)'
  PROVE  Written'
<1>1. TypeOK'
  BY DEF Written, TypeOK
<1>2. ASSUME NEW u \in Sessions, u # s PROVE (Underway(u) /\ Good(u))'
  <2>1. session'[u] = session[u]
    BY <1>2 DEF Written, TypeOK
  <2> QED
    BY <2>1 DEF Written, Underway, Good, Writable, Instructions
<1>3. Rows'
  <2> SUFFICES ASSUME NEW i \in DOMAIN jobs
               PROVE  /\ jobs[i].dec \in DOMAIN decisions
                      /\ jobs[i].status = "success" =>
                           \E v \in Writable(jobs[i].dec) : Instructions(v) \subseteq applied'
    BY DEF Rows, Writable, Instructions
  <2> QED
    BY DEF Written, Rows
<1>4. Retrying'
  BY DEF Written, Retrying
<1> QED
  BY <1>1, <1>2, <1>3, <1>4 DEF Written

\* A row is put where the session's or the worker's row was, or at the end.
LEMMA RowPut ==
  ASSUME Written, NEW n \in DOMAIN jobs \cup {None}, NEW j \in JobRow, NEW cols,
         PutRow(n, j, cols), UNCHANGED <<decisions, applied>>,
         j.dec \in DOMAIN decisions,
         j.status = "success" =>
           /\ n # None => jobs[n].dec = j.dec
           /\ \E v \in Writable(j.dec) : Instructions(v) \subseteq applied
  PROVE  /\ jobs' \in Seq(JobRow)
         /\ DOMAIN jobs \subseteq DOMAIN jobs'
         /\ \A i \in DOMAIN jobs : jobs'[i].dec = jobs[i].dec
         /\ Rows'
<1>0. jobs \in Seq(JobRow) /\ Rows
  BY DEF Written, TypeOK
<1> DEFINE Fine(r) == /\ r.dec \in DOMAIN decisions
                      /\ r.status = "success" =>
                           \E v \in Writable(r.dec) : Instructions(v) \subseteq applied
<1>1. \A i \in DOMAIN jobs : Fine(jobs[i])
  BY <1>0 DEF Rows
<1>2. ASSUME \A i \in DOMAIN jobs' : Fine(jobs'[i]) PROVE Rows'
  BY <1>2 DEF Rows, Writable, Instructions
<1>3. CASE n = None
  <2>1. jobs' = Append(jobs, j)
    BY <1>3 DEF PutRow
  <2>2. /\ jobs' \in Seq(JobRow) /\ DOMAIN jobs' = 1..(Len(jobs) + 1)
        /\ DOMAIN jobs = 1..Len(jobs) /\ Len(jobs) \in Nat
        /\ \A i \in DOMAIN jobs : jobs'[i] = jobs[i]
        /\ jobs'[Len(jobs) + 1] = j
    BY <1>0, <2>1
  <2>3. Fine(j)
    OBVIOUS
  <2> HIDE DEF Fine
  <2>4. \A i \in DOMAIN jobs' : Fine(jobs'[i])
    BY <1>1, <2>2, <2>3
  <2> QED
    BY <1>2, <2>2, <2>4
<1>4. CASE n # None
  <2> DEFINE r == Updated(jobs[n], j, cols)
  <2>1. jobs' = [jobs EXCEPT ![n] = r] /\ n \in 1..Len(jobs) /\ jobs[n] \in JobRow
    BY <1>0, <1>4 DEF PutRow
  <2>2. /\ r \in JobRow /\ r.dec = jobs[n].dec
        /\ r.status \in {j.status, jobs[n].status}
    BY <2>1 DEF Updated, JobRow
  <2>3. Fine(r)
    BY <1>1, <1>4, <2>1, <2>2
  <2> HIDE DEF r, Fine
  <2>4. jobs' \in Seq(JobRow) /\ DOMAIN jobs' = DOMAIN jobs
    BY <1>0, <2>1, <2>2, ExceptSeq
  <2>5. \A i \in DOMAIN jobs : jobs'[i] = IF i = n THEN r ELSE jobs[i]
    BY <1>0, <2>1
  <2> QED
    BY <1>1, <1>2, <2>2, <2>3, <2>4, <2>5
<1> QED
  BY <1>3, <1>4

\* What a session has done is one of these records.
After(s, ks, good, bad) ==
  [session[s] EXCEPT !.pc = "sending", !.left = @ \ ks, !.now = {}, !.good = good, !.bad = bad]

LEMMA OutcomeKept ==
  ASSUME Written, NEW s \in Sessions, session[s].pc # "idle", NEW ks \in SUBSET Keys,
         NEW good \in BOOLEAN, NEW bad \in BOOLEAN,
         session' = [session EXCEPT ![s] = After(s, ks, good, bad)],
         UNCHANGED <<decisions, stored, jobs, cache, fetched, kept, retry, applied>>,
         sent' \subseteq applied,
         session[s].pc # "filing",
         ~bad => ~session[s].bad /\ ks \subseteq applied
  PROVE  Written'
<1>1. TypeOK /\ Underway(s) /\ Good(s)
  BY DEF Written
<1> DEFINE x == After(s, ks, good, bad)
<1>2. /\ x \in Session /\ x.pc = "sending" /\ x.dec = session[s].dec /\ x.ver = session[s].ver
      /\ x.left = session[s].left \ ks /\ x.now = {} /\ x.bad = bad /\ x.row = session[s].row
  <2>1. session[s] \in Request
    BY <1>1, SessionFields
  <2> QED
    BY <2>1 DEF Request, Session, After
<1>3. session'[s] = x
  BY <1>1 DEF TypeOK
<1> HIDE DEF x
<1>4. Underway(s)'
  BY <1>1, <1>2, <1>3 DEF Underway, Writable, Instructions
<1>5. Good(s)'
  BY <1>1, <1>2, <1>3 DEF Good, Instructions
<1>6. session' = [session EXCEPT ![s] = x] /\ applied \in SUBSET Keys
  BY <1>1 DEF x, TypeOK
<1> QED
  BY <1>2, <1>4, <1>5, <1>6, SessionStep DEF Written

\* The two outcomes of an instruction, as the actions write them.
LEMMA OutcomeForms ==
  ASSUME TypeOK, NEW s \in Sessions, session[s].pc # "idle", NEW ks \in SUBSET Keys
  PROVE  /\ Succeeded(s, ks) =>
              session' = [session EXCEPT ![s] = After(s, ks, TRUE, session[s].bad)]
         /\ Failed(s, ks) =>
              session' = [session EXCEPT ![s] = After(s, ks, session[s].good, TRUE)]
<1>1. session[s] \in Request
  BY SessionFields
<1>2. session \in [Sessions -> Session]
  BY DEF TypeOK
<1>3. ASSUME Succeeded(s, ks)
      PROVE  session' = [session EXCEPT ![s] = After(s, ks, TRUE, session[s].bad)]
  BY <1>1, <1>2, <1>3 DEF Request, Succeeded, After
<1>4. ASSUME Failed(s, ks)
      PROVE  session' = [session EXCEPT ![s] = After(s, ks, session[s].good, TRUE)]
  BY <1>1, <1>2, <1>4 DEF Request, Failed, After
<1> QED
  BY <1>3, <1>4

-----------------------------------------------------------------------------

LEMMA RecordKeeps ==
  ASSUME Written, NEW p \in Plans, NEW v \in Versions, NEW o \in BOOLEAN, Record(v, o)
  PROVE  Written'
<1> DEFINE d == Len(decisions) + 1
<1>1. TypeOK
  BY DEF Written
<1>2. /\ d \in Decisions
      /\ decisions' = Append(decisions, [ver |-> v, override |-> o])
      /\ stored' \in {stored, stored \cup {d}} /\ cache' = d /\ kept' = kept \cup {v}
      /\ UNCHANGED <<jobs, fetched, sent, session, retry, applied>>
  BY <1>1, BoundsAssumption DEF Record, TypeOK, Decisions
<1>3. /\ decisions' \in Seq([ver : Versions, override : BOOLEAN])
      /\ Len(decisions') = d /\ DOMAIN decisions' = 1..d /\ DOMAIN decisions = 1..Len(decisions)
      /\ Len(decisions) \in Nat
      /\ \A i \in DOMAIN decisions : decisions'[i] = decisions[i]
  BY <1>1, <1>2 DEF TypeOK
<1>4. TypeOK'
  <2>1. Len(decisions') <= MaxDecisions
    BY <1>2, <1>3 DEF Decisions
  <2>2. /\ stored' \subseteq DOMAIN decisions' /\ cache' \in DOMAIN decisions' \cup {None}
        /\ fetched' \in DOMAIN decisions' \cup {None}
    BY <1>1, <1>2, <1>3 DEF TypeOK
  <2>3. kept' \subseteq Versions
    BY <1>1, <1>2 DEF TypeOK
  <2> QED
    BY <1>1, <1>2, <1>3, <2>1, <2>2, <2>3 DEF TypeOK
<1>5. DOMAIN decisions \subseteq DOMAIN decisions'
  BY <1>3
<1> HIDE DEF d
<1>6. ASSUME NEW s \in Sessions PROVE (Underway(s) /\ Good(s))'
  <2>1. Underway(s) /\ Good(s)
    BY DEF Written
  <2> QED
    BY <2>1, <1>2, <1>3, <1>5 DEF Underway, Good, Writable, Instructions
<1>7. \A k \in applied' :
        \E e \in DOMAIN decisions' : decisions'[e].ver = k[1] /\ ~decisions'[e].override
  BY <1>2, <1>3, <1>5 DEF Written
<1>8. Rows'
  <2> SUFFICES ASSUME NEW i \in DOMAIN jobs
               PROVE  /\ jobs[i].dec \in DOMAIN decisions'
                      /\ jobs[i].status = "success" =>
                           \E w \in Writable(jobs[i].dec)' : Instructions(w) \subseteq applied
    BY <1>2 DEF Rows, Instructions
  <2>1. Writable(jobs[i].dec)' = Writable(jobs[i].dec)
    BY <1>2, <1>3 DEF Written, Rows, Writable
  <2> QED
    BY <1>5, <2>1 DEF Written, Rows
<1>9. Retrying' /\ sent' \subseteq applied'
  BY <1>2, <1>5 DEF Written, Retrying
<1> QED
  BY <1>4, <1>6, <1>7, <1>8, <1>9 DEF Written

LEMMA ConfirmKeeps ==
  ASSUME Written, NEW p \in Plans, Accept(p) \/ Adjust(p) \/ Reject(p)
  PROVE  Written'
<1>1. <<p, None>> \in Versions
  BY DEF Versions
<1>2. ASSUME Adjust(p) PROVE <<p, Len(decisions) + 1>> \in Versions
  BY <1>2, BoundsAssumption DEF Adjust, Record, Versions, Decisions, Written, TypeOK
<1> QED
  BY <1>1, <1>2, RecordKeeps DEF Accept, Adjust, Reject

LEMMA GetKeeps ==
  ASSUME Written, FetchRecord \/ CacheRecord
  PROVE  Written'
<1>1. TypeOK'
  <2>1. CASE FetchRecord
    BY <2>1 DEF FetchRecord, Newest, Written, TypeOK
  <2>2. CASE CacheRecord
    BY <2>2 DEF CacheRecord, Written, TypeOK
  <2> QED
    BY <2>1, <2>2
<1> QED
  BY <1>1, RestKept DEF FetchRecord, CacheRecord, Written, Retrying

(* The candidate that a version was derived from is a version. *)
LEMMA CandidatesAreVersions ==
  ASSUME NEW w \in Versions
  PROVE  <<w[1], None>> \in Versions
BY DEF Versions

(* A decision record names a version. *)
LEMMA RecordsHaveVersions ==
  ASSUME TypeOK, NEW d \in DOMAIN decisions
  PROVE  decisions[d].ver \in Versions
<1> DEFINE R == [ver : Versions, override : BOOLEAN]
<1>1. decisions \in Seq(R)
  BY DEF TypeOK
<1>2. decisions[d] \in R
  <2> HIDE DEF R
  <2> QED
    BY <1>1, ElementOfSeq
<1> QED
  BY <1>2

LEMMA StartKeeps ==
  ASSUME Written, NEW s \in Sessions, StartWriteback(s)
  PROVE  Written'
<1>0. TypeOK
  BY DEF Written
<1>1. PICK d \in Current \ {None} :
        /\ ~decisions[d].override
        /\ session' = [session EXCEPT ![s] =
            [pc |-> "sending", dec |-> d, ver |-> PlanOf(d), left |-> Instructions(PlanOf(d)),
             now |-> {}, good |-> FALSE, bad |-> FALSE, row |-> None, cols |-> {}]]
  BY DEF StartWriteback
<1> DEFINE v == PlanOf(d)
           x == [pc |-> "sending", dec |-> d, ver |-> v, left |-> Instructions(v),
                 now |-> {}, good |-> FALSE, bad |-> FALSE, row |-> None, cols |-> {}]
<1>2. d \in DOMAIN decisions /\ d \in Decisions
  BY <1>0, BoundsAssumption DEF Current, Newest, TypeOK, Decisions
<1>3. v \in Versions
  <2>1. PICK w \in Versions : w = decisions[d].ver
    BY <1>0, <1>2, RecordsHaveVersions
  <2>2. <<w[1], None>> \in Versions
    BY CandidatesAreVersions
  <2> QED
    BY <2>1, <2>2 DEF PlanOf
<1>4. x \in Session
  BY <1>2, <1>3, InstructionsAreKeys DEF Session, Request, None
<1>5. session'[s] = x
  BY <1>0, <1>1 DEF TypeOK
<1>6. UNCHANGED <<decisions, stored, jobs, cache, fetched, kept, sent, retry, applied>>
  BY DEF StartWriteback
<1>7. Underway(s)' /\ Good(s)'
  <2>1. v \in Writable(d)
    BY DEF PlanOf, Writable
  <2> QED
    BY <1>1, <1>2, <1>5, <1>6, <2>1 DEF Underway, Good, Writable, Instructions
<1>8. session' = [session EXCEPT ![s] = x]
  BY <1>1
<1> HIDE DEF x
<1> QED
  BY <1>0, <1>4, <1>6, <1>7, <1>8, SessionStep DEF Written, TypeOK

LEMMA SkipKeeps ==
  ASSUME Written, NEW s \in Sessions, NEW k \in Keys, SkipSent(s, k)
  PROVE  Written'
<1>1. TypeOK /\ session[s].pc = "sending" /\ k \in applied /\ Succeeded(s, {k})
  BY DEF SkipSent, Written
<1>2. session[s].bad \in BOOLEAN
  BY <1>1, SessionFields
<1>3. session' = [session EXCEPT ![s] = After(s, {k}, TRUE, session[s].bad)]
  BY <1>1, OutcomeForms
<1> QED
  BY <1>1, <1>2, <1>3, OutcomeKept DEF SkipSent, Written

LEMMA RefuseKeeps ==
  ASSUME Written, NEW s \in Sessions, NEW k \in Keys, Refuse(s, k)
  PROVE  Written'
<1>1. TypeOK /\ session[s].pc = "sending" /\ Failed(s, {k})
  BY DEF Refuse, Written
<1>2. session[s].good \in BOOLEAN
  BY <1>1, SessionFields
<1>3. session' = [session EXCEPT ![s] = After(s, {k}, session[s].good, TRUE)]
  BY <1>1, OutcomeForms
<1> QED
  BY <1>1, <1>2, <1>3, OutcomeKept DEF Refuse, Written

LEMMA PostKeeps ==
  ASSUME Written, NEW s \in Sessions, NEW k \in Keys, Post(s, k)
  PROVE  Written'
<1>0. TypeOK /\ Underway(s) /\ Good(s)
  BY DEF Written
<1> DEFINE x == [session[s] EXCEPT !.pc = "waiting", !.now = {k}]
<1>1. /\ session[s].pc = "sending" /\ k \in session[s].left
      /\ decisions[session[s].dec].ver = session[s].ver
      /\ session' = [session EXCEPT ![s].pc = "waiting", ![s].now = {k}]
      /\ applied' \in {applied, applied \cup {k}}
      /\ UNCHANGED <<decisions, stored, jobs, cache, fetched, kept, sent, retry>>
  BY DEF Post, PermitCovers
<1>2. /\ x \in Session /\ x.pc = "waiting" /\ x.dec = session[s].dec /\ x.ver = session[s].ver
      /\ x.left = session[s].left /\ x.now = {k} /\ x.bad = session[s].bad
      /\ x.row = session[s].row
  <2>1. session[s] \in Request
    BY <1>0, <1>1, SessionFields
  <2> QED
    BY <2>1 DEF Request, Session
<1>3. session' = [session EXCEPT ![s] = x]
  BY <1>0, <1>1 DEF TypeOK
<1>4. session'[s] = x
  BY <1>0, <1>3 DEF TypeOK
<1> HIDE DEF x
<1>5. Underway(s)'
  BY <1>0, <1>1, <1>2, <1>4 DEF Underway, Writable, Instructions
<1>6. Good(s)'
  BY <1>0, <1>1, <1>2, <1>4 DEF Good, Instructions
<1>7. k[1] = session[s].ver
  BY <1>0, <1>1, SessionFields, InstructionsAreKeys DEF Underway
<1>8. \A q \in applied' : \E d \in DOMAIN decisions :
        decisions[d].ver = q[1] /\ ~decisions[d].override
  BY <1>0, <1>1, <1>7 DEF Underway, Written
<1>9. applied \subseteq applied' /\ applied' \subseteq Keys /\ sent' \subseteq applied'
  BY <1>0, <1>1 DEF TypeOK, Written
<1> QED
  BY <1>1, <1>2, <1>3, <1>5, <1>6, <1>8, <1>9, SessionStep

LEMMA AnswerKeeps ==
  ASSUME Written, NEW s \in Sessions, Answer(s) \/ NoAnswer(s)
  PROVE  Written'
<1>1. TypeOK /\ session[s].pc = "waiting" /\ session[s].now \in SUBSET Keys
      /\ session[s].good \in BOOLEAN /\ session[s].bad \in BOOLEAN
  BY SessionFields DEF Answer, NoAnswer, Written
<1>2. CASE Answer(s)
  <2>1. session[s].now \subseteq applied /\ Succeeded(s, session[s].now)
    BY <1>2 DEF Answer, Answered
  <2>2. session' = [session EXCEPT ![s] = After(s, session[s].now, TRUE, session[s].bad)]
    BY <1>1, <2>1, OutcomeForms
  <2>3. sent' \subseteq applied
    BY <1>2, <2>1 DEF Answer, Written
  <2>4. UNCHANGED <<decisions, stored, jobs, cache, fetched, kept, retry, applied>>
    BY <1>2 DEF Answer
  <2> QED
    BY <1>1, <2>1, <2>2, <2>3, <2>4, OutcomeKept
<1>3. CASE NoAnswer(s)
  <2>1. session' = [session EXCEPT ![s] = After(s, session[s].now, session[s].good, TRUE)]
    BY <1>1, <1>3, OutcomeForms DEF NoAnswer
  <2>2. UNCHANGED <<decisions, stored, jobs, cache, fetched, kept, sent, retry, applied>>
    BY <1>3 DEF NoAnswer
  <2> QED
    BY <1>1, <2>1, <2>2, OutcomeKept DEF Written
<1> QED
  BY <1>2, <1>3

LEMMA SelectKeeps ==
  ASSUME Written, NEW s \in Sessions, SelectRow(s)
  PROVE  Written'
<1>0. TypeOK /\ Underway(s) /\ Good(s)
  BY DEF Written
<1>1. PICK n \in RowOf(session[s].dec) :
        session' = [session EXCEPT ![s].pc = "filing", ![s].row = n,
                                   ![s].cols = Changed(n, Outcome(s))]
  BY DEF SelectRow
<1>2. /\ session[s].pc = "sending" /\ session[s].left = {}
      /\ UNCHANGED <<decisions, stored, jobs, cache, fetched, kept, sent, retry, applied>>
  BY DEF SelectRow
<1>3. /\ n \in DOMAIN jobs \cup {None} /\ n \in Nat
      /\ n # None => jobs[n].dec = session[s].dec
      /\ Changed(n, Outcome(s)) \subseteq Columns
  BY <1>0 DEF RowOf, Newest, TypeOK, None, Changed
<1> DEFINE x == [session[s] EXCEPT !.pc = "filing", !.row = n, !.cols = Changed(n, Outcome(s))]
<1>4. /\ x \in Session /\ x.pc = "filing" /\ x.dec = session[s].dec /\ x.ver = session[s].ver
      /\ x.left = {} /\ x.now = session[s].now /\ x.bad = session[s].bad /\ x.row = n
  <2>1. session[s] \in Request
    BY <1>0, <1>2, SessionFields
  <2> QED
    BY <1>2, <1>3, <2>1 DEF Request, Session
<1>5. session' = [session EXCEPT ![s] = x]
  BY <1>0, <1>1 DEF TypeOK
<1>6. session'[s] = x
  BY <1>0, <1>5 DEF TypeOK
<1> HIDE DEF x
<1>7. Underway(s)'
  BY <1>0, <1>2, <1>3, <1>4, <1>6 DEF Underway, Writable, Instructions
<1>8. Good(s)'
  BY <1>0, <1>2, <1>4, <1>6 DEF Good, Instructions
<1> QED
  BY <1>0, <1>2, <1>4, <1>5, <1>7, <1>8, SessionStep DEF Written, TypeOK

LEMMA ReportKeeps ==
  ASSUME Written, NEW s \in Sessions, Report(s)
  PROVE  Written'
<1> DEFINE j == Outcome(s)
<1>0. TypeOK /\ Underway(s) /\ Good(s)
  BY DEF Written
<1>1. /\ session[s].pc = "filing" /\ PutRow(session[s].row, j, session[s].cols)
      /\ session' = [session EXCEPT ![s] = Idle]
      /\ UNCHANGED <<decisions, stored, cache, fetched, kept, sent, retry, applied>>
  BY DEF Report
<1>2. /\ session[s].dec \in Decisions /\ session[s].ver \in Versions
      /\ session[s].good \in BOOLEAN /\ session[s].bad \in BOOLEAN
  BY <1>0, <1>1, SessionFields
<1>3. j \in JobRow /\ j.dec = session[s].dec /\ j.dec \in DOMAIN decisions
  BY <1>0, <1>1, <1>2 DEF Outcome, JobRow, Verdict, Verdicts, Underway
<1>4. j.status = "success" => \E v \in Writable(j.dec) : Instructions(v) \subseteq applied
  BY <1>0, <1>1, <1>3 DEF Outcome, Verdict, Underway, Good
<1>5. /\ session[s].row \in DOMAIN jobs \cup {None}
      /\ session[s].row # None => jobs[session[s].row].dec = j.dec
  BY <1>0, <1>1, <1>3 DEF Underway
<1> HIDE DEF j
<1>6. /\ jobs' \in Seq(JobRow) /\ DOMAIN jobs \subseteq DOMAIN jobs'
      /\ \A i \in DOMAIN jobs : jobs'[i].dec = jobs[i].dec
      /\ Rows'
  BY <1>1, <1>3, <1>4, <1>5, RowPut
<1>7. /\ session' \in [Sessions -> Session]
      /\ \A u \in Sessions : session'[u] \in {session[u], Idle}
  BY <1>0, <1>1, IdleFields DEF TypeOK
<1>8. TypeOK'
  BY <1>0, <1>1, <1>6, <1>7 DEF TypeOK
<1>9. ASSUME NEW u \in Sessions PROVE (Underway(u) /\ Good(u))'
  <2>1. Underway(u) /\ Good(u)
    BY DEF Written
  <2> QED
    BY <1>1, <1>6, <1>7, <2>1, IdleFields DEF Underway, Good, Writable, Instructions
<1>10. Retrying'
  BY <1>1, <1>6 DEF Written, Retrying
<1> QED
  BY <1>1, <1>6, <1>8, <1>9, <1>10 DEF Written

LEMMA CrashKeeps ==
  ASSUME Written, Crash
  PROVE  Written'
<1>1. TypeOK'
  BY IdleFields DEF Crash, Written, TypeOK
<1>2. \A s \in Sessions : session'[s].pc = "idle"
  BY IdleFields DEF Crash
<1>3. Rows' /\ Retrying'
  BY DEF Crash, Written, Rows, Retrying, Writable, Instructions
<1> QED
  BY <1>1, <1>2, <1>3 DEF Crash, Written, Underway, Good

LEMMA RetryFields ==
  ASSUME TypeOK, retry.pc # "idle"
  PROVE  /\ retry.dec \in Decisions /\ retry.ver \in Versions /\ retry.retries \in Nat
         /\ retry # Idle /\ retry \in Retry
BY DEF TypeOK, Retry, Idle

LEMMA RetryReadKeeps ==
  ASSUME Written, NEW d \in Decisions, RetryRead(d)
  PROVE  Written'
<1>0. TypeOK
  BY DEF Written
<1>1. NewestJob \in JobRow
  <2>1. PICK i \in DOMAIN jobs : jobs[i].dec = d
    BY DEF RetryRead
  <2>2. jobs \in Seq(JobRow) /\ Len(jobs) \in Nat /\ DOMAIN jobs = 1..Len(jobs)
    BY <1>0 DEF TypeOK
  <2>3. Len(jobs) \in DOMAIN jobs
    BY <2>1, <2>2
  <2> QED
    BY <2>2, <2>3 DEF NewestJob
<1>2. retry' \in Retry
  BY <1>1 DEF RetryRead, Retry, JobRow, None
<1>3. TypeOK'
  BY <1>0, <1>2 DEF TypeOK, RetryRead, memory
<1>4. Retrying'
  BY <1>0 DEF RetryRead, Retrying, TypeOK
<1> QED
  BY <1>3, <1>4, RestKept DEF RetryRead, memory

LEMMA RetrySelectKeeps ==
  ASSUME Written, RetrySelect
  PROVE  Written'
<1>0. TypeOK /\ Retrying
  BY DEF Written
<1>1. PICK n \in RowOf(retry.dec) :
        retry' = [retry EXCEPT !.pc = "filing", !.row = n, !.cols = Changed(n, RetryOutcome)]
  BY DEF RetrySelect
<1>2. retry.pc = "sending" /\ UNCHANGED <<decisions, stored, jobs, memory, applied>>
  BY DEF RetrySelect
<1>3. /\ n \in DOMAIN jobs \cup {None} /\ n \in Nat
      /\ Changed(n, RetryOutcome) \subseteq Columns
  BY <1>0 DEF RowOf, Newest, TypeOK, None, Changed
<1>4. retry' \in Retry /\ retry'.dec = retry.dec /\ retry'.row = n
  <2>1. retry \in [pc : {"sending", "filing"}, dec : Decisions, ver : Versions,
                   retries : Nat, row : Nat, cols : SUBSET Columns]
    BY <1>2, RetryFields, <1>0 DEF Retry
  <2> QED
    BY <1>1, <1>3, <2>1 DEF Retry
<1>5. TypeOK'
  BY <1>0, <1>2, <1>4 DEF TypeOK, memory
<1>6. Retrying'
  BY <1>0, <1>2, <1>3, <1>4 DEF Retrying
<1> QED
  BY <1>2, <1>5, <1>6, RestKept DEF memory

LEMMA RetryWriteKeeps ==
  ASSUME Written, RetryWrite
  PROVE  Written'
<1> DEFINE j == RetryOutcome
<1>0. TypeOK /\ Retrying
  BY DEF Written
<1>1. /\ retry.pc = "filing" /\ PutRow(retry.row, j, retry.cols) /\ retry' = Idle
      /\ UNCHANGED <<decisions, stored, cache, fetched, kept, sent, session, applied>>
  BY DEF RetryWrite, memory
<1>2. /\ retry.row \in DOMAIN jobs \cup {None} /\ j \in JobRow
      /\ j.dec \in DOMAIN decisions /\ j.status # "success"
  BY <1>0, <1>1, RetryFields DEF Retrying, RetryOutcome, JobRow, Verdicts
<1> HIDE DEF j
<1>3. /\ jobs' \in Seq(JobRow) /\ DOMAIN jobs \subseteq DOMAIN jobs'
      /\ \A i \in DOMAIN jobs : jobs'[i].dec = jobs[i].dec
      /\ Rows'
  BY <1>1, <1>2, RowPut
<1>4. TypeOK'
  BY <1>0, <1>1, <1>3, IdleFields DEF TypeOK
<1>5. ASSUME NEW u \in Sessions PROVE (Underway(u) /\ Good(u))'
  <2>1. Underway(u) /\ Good(u)
    BY DEF Written
  <2> QED
    BY <1>1, <1>3, <2>1 DEF Underway, Good, Writable, Instructions
<1>6. Retrying'
  BY <1>1, IdleFields DEF Retrying
<1> QED
  BY <1>1, <1>3, <1>4, <1>5, <1>6 DEF Written

LEMMA WorkerCrashKeeps ==
  ASSUME Written, WorkerCrash
  PROVE  Written'
<1>1. TypeOK' /\ Retrying'
  BY IdleFields DEF Written, WorkerCrash, TypeOK, Retrying, memory
<1> QED
  BY <1>1, RestKept DEF WorkerCrash, memory

-----------------------------------------------------------------------------

\* The invariant holds in every reachable state.
THEOREM WritebackGoverned == Spec => []Written
<1>1. Written /\ [Next]_vars => Written'
  <2> SUFFICES ASSUME Written, [Next]_vars PROVE Written'
    OBVIOUS
  <2>1. ASSUME NEW p \in Plans, Accept(p) \/ Adjust(p) \/ Reject(p) PROVE Written'
    BY <2>1, ConfirmKeeps
  <2>2. ASSUME NEW s \in Sessions,
               \/ StartWriteback(s) \/ Answer(s) \/ NoAnswer(s) \/ SelectRow(s) \/ Report(s)
               \/ \E k \in Keys : SkipSent(s, k) \/ Refuse(s, k) \/ Post(s, k)
        PROVE  Written'
    BY <2>2, StartKeeps, AnswerKeeps, SelectKeeps, ReportKeeps, SkipKeeps, RefuseKeeps, PostKeeps
  <2>3. CASE UNCHANGED vars
    <3>1. TypeOK' /\ Retrying'
      BY <2>3 DEF vars, memory, Written, TypeOK, Retrying
    <3> QED
      BY <2>3, <3>1, RestKept DEF vars, memory
  <2> QED
    BY <2>1, <2>2, <2>3, GetKeeps, RetryReadKeeps, RetrySelectKeeps, RetryWriteKeeps,
       WorkerCrashKeeps, CrashKeeps DEF Next
<1> QED
  BY <1>1, InitWritten, PTL DEF Spec

\* Every request is well formed: persisted rows, records and sessions have the
\* types their readers expect.
THEOREM WritebackTypeOK == Spec => []TypeOK
<1>1. Written => TypeOK
  BY DEF Written
<1> QED
  BY <1>1, WritebackGoverned, PTL

\* The MES never gets another plan than the one a decision confirmed.
THEOREM OnlyConfirmedPlansWritten == Spec => []WrittenAsConfirmed
<1>1. Written => WrittenAsConfirmed
  <2> SUFFICES ASSUME Written, NEW k \in applied \cup Waiting
               PROVE \E d \in DOMAIN decisions :
                       decisions[d].ver = k[1] /\ ~decisions[d].override
    BY DEF WrittenAsConfirmed
  <2>1. CASE k \in applied
    BY <2>1 DEF Written
  <2>2. CASE k \in Waiting
    <3>1. PICK s \in Sessions : session[s].pc # "idle" /\ k \in session[s].now
      BY <2>2 DEF Waiting
    <3>2. TypeOK /\ Underway(s)
      BY DEF Written
    <3>3. session[s].ver \in Versions
      BY <3>1, <3>2, SessionFields
    <3>4. k[1] = session[s].ver
      BY <3>1, <3>2, <3>3, InstructionsAreKeys DEF Underway
    <3> QED
      BY <3>1, <3>2, <3>4 DEF Underway
  <2> QED
    BY <2>1, <2>2
<1> QED
  BY <1>1, WritebackGoverned, PTL

\* Success means applied: what a session files as a success the MES has applied,
\* and a decision with a successful job had one of its versions applied, even
\* though an update of a job row writes single columns of it.
THEOREM SuccessIsApplied == Spec => []SuccessMeansApplied
<1>1. ASSUME Written PROVE SuccessMeansApplied
  <2>1. ASSUME NEW s \in Sessions, session[s].pc = "filing", Outcome(s).status = "success"
        PROVE  Instructions(session[s].ver) \subseteq applied
    <3>1. ~session[s].bad /\ session[s].left = {}
      BY <1>1, <2>1 DEF Written, Underway, Outcome, Verdict
    <3> QED
      BY <1>1, <2>1, <3>1 DEF Written, Good
  <2> QED
    BY <1>1, <2>1 DEF Written, Rows, SuccessMeansApplied
<1> QED
  BY <1>1, WritebackGoverned, PTL
===============================================================================
