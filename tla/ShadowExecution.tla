---------------------------- MODULE ShadowExecution ----------------------------
(***************************************************************************)
(* Read-only shadow cases: a recommendation is recorded, a planner decides *)
(* on it, and the receipts the MES sends close the case against what was   *)
(* recommended (ReadOnlyShadowRunner over the operational store).          *)
(*                                                                         *)
(* Every store call is one transaction.  The runner makes several of them  *)
(* for a request and holds nothing in between: it reads the case, adds     *)
(* the receipts one at a time, lists them, overwrites the case with a copy *)
(* of what it read, and stores the closure evidence.  Requests run in the  *)
(* server's thread pool, so their steps interleave.                        *)
(*                                                                         *)
(* One tenant: receipts are unique by (tenant, source_event_id) and a      *)
(* request for another tenant is refused before it changes anything.  A    *)
(* fingerprint is a hash of the previous one and of what was added; it is  *)
(* the sequence of the things added to that of the solve, so equal only    *)
(* when these are.                                                         *)
(***************************************************************************)
EXTENDS Naturals, Sequences, FiniteSets

CONSTANTS
  Cases,
  Ops,
  Expected,   \* [Cases -> SUBSET Ops]: expected_terminal_operation_ids
  Infeasible, \* the cases whose solve is not feasible
  Receipts,   \* the receipts the MES may send
  Batches,    \* the receipt lists of the requests
  Decisions,  \* planner decisions
  Calls,      \* slots for requests in progress
  MaxChain,   \* bound: no request starts on a case hashed this many times
  None

Receipt == [case: Cases, op: Ops, terminal: BOOLEAN, event: Nat]

ASSUME ShadowConstants ==
  /\ Expected \in [Cases -> SUBSET Ops]
  /\ Infeasible \subseteq Cases
  /\ Receipts \subseteq Receipt
  /\ Batches \subseteq Seq(Receipts)
  /\ MaxChain \in Nat
  /\ None \notin Cases
  /\ None \notin Decisions

\* The operators named Mut... are the mutated forms that show a property is
\* sensitive to the code; nothing uses them.

VARIABLES
  status,   \* the case rows: status, planner_decision, receipts,
  decision, \*   evidence_fingerprint
  copy,
  chain,
  stored,   \* the receipt rows
  evidence, \* fingerprint and receipts of "shadow-execution:<case>", or None
  pc,       \* requests: where each is, its case,
  on,
  read,     \*   the row it read,
  batch,    \*   the receipts it has still to add,
  listed    \*   the receipts it listed

rows  == <<status, decision, copy, chain>>
store == <<rows, stored, evidence>>
local == <<pc, on, read, batch, listed>>
vars  == <<store, local>>

Status == {"absent", "recommendation_ready", "blocked",
           "awaiting_execution", "execution_closed"}
Executing == {"awaiting_execution", "execution_closed"}

Entry == [decided: Decisions \cup {None}, receipts: SUBSET Receipts]
Row   == [decision: Decisions \cup {None}, copy: SUBSET Receipts, chain: Seq(Entry)]
Blank == [decision |-> None, copy |-> {}, chain |-> <<>>]

TypeOK ==
  /\ status \in [Cases -> Status]
  /\ decision \in [Cases -> Decisions \cup {None}]
  /\ copy \in [Cases -> SUBSET Receipts]
  /\ chain \in [Cases -> Seq(Entry)]
  /\ stored \subseteq Receipts
  /\ evidence \in [Cases -> {None} \cup [chain: Seq(Entry), receipts: SUBSET Receipts]]
  /\ pc \in [Calls -> {"idle", "deciding", "adding", "listed", "closing"}]
  /\ on \in [Calls -> Cases \cup {None}]
  /\ read \in [Calls -> Row]
  /\ batch \in [Calls -> Seq(Receipts)]
  /\ listed \in [Calls -> SUBSET Receipts]

Init ==
  /\ status = [c \in Cases |-> "absent"]
  /\ decision = [c \in Cases |-> None]
  /\ copy = [c \in Cases |-> {}]
  /\ chain = [c \in Cases |-> <<>>]
  /\ stored = {}
  /\ evidence = [c \in Cases |-> None]
  /\ pc = [k \in Calls |-> "idle"]
  /\ on = [k \in Calls |-> None]
  /\ read = [k \in Calls |-> Blank]
  /\ batch = [k \in Calls |-> <<>>]
  /\ listed = [k \in Calls |-> {}]

-----------------------------------------------------------------------------

TerminalOps(S) == {r.op : r \in {q \in S : q.terminal}}

MutCloses(c, S) == TerminalOps(S) # {}
Closes(c, S) == Expected[c] # {} /\ Expected[c] \subseteq TerminalOps(S)

ReceiptsOf(c) == {r \in stored : r.case = c}

\* run: the id of a case is new, so there is nothing to interleave with.
MutRun(c) ==
  /\ status[c] = "absent"
  /\ status' = [status EXCEPT ![c] = "feasible"]
  /\ UNCHANGED <<decision, copy, chain, stored, evidence, local>>
Run(c) ==
  /\ status[c] = "absent"
  /\ status' = [status EXCEPT ![c] = IF c \in Infeasible THEN "blocked"
                                     ELSE "recommendation_ready"]
  /\ UNCHANGED <<decision, copy, chain, stored, evidence, local>>

\* _require_case: a request starts with a copy of the row.
MutMayDecide(c) == TRUE
MayDecide(c) == status[c] # "blocked"
MayIngest(c) == status[c] \in Executing

Begin(k, c, at, b) ==
  /\ pc[k] = "idle"
  /\ status[c] # "absent"
  /\ Len(chain[c]) < MaxChain
  /\ pc' = [pc EXCEPT ![k] = at]
  /\ on' = [on EXCEPT ![k] = c]
  /\ read' = [read EXCEPT ![k] = [decision |-> decision[c], copy |-> copy[c],
                                  chain |-> chain[c]]]
  /\ batch' = [batch EXCEPT ![k] = b]
  /\ UNCHANGED <<store, listed>>

BeginDecision(k, c) == MayDecide(c) /\ Begin(k, c, "deciding", <<>>)
BeginIngest(k, c) == \E b \in Batches : MayIngest(c) /\ Begin(k, c, "adding", b)

\* The request ends: answered, refused with an error, or cut off by a crash.
\* None of them undoes what it has stored.
End(k) ==
  /\ pc' = [pc EXCEPT ![k] = "idle"]
  /\ on' = [on EXCEPT ![k] = None]
  /\ read' = [read EXCEPT ![k] = Blank]
  /\ batch' = [batch EXCEPT ![k] = <<>>]
  /\ listed' = [listed EXCEPT ![k] = {}]

\* upsert_shadow_case: the row becomes what the request read but for what it
\* changes, whatever others have written since.
Upsert(k, s, d, S, entry) ==
  LET c == on[k]
  IN  /\ status' = [status EXCEPT ![c] = s]
      /\ decision' = [decision EXCEPT ![c] = d]
      /\ copy' = [copy EXCEPT ![c] = S]
      /\ chain' = [chain EXCEPT ![c] = Append(read[k].chain, entry)]
      /\ UNCHANGED <<stored, evidence>>

\* The rest of record_planner_decision.
Decide(k, d) ==
  /\ pc[k] = "deciding"
  /\ Upsert(k, "awaiting_execution", d, read[k].copy, [decided |-> d, receipts |-> {}])
  /\ End(k)

\* One turn of the loop of ingest_receipts.  A receipt for another case ends
\* the request; those before it stay.  add_execution_receipt skips a receipt
\* whose event the tenant has reported before.
MutIsReported(r) == FALSE
IsReported(r) == \E q \in stored : q.event = r.event

AddReceipt(k) ==
  LET r == Head(batch[k])
  IN  /\ pc[k] = "adding"
      /\ batch[k] # <<>>
      /\ \/ /\ r.case # on[k]
            /\ End(k)
            /\ UNCHANGED store
         \/ /\ r.case = on[k]
            /\ stored' = IF IsReported(r) THEN stored ELSE stored \cup {r}
            /\ batch' = [batch EXCEPT ![k] = Tail(@)]
            /\ UNCHANGED <<rows, evidence, pc, on, read, listed>>

List(k) ==
  /\ pc[k] = "adding"
  /\ batch[k] = <<>>
  /\ listed' = [listed EXCEPT ![k] = ReceiptsOf(on[k])]
  /\ pc' = [pc EXCEPT ![k] = "listed"]
  /\ UNCHANGED <<store, on, read, batch>>

\* The case is written back, closed if the listed receipts settle every
\* expected operation and open again if they do not.
Save(k) ==
  LET S == listed[k]
      closed == Closes(on[k], S)
  IN  /\ pc[k] = "listed"
      /\ Upsert(k, IF closed THEN "execution_closed" ELSE "awaiting_execution",
                read[k].decision, S, [decided |-> None, receipts |-> S])
      /\ IF closed
         THEN /\ pc' = [pc EXCEPT ![k] = "closing"]
              /\ read' = [read EXCEPT ![k].chain = chain'[on[k]]]
              /\ UNCHANGED <<on, batch, listed>>
         ELSE End(k)

\* put_evidence: nothing is overwritten; other evidence under the same id
\* makes the request fail.
MutPutEvidence(k) ==
  /\ pc[k] = "closing"
  /\ evidence' = [evidence EXCEPT ![on[k]] = [chain |-> read[k].chain, receipts |-> listed[k]]]
  /\ End(k)
  /\ UNCHANGED <<rows, stored>>
PutEvidence(k) ==
  /\ pc[k] = "closing"
  /\ evidence' = [evidence EXCEPT ![on[k]] =
                    IF @ = None THEN [chain |-> read[k].chain, receipts |-> listed[k]] ELSE @]
  /\ End(k)
  /\ UNCHANGED <<rows, stored>>

Crash(k) ==
  /\ pc[k] # "idle"
  /\ End(k)
  /\ UNCHANGED store

-----------------------------------------------------------------------------

Next ==
  \/ \E c \in Cases : Run(c)
  \/ \E k \in Calls :
       \/ \E c \in Cases : BeginDecision(k, c) \/ BeginIngest(k, c)
       \/ \E d \in Decisions : Decide(k, d)
       \/ AddReceipt(k) \/ List(k) \/ Save(k) \/ PutEvidence(k) \/ Crash(k)

Spec == Init /\ [][Next]_vars

-----------------------------------------------------------------------------
(* Properties.                                                             *)

\* completion report, section 6: a case closes, and its closure evidence is
\* filed, only after terminal receipts of all its expected operations are
\* stored, however requests interleave, fail halfway or crash; and the
\* evidence lists no receipt that is not stored.
ClosedOnlyWhenComplete ==
  \A c \in Cases :
    /\ status[c] = "execution_closed" => Expected[c] \subseteq TerminalOps(ReceiptsOf(c))
    /\ evidence[c] # None => /\ Expected[c] \subseteq TerminalOps(evidence[c].receipts)
                             /\ evidence[c].receipts \subseteq ReceiptsOf(c)

\* completion report, section 6: the planner's decision is stored before any
\* execution is compared, so no receipt or evidence exists for a case without
\* one, and a blocked case never gets either; a stale write of the case by a
\* concurrent request does not take the decision away.
DecisionPrecedesExecution ==
  \A c \in Cases :
    \/ ReceiptsOf(c) # {}
    \/ evidence[c] # None
    \/ status[c] \in Executing
    => decision[c] # None /\ c \notin Infeasible

\* Closure evidence is never replaced, although requests that race or repeat
\* after closure compute another fingerprint for the same case.
EvidenceIsFinal ==
  [][\A c \in Cases : evidence[c] # None => evidence'[c] = evidence[c]]_vars

\* An event of the MES is counted once, however often and however concurrently
\* it is delivered, so what the rows and the evidence hold has one receipt an
\* event.
EventsCountOnce ==
  \A c \in Cases :
    \A S \in {stored, copy[c]} : \A q, r \in S : q.event = r.event => q = r
=============================================================================
