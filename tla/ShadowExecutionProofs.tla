------------------------- MODULE ShadowExecutionProofs -------------------------
(***************************************************************************)
(* Proofs about shadow cases, for any cases, receipts and batches, any     *)
(* number of concurrent requests and any bound on the fingerprint chain.   *)
(***************************************************************************)
EXTENDS ShadowExecution, TLAPS

Ingesting == {"adding", "listed", "closing"}

\* What a request in progress relies on: its case was recommended and is
\* feasible; when it ingests, the planner had decided; what it read and listed
\* is stored; and it files evidence for a complete list only.
RequestShape ==
  \A k \in Calls :
    /\ pc[k] # "idle" => on[k] \in Cases /\ on[k] \notin Infeasible /\ status[on[k]] # "absent"
    /\ pc[k] \in Ingesting => read[k].decision # None /\ decision[on[k]] # None
    /\ read[k].copy \subseteq stored
    /\ listed[k] \subseteq stored
    /\ pc[k] \in {"listed", "closing"} => listed[k] \subseteq ReceiptsOf(on[k])
    /\ pc[k] = "closing" => Expected[on[k]] \subseteq TerminalOps(listed[k])

\* What the rows rely on.
RowShape ==
  /\ \A c \in Cases : /\ copy[c] \subseteq stored
                      /\ status[c] \in {"recommendation_ready"} \cup Executing => c \notin Infeasible
                      /\ status[c] = "blocked" => c \in Infeasible
  /\ \A q, r \in stored : q.event = r.event => q = r

\* The inductive invariant.
Sound == /\ TypeOK
         /\ RequestShape
         /\ RowShape
         /\ ClosedOnlyWhenComplete
         /\ DecisionPrecedesExecution

LEMMA TypedRead ==
  ASSUME TypeOK, NEW k \in Calls
  PROVE  /\ read[k].decision \in Decisions \cup {None}
         /\ read[k].copy \subseteq Receipts
         /\ read[k].chain \in Seq(Entry)
  BY DEF TypeOK, Row

LEMMA BlankIsRow == Blank \in Row
  BY DEF Blank, Row

LEMMA ReceiptFields == \A r \in Receipts : r.case \in Cases
  BY ShadowConstants DEF Receipt

LEMMA MoreReceiptsSettleMore ==
  \A S, T : S \subseteq T => TerminalOps(S) \subseteq TerminalOps(T)
  BY DEF TerminalOps

LEMMA InitSound == Init => Sound
  BY BlankIsRow, ShadowConstants
  DEF Init, Sound, TypeOK, RequestShape, RowShape, ClosedOnlyWhenComplete,
      DecisionPrecedesExecution, ReceiptsOf, Ingesting, Executing, Status, Blank

-----------------------------------------------------------------------------
(* A request that ends leaves a sound local state.                         *)

LEMMA EndTyped ==
  ASSUME TypeOK, NEW k \in Calls, End(k)
  PROVE  /\ pc' \in [Calls -> {"idle", "deciding", "adding", "listed", "closing"}]
         /\ on' \in [Calls -> Cases \cup {None}]
         /\ read' \in [Calls -> Row]
         /\ batch' \in [Calls -> Seq(Receipts)]
         /\ listed' \in [Calls -> SUBSET Receipts]
  BY BlankIsRow DEF End, TypeOK

\* Steps that leave the store as it is.
LEMMA LocalStepSound ==
  ASSUME Sound, UNCHANGED store, TypeOK', RequestShape' PROVE Sound'
  BY DEF Sound, store, rows, RowShape, ClosedOnlyWhenComplete, DecisionPrecedesExecution,
         ReceiptsOf

LEMMA CrashSound == ASSUME Sound, NEW k \in Calls, Crash(k) PROVE Sound'
<1>1. End(k) /\ UNCHANGED store
  BY DEF Crash
<1>2. TypeOK'
  BY <1>1, EndTyped DEF Sound, TypeOK, store, rows
<1>3. RequestShape'
  BY <1>1 DEF Sound, TypeOK, RequestShape, End, store, rows, Blank, Ingesting, ReceiptsOf
<1> QED BY <1>1, <1>2, <1>3, LocalStepSound

LEMMA BeginSound ==
  ASSUME Sound, NEW k \in Calls, NEW c \in Cases, NEW b \in Seq(Receipts), NEW at \in {"deciding", "adding"},
         Begin(k, c, at, b), c \notin Infeasible, at = "adding" => decision[c] # None
  PROVE  Sound'
<1>1. UNCHANGED store /\ UNCHANGED listed
  BY DEF Begin
<1> DEFINE row == [decision |-> decision[c], copy |-> copy[c], chain |-> chain[c]]
<1>2. row \in Row
  BY DEF Sound, TypeOK, Row
<1>3. TypeOK'
  BY <1>1, <1>2 DEF Begin, Sound, TypeOK, store, rows
<1>4. RequestShape'
  <2> SUFFICES ASSUME NEW u \in Calls
      PROVE  /\ pc'[u] # "idle" => on'[u] \in Cases /\ on'[u] \notin Infeasible /\ status[on'[u]] # "absent"
             /\ pc'[u] \in Ingesting => read'[u].decision # None /\ decision[on'[u]] # None
             /\ read'[u].copy \subseteq stored
             /\ listed[u] \subseteq stored
             /\ pc'[u] \in {"listed", "closing"} => listed[u] \subseteq ReceiptsOf(on'[u])
             /\ pc'[u] = "closing" => Expected[on'[u]] \subseteq TerminalOps(listed[u])
    BY <1>1 DEF RequestShape, store, rows, ReceiptsOf
  <2>1. CASE u # k
    BY <2>1 DEF Begin, Sound, TypeOK, RequestShape
  <2>2. CASE u = k
    <3>1. pc'[u] = at /\ on'[u] = c /\ read'[u] = row /\ status[c] # "absent"
      BY <2>2 DEF Begin, Sound, TypeOK
    <3>2. row.decision = decision[c] /\ row.copy \subseteq stored /\ listed[u] \subseteq stored
      BY DEF Sound, RowShape, RequestShape
    <3> QED BY <3>1, <3>2 DEF Ingesting
  <2> QED BY <2>1, <2>2
<1> QED BY <1>1, <1>3, <1>4, LocalStepSound

LEMMA BeginDecisionSound ==
  ASSUME Sound, NEW k \in Calls, NEW c \in Cases, BeginDecision(k, c) PROVE Sound'
<1>1. c \notin Infeasible
  BY DEF BeginDecision, Begin, MayDecide, Sound, TypeOK, Status, Executing, RowShape
<1>2. <<>> \in Seq(Receipts)
  OBVIOUS
<1> QED BY <1>1, <1>2, BeginSound DEF BeginDecision

LEMMA BeginIngestSound ==
  ASSUME Sound, NEW k \in Calls, NEW c \in Cases, BeginIngest(k, c) PROVE Sound'
<1>1. decision[c] # None /\ c \notin Infeasible
  BY DEF BeginIngest, MayIngest, Sound, DecisionPrecedesExecution
<1>2. PICK b \in Batches : Begin(k, c, "adding", b)
  BY DEF BeginIngest
<1>3. b \in Seq(Receipts)
  BY ShadowConstants
<1> QED BY <1>1, <1>2, <1>3, BeginSound

LEMMA ListSound == ASSUME Sound, NEW k \in Calls, List(k) PROVE Sound'
<1>1. UNCHANGED store
  BY DEF List
<1>2. TypeOK'
  BY <1>1 DEF List, Sound, TypeOK, store, rows, ReceiptsOf
<1>3. RequestShape'
  BY <1>1 DEF List, Sound, TypeOK, store, rows, RequestShape, ReceiptsOf, Ingesting
<1> QED BY <1>1, <1>2, <1>3, LocalStepSound

-----------------------------------------------------------------------------
(* Steps that write the store.                                             *)

LEMMA RunSound == ASSUME Sound, NEW c \in Cases, Run(c) PROVE Sound'
<1>1. /\ status[c] = "absent" /\ UNCHANGED <<decision, copy, chain, stored, evidence, local>>
      /\ status' = [status EXCEPT ![c] = IF c \in Infeasible THEN "blocked"
                                         ELSE "recommendation_ready"]
  BY DEF Run
<1>2. TypeOK'
  BY <1>1 DEF Sound, TypeOK, local, Status
<1>3. RequestShape'
  BY <1>1 DEF Sound, TypeOK, RequestShape, local, ReceiptsOf
<1>4. RowShape'
  BY <1>1 DEF Sound, TypeOK, RowShape, Executing
<1>5. ClosedOnlyWhenComplete'
  BY <1>1 DEF Sound, TypeOK, ClosedOnlyWhenComplete, ReceiptsOf
<1>6. DecisionPrecedesExecution'
  BY <1>1 DEF Sound, TypeOK, DecisionPrecedesExecution, ReceiptsOf, Executing
<1> QED BY <1>2, <1>3, <1>4, <1>5, <1>6 DEF Sound

\* One receipt is added to a case that executes.
LEMMA AddReceiptSound == ASSUME Sound, NEW k \in Calls, AddReceipt(k) PROVE Sound'
<1> DEFINE r == Head(batch[k])
<1>1. pc[k] = "adding" /\ batch[k] # <<>> /\ batch[k] \in Seq(Receipts)
  BY DEF AddReceipt, Sound, TypeOK
<1>2. r \in Receipts /\ Tail(batch[k]) \in Seq(Receipts)
  BY <1>1
<1>3. on[k] \in Cases /\ on[k] \notin Infeasible /\ decision[on[k]] # None
  BY <1>1 DEF Sound, RequestShape, Ingesting
<1>4. CASE r.case # on[k]
  <2>1. End(k) /\ UNCHANGED store
    BY <1>4 DEF AddReceipt
  <2>2. TypeOK'
    BY <2>1, EndTyped DEF Sound, TypeOK, store, rows
  <2>3. RequestShape'
    BY <2>1 DEF Sound, TypeOK, RequestShape, End, store, rows, Blank, Ingesting, ReceiptsOf
  <2> QED BY <2>1, <2>2, <2>3, LocalStepSound
<1>5. CASE r.case = on[k]
  <2>1. /\ stored' = IF IsReported(r) THEN stored ELSE stored \cup {r}
        /\ batch' = [batch EXCEPT ![k] = Tail(batch[k])]
        /\ UNCHANGED <<rows, evidence, pc, on, read, listed>>
    BY <1>5 DEF AddReceipt
  <2>2. stored \subseteq stored' /\ \A q \in stored' : q \in stored \/ q = r
    BY <2>1
  <2>3. TypeOK'
    BY <1>2, <2>1 DEF Sound, TypeOK, rows
  <2>4. \A c \in Cases : ReceiptsOf(c) \subseteq ReceiptsOf(c)'
    BY <2>2 DEF ReceiptsOf
  <2>5. RequestShape'
    <3> SUFFICES ASSUME NEW u \in Calls
        PROVE  /\ pc[u] # "idle" => on[u] \in Cases /\ on[u] \notin Infeasible /\ status[on[u]] # "absent"
               /\ pc[u] \in Ingesting => read[u].decision # None /\ decision[on[u]] # None
               /\ read[u].copy \subseteq stored'
               /\ listed[u] \subseteq stored'
               /\ pc[u] \in {"listed", "closing"} => listed[u] \subseteq ReceiptsOf(on[u])'
               /\ pc[u] = "closing" => Expected[on[u]] \subseteq TerminalOps(listed[u])
      BY <2>1 DEF RequestShape, rows, ReceiptsOf
    <3>1. pc[u] # "idle" => on[u] \in Cases
      BY DEF Sound, RequestShape
    <3> QED BY <2>1, <2>2, <2>4, <3>1 DEF Sound, RequestShape, ReceiptsOf
  <2>6. RowShape'
    <3>1. \A p, q \in stored' : p.event = q.event => p = q
      BY <2>1 DEF IsReported, Sound, RowShape
    <3> QED BY <2>1, <2>2, <3>1 DEF Sound, RowShape, rows
  <2>7. ClosedOnlyWhenComplete'
    <3> SUFFICES ASSUME NEW c \in Cases
        PROVE  /\ status[c] = "execution_closed" => Expected[c] \subseteq TerminalOps(ReceiptsOf(c)')
               /\ evidence[c] # None => /\ Expected[c] \subseteq TerminalOps(evidence[c].receipts)
                                        /\ evidence[c].receipts \subseteq ReceiptsOf(c)'
      BY <2>1 DEF ClosedOnlyWhenComplete, rows, TerminalOps
    <3>1. TerminalOps(ReceiptsOf(c)) \subseteq TerminalOps(ReceiptsOf(c)')
      BY <2>4, MoreReceiptsSettleMore
    <3> QED BY <2>4, <3>1 DEF Sound, ClosedOnlyWhenComplete
  <2>8. DecisionPrecedesExecution'
    <3> SUFFICES ASSUME NEW c \in Cases, ReceiptsOf(c)' # {} \/ evidence[c] # None \/ status[c] \in Executing
                 PROVE  decision[c] # None /\ c \notin Infeasible
      BY <2>1 DEF DecisionPrecedesExecution, rows
    <3>1. CASE c = on[k]
      BY <1>3, <3>1
    <3>2. CASE c # on[k]
      <4>1. ReceiptsOf(c)' = ReceiptsOf(c)
        BY <1>5, <2>1, <3>2 DEF ReceiptsOf
      <4> QED BY <4>1 DEF Sound, DecisionPrecedesExecution
    <3> QED BY <3>1, <3>2
  <2> QED BY <2>3, <2>5, <2>6, <2>7, <2>8 DEF Sound
<1> QED BY <1>4, <1>5

\* The case row is overwritten with what the request read, but for its status,
\* decision and receipts.
LEMMA UpsertSound ==
  ASSUME Sound, NEW k \in Calls, NEW s \in Executing, NEW d \in Decisions,
         NEW S \in SUBSET stored, NEW entry \in Entry,
         pc[k] # "idle", Upsert(k, s, d, S, entry),
         s = "execution_closed" => Expected[on[k]] \subseteq TerminalOps(ReceiptsOf(on[k]))
  PROVE  /\ TypeOK => /\ status' \in [Cases -> Status]
                      /\ decision' \in [Cases -> Decisions \cup {None}]
                      /\ copy' \in [Cases -> SUBSET Receipts]
                      /\ chain' \in [Cases -> Seq(Entry)]
         /\ UNCHANGED <<stored, evidence>>
         /\ \A c \in Cases : status[c] # "absent" => status'[c] # "absent"
         /\ \A c \in Cases : decision[c] # None => decision'[c] # None
         /\ RowShape' /\ ClosedOnlyWhenComplete' /\ DecisionPrecedesExecution'
<1> DEFINE c0 == on[k]
<1>1. c0 \in Cases /\ c0 \notin Infeasible /\ d # None
  BY ShadowConstants DEF Sound, RequestShape
<1>2. /\ status' = [status EXCEPT ![c0] = s]
      /\ decision' = [decision EXCEPT ![c0] = d]
      /\ copy' = [copy EXCEPT ![c0] = S]
      /\ chain' = [chain EXCEPT ![c0] = Append(read[k].chain, entry)]
      /\ UNCHANGED <<stored, evidence>>
  BY DEF Upsert
<1>3. Append(read[k].chain, entry) \in Seq(Entry)
  BY TypedRead DEF Sound
<1>4. S \in SUBSET Receipts
  BY DEF Sound, TypeOK
<1>5. /\ status' \in [Cases -> Status]
      /\ decision' \in [Cases -> Decisions \cup {None}]
      /\ copy' \in [Cases -> SUBSET Receipts]
      /\ chain' \in [Cases -> Seq(Entry)]
  BY <1>2, <1>3, <1>4 DEF Sound, TypeOK, Status, Executing
<1>6. \A c \in Cases : status[c] # "absent" => status'[c] # "absent"
  BY <1>2 DEF Sound, TypeOK, Executing
<1>7. \A c \in Cases : decision[c] # None => decision'[c] # None
  BY <1>1, <1>2 DEF Sound, TypeOK
<1>8. RowShape'
  BY <1>1, <1>2 DEF Sound, TypeOK, RowShape, Executing
<1>9. ClosedOnlyWhenComplete'
  <2>1. \A c \in Cases : ReceiptsOf(c)' = ReceiptsOf(c) /\ evidence'[c] = evidence[c]
    BY <1>2 DEF ReceiptsOf
  <2>2. \A c \in Cases : status'[c] = IF c = c0 THEN s ELSE status[c]
    BY <1>1, <1>2 DEF Sound, TypeOK
  <2>3. \A c \in Cases : status'[c] = "execution_closed"
                          => Expected[c] \subseteq TerminalOps(ReceiptsOf(c))
    BY <2>2 DEF Sound, ClosedOnlyWhenComplete
  <2> QED BY <2>1, <2>3 DEF Sound, ClosedOnlyWhenComplete
<1>10. DecisionPrecedesExecution'
  BY <1>1, <1>2 DEF Sound, TypeOK, DecisionPrecedesExecution, ReceiptsOf
<1> QED BY <1>2, <1>5, <1>6, <1>7, <1>8, <1>9, <1>10

LEMMA DecideSound ==
  ASSUME Sound, NEW k \in Calls, NEW d \in Decisions, Decide(k, d) PROVE Sound'
<1> DEFINE entry == [decided |-> d, receipts |-> {}]
<1>1. /\ pc[k] # "idle" /\ End(k)
      /\ Upsert(k, "awaiting_execution", d, read[k].copy, entry)
  BY DEF Decide
<1>2. entry \in Entry /\ read[k].copy \in SUBSET stored
  BY DEF Entry, Sound, RequestShape
<1>3. /\ status' \in [Cases -> Status]
      /\ decision' \in [Cases -> Decisions \cup {None}]
      /\ copy' \in [Cases -> SUBSET Receipts]
      /\ chain' \in [Cases -> Seq(Entry)]
      /\ UNCHANGED <<stored, evidence>>
      /\ \A c \in Cases : status[c] # "absent" => status'[c] # "absent"
      /\ \A c \in Cases : decision[c] # None => decision'[c] # None
      /\ RowShape' /\ ClosedOnlyWhenComplete' /\ DecisionPrecedesExecution'
  BY <1>1, <1>2, UpsertSound DEF Sound, Executing
<1>4. TypeOK'
  BY <1>1, <1>3, EndTyped DEF Sound, TypeOK
<1>5. RequestShape'
  BY <1>1, <1>3 DEF Sound, TypeOK, RequestShape, End, Blank, Ingesting, ReceiptsOf
<1> QED BY <1>3, <1>4, <1>5 DEF Sound

LEMMA SaveSound == ASSUME Sound, NEW k \in Calls, Save(k) PROVE Sound'
<1> DEFINE S == listed[k]
           entry == [decided |-> None, receipts |-> S]
           closed == Closes(on[k], S)
           s == IF closed THEN "execution_closed" ELSE "awaiting_execution"
<1>1. /\ pc[k] = "listed" /\ Upsert(k, s, read[k].decision, S, entry)
      /\ closed => /\ pc' = [pc EXCEPT ![k] = "closing"]
                   /\ read' = [read EXCEPT ![k].chain = chain'[on[k]]]
                   /\ UNCHANGED <<on, batch, listed>>
      /\ ~closed => End(k)
  BY DEF Save
<1>2. /\ on[k] \in Cases /\ S \subseteq stored /\ S \subseteq ReceiptsOf(on[k])
      /\ read[k].decision \in Decisions
  BY <1>1, TypedRead DEF Sound, RequestShape, Ingesting
<1>3. entry \in Entry /\ s \in Executing
  BY <1>2 DEF Entry, Executing, Sound, TypeOK
<1>4. closed => Expected[on[k]] \subseteq TerminalOps(S)
  BY DEF Closes
<1>5. closed => Expected[on[k]] \subseteq TerminalOps(ReceiptsOf(on[k]))
  BY <1>2, <1>4, MoreReceiptsSettleMore
<1>6. /\ status' \in [Cases -> Status]
      /\ decision' \in [Cases -> Decisions \cup {None}]
      /\ copy' \in [Cases -> SUBSET Receipts]
      /\ chain' \in [Cases -> Seq(Entry)]
      /\ UNCHANGED <<stored, evidence>>
      /\ \A c \in Cases : status[c] # "absent" => status'[c] # "absent"
      /\ \A c \in Cases : decision[c] # None => decision'[c] # None
      /\ RowShape' /\ ClosedOnlyWhenComplete' /\ DecisionPrecedesExecution'
  BY <1>1, <1>2, <1>3, <1>5, UpsertSound DEF Sound
<1>7. CASE ~closed
  <2>1. TypeOK'
    BY <1>1, <1>6, <1>7, EndTyped DEF Sound, TypeOK
  <2>2. RequestShape'
    <3> SUFFICES ASSUME NEW u \in Calls
        PROVE  /\ pc'[u] # "idle" => on'[u] \in Cases /\ on'[u] \notin Infeasible /\ status'[on'[u]] # "absent"
               /\ pc'[u] \in Ingesting => read'[u].decision # None /\ decision'[on'[u]] # None
               /\ read'[u].copy \subseteq stored
               /\ listed'[u] \subseteq stored
               /\ pc'[u] \in {"listed", "closing"} => listed'[u] \subseteq ReceiptsOf(on'[u])
               /\ pc'[u] = "closing" => Expected[on'[u]] \subseteq TerminalOps(listed'[u])
      BY <1>6 DEF RequestShape, ReceiptsOf
    <3>1. CASE u = k
      BY <1>1, <1>7, <3>1 DEF Sound, TypeOK, End, Blank, Ingesting
    <3>2. CASE u # k
      <4>1. /\ pc'[u] = pc[u] /\ on'[u] = on[u] /\ read'[u] = read[u] /\ listed'[u] = listed[u]
        BY <1>1, <1>7, <3>2 DEF Sound, TypeOK, End
      <4> QED BY <1>6, <4>1 DEF Sound, RequestShape, Ingesting
    <3> QED BY <3>1, <3>2
  <2> QED BY <1>6, <2>1, <2>2 DEF Sound
<1>8. CASE closed
  <2>1. /\ pc' = [pc EXCEPT ![k] = "closing"]
        /\ read' = [read EXCEPT ![k].chain = chain'[on[k]]]
        /\ UNCHANGED <<on, batch, listed>>
    BY <1>1, <1>8
  <2>2. chain'[on[k]] \in Seq(Entry)
    BY <1>2, <1>6
  <2>3. read' \in [Calls -> Row]
    <3>1. read \in [Calls -> Row] /\ read[k] \in Row
      BY DEF Sound, TypeOK
    <3>2. [read[k] EXCEPT !.chain = chain'[on[k]]] \in Row
      BY <2>2, <3>1 DEF Row
    <3>3. read' = [read EXCEPT ![k] = [read[k] EXCEPT !.chain = chain'[on[k]]]]
      BY <2>1, <3>1
    <3> QED BY <3>1, <3>2, <3>3
  <2>4. TypeOK'
    BY <1>6, <2>1, <2>3 DEF Sound, TypeOK
  <2>5. \A u \in Calls : read'[u].copy = read[u].copy /\ read'[u].decision = read[u].decision
    BY <2>1 DEF Sound, TypeOK, Row
  <2>6. RequestShape'
    <3> SUFFICES ASSUME NEW u \in Calls
        PROVE  /\ pc'[u] # "idle" => on[u] \in Cases /\ on[u] \notin Infeasible /\ status'[on[u]] # "absent"
               /\ pc'[u] \in Ingesting => read[u].decision # None /\ decision'[on[u]] # None
               /\ read[u].copy \subseteq stored
               /\ listed[u] \subseteq stored
               /\ pc'[u] \in {"listed", "closing"} => listed[u] \subseteq ReceiptsOf(on[u])
               /\ pc'[u] = "closing" => Expected[on[u]] \subseteq TerminalOps(listed[u])
      BY <1>6, <2>1, <2>5 DEF RequestShape, ReceiptsOf
    <3>1. CASE u = k
      BY <1>1, <1>4, <1>6, <1>8, <3>1 DEF Sound, RequestShape, Ingesting
    <3>2. CASE u # k
      BY <1>6, <2>1, <3>2 DEF Sound, TypeOK, RequestShape, Ingesting
    <3> QED BY <3>1, <3>2
  <2> QED BY <1>6, <2>4, <2>6 DEF Sound
<1> QED BY <1>7, <1>8

LEMMA PutEvidenceSound == ASSUME Sound, NEW k \in Calls, PutEvidence(k) PROVE Sound'
<1> DEFINE new == [chain |-> read[k].chain, receipts |-> listed[k]]
<1>1. /\ pc[k] = "closing" /\ End(k) /\ UNCHANGED <<rows, stored>>
      /\ evidence' = [evidence EXCEPT ![on[k]] = IF evidence[on[k]] = None THEN new
                                                 ELSE evidence[on[k]]]
  BY DEF PutEvidence
<1>2. /\ on[k] \in Cases /\ on[k] \notin Infeasible /\ decision[on[k]] # None
      /\ listed[k] \subseteq ReceiptsOf(on[k])
      /\ Expected[on[k]] \subseteq TerminalOps(listed[k])
  BY <1>1 DEF Sound, RequestShape, Ingesting
<1>3. new \in [chain: Seq(Entry), receipts: SUBSET Receipts]
  BY TypedRead DEF Sound, TypeOK
<1>4. \A c \in Cases : evidence'[c] = evidence[c] \/ (c = on[k] /\ evidence'[c] = new)
  BY <1>1, <1>2 DEF Sound, TypeOK
<1>5. TypeOK'
  BY <1>1, <1>3, EndTyped DEF Sound, TypeOK, rows
<1>6. RequestShape'
  BY <1>1 DEF Sound, TypeOK, RequestShape, End, rows, Blank, Ingesting, ReceiptsOf
<1>7. RowShape'
  BY <1>1 DEF Sound, RowShape, rows
<1>8. ClosedOnlyWhenComplete'
  BY <1>1, <1>2, <1>4 DEF Sound, ClosedOnlyWhenComplete, rows, ReceiptsOf
<1>9. DecisionPrecedesExecution'
  BY <1>1, <1>2, <1>4 DEF Sound, DecisionPrecedesExecution, rows, ReceiptsOf
<1> QED BY <1>5, <1>6, <1>7, <1>8, <1>9 DEF Sound

LEMMA StepSound == Sound /\ [Next]_vars => Sound'
<1> SUFFICES ASSUME Sound, [Next]_vars PROVE Sound'
  OBVIOUS
<1>1. CASE UNCHANGED vars
  <2>1. TypeOK' /\ RequestShape' /\ UNCHANGED store
    BY <1>1 DEF Sound, vars, store, rows, local, TypeOK, RequestShape, ReceiptsOf
  <2> QED BY <2>1, LocalStepSound
<1> QED
  BY <1>1, RunSound, BeginDecisionSound, BeginIngestSound, DecideSound, AddReceiptSound,
     ListSound, SaveSound, PutEvidenceSound, CrashSound
  DEF Next

-----------------------------------------------------------------------------
(* Theorems.                                                               *)

\* In every reachable state the rows, the receipts, the evidence and the
\* requests in progress agree.
THEOREM ShadowSound == Spec => []Sound
<1>1. Init => Sound
  BY InitSound
<1>2. Sound /\ [Next]_vars => Sound'
  BY StepSound
<1> QED BY <1>1, <1>2, PTL DEF Spec

\* Type correctness of shadow cases and of the requests on them.
THEOREM ShadowTypeOK == Spec => []TypeOK
<1>1. Sound => TypeOK
  BY DEF Sound
<1> QED BY <1>1, ShadowSound, PTL

\* A case closes, and its evidence is filed, only after terminal receipts of
\* all its expected operations are stored, however requests interleave, fail
\* halfway or crash.
THEOREM ClosedIsComplete == Spec => []ClosedOnlyWhenComplete
<1>1. Sound => ClosedOnlyWhenComplete
  BY DEF Sound
<1> QED BY <1>1, ShadowSound, PTL

\* No receipt and no evidence exists for a case without a planner's decision,
\* and a stale overwrite of the case does not take the decision away.
THEOREM DecisionIsFirst == Spec => []DecisionPrecedesExecution
<1>1. Sound => DecisionPrecedesExecution
  BY DEF Sound
<1> QED BY <1>1, ShadowSound, PTL

\* An event of the MES is counted once, however often and however concurrently
\* it is delivered.
THEOREM EventsCountedOnce == Spec => []EventsCountOnce
<1>1. Sound => EventsCountOnce
  BY DEF Sound, RowShape, EventsCountOnce
<1> QED BY <1>1, ShadowSound, PTL

\* Closure evidence is never replaced.
THEOREM EvidenceStays == Spec => EvidenceIsFinal
<1>1. Sound /\ [Next]_vars =>
        [\A c \in Cases : evidence[c] # None => evidence'[c] = evidence[c]]_vars
  <2> SUFFICES ASSUME Sound, [Next]_vars, NEW c \in Cases, evidence[c] # None
               PROVE  evidence'[c] = evidence[c]
    OBVIOUS
  <2>1. ASSUME NEW k \in Calls, PutEvidence(k) PROVE evidence'[c] = evidence[c]
    BY <2>1 DEF PutEvidence, Sound, TypeOK
  <2> QED
    BY <2>1
    DEF Next, Run, BeginDecision, BeginIngest, Begin, Decide, Upsert, AddReceipt, List, Save,
        Crash, vars, store
<1> QED BY <1>1, ShadowSound, PTL DEF Spec, EvidenceIsFinal
=============================================================================
