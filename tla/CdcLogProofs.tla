----------------------------- MODULE CdcLogProofs -----------------------------
(***************************************************************************)
(* Proofs about CDC ingestion and as-of materialization, for any sources,  *)
(* any feed of events, any order of delivery and any interleaving of a     *)
(* request with ingestion.                                                 *)
(***************************************************************************)
EXTENDS CdcLog, Sequences, TLAPS

\* A request never saw more of a source than the source has now.
SeenIsBehind == \A s \in Required : seenSeq[s] <= seqNo[s]

\* The inductive invariant of ingestion and of the reads of a request.
Contiguous == TypeOK /\ CommittedIsPrefix /\ NothingCommittableWaits /\ SeenIsBehind

LEMMA FeedFields ==
  \A e \in Feed : /\ e.src \in Sources
                  /\ e.seq \in Nat /\ e.seq > 0
                  /\ e.time \in Nat
  BY CdcConstants DEF Event

LEMMA RequiredIsSource == \A s \in Required : s \in Sources
  BY CdcConstants

LEMMA JoinedIntervals ==
  ASSUME NEW m \in Nat, NEW n \in Nat, m <= n
  PROVE  (1 .. m) \cup ((m + 1) .. n) = 1 .. n
  OBVIOUS

LEMMA InitContiguous == Init => Contiguous
  BY CdcConstants, RequiredIsSource
  DEF Init, Contiguous, TypeOK, CommittedIsPrefix, SeqsOf, NothingCommittableWaits, SeenIsBehind

\* The batch an accepted event connects is a run of sequences from the event
\* on, and no stored event of its source follows it directly.
LEMMA BatchIsRun ==
  ASSUME Contiguous, NEW e \in Feed, IsNew(e), NEW last \in Batch(e),
         \A r \in Batch(e) : r.seq <= last.seq
  PROVE  /\ Batch(e) \subseteq rows \cup {e}
         /\ e \in Batch(e) /\ last.seq \in Nat /\ e.seq <= last.seq
         /\ SeqsOf(Batch(e), e.src) = e.seq .. last.seq
         /\ \A r \in rows \cup {e} :
              r.src = e.src /\ r.seq >= e.seq /\ r \notin Batch(e) => r.seq > last.seq + 1
<1>1. \A r \in rows \cup {e} : r \in Feed
  BY DEF Contiguous, TypeOK
<1>2. Batch(e) \subseteq rows \cup {e}
  BY DEF Batch
<1>3. e \in Batch(e)
  BY FeedFields DEF Batch
<1>4. last.seq \in Nat /\ e.seq \in Nat /\ e.seq <= last.seq
  BY <1>1, <1>2, <1>3, FeedFields
<1>5. \A n \in e.seq .. last.seq : \E q \in Batch(e) : q.seq = n /\ q.src = e.src
  <2> SUFFICES ASSUME NEW n \in e.seq .. last.seq
               PROVE  \E q \in Batch(e) : q.seq = n /\ q.src = e.src
    OBVIOUS
  <2>1. PICK q \in rows \cup {e} : q.src = e.src /\ q.seq = n
    BY DEF Batch
  <2>2. q \in Batch(e)
    BY <1>4, <2>1 DEF Batch
  <2> QED BY <2>1, <2>2
<1>6. SeqsOf(Batch(e), e.src) = e.seq .. last.seq
  <2>1. ASSUME NEW n \in e.seq .. last.seq PROVE n \in SeqsOf(Batch(e), e.src)
    BY <1>5 DEF SeqsOf
  <2>2. ASSUME NEW n \in SeqsOf(Batch(e), e.src) PROVE n \in e.seq .. last.seq
    <3>1. PICK q \in Batch(e) : q.seq = n
      BY DEF SeqsOf
    <3>2. q.seq \in Nat /\ q.seq >= e.seq /\ q.seq <= last.seq
      BY <1>1, <1>2, FeedFields DEF Batch
    <3> QED BY <1>4, <3>1, <3>2
  <2> QED BY <2>1, <2>2
<1>7. ASSUME NEW r \in rows \cup {e}, r.src = e.src, r.seq >= e.seq, r \notin Batch(e)
      PROVE  r.seq > last.seq + 1
  <2>1. PICK n \in e.seq .. r.seq : ~ \E q \in rows \cup {e} : q.src = e.src /\ q.seq = n
    BY <1>7 DEF Batch
  <2>2. n \notin e.seq .. last.seq
    BY <1>2, <1>5, <2>1
  <2>3. r.seq \in Nat /\ n # r.seq
    BY <1>1, <1>7, <2>1, FeedFields
  <2> QED BY <1>4, <2>1, <2>2, <2>3
<1> QED BY <1>2, <1>3, <1>4, <1>6, <1>7

LEMMA StepContiguous == Contiguous /\ [Next]_vars => Contiguous'
<1> SUFFICES ASSUME Contiguous, [Next]_vars PROVE Contiguous'
  OBVIOUS
<1>1. \A r \in rows : r \in Feed
  BY DEF Contiguous, TypeOK
<1>2. \A s \in Sources : seqNo[s] \in Nat
  BY DEF Contiguous, TypeOK
<1>3. ASSUME NEW e \in Feed, Buffer(e) PROVE Contiguous'
  <2>1. TypeOK'
    BY <1>3 DEF Buffer, Stored, reader, Contiguous, TypeOK
  <2>2. CommittedIsPrefix'
    BY <1>3 DEF Buffer, Stored, IsNew, Contiguous, CommittedIsPrefix, SeqsOf
  <2>3. e.seq > seqNo[e.src] + 1
    BY <1>2, <1>3, FeedFields DEF Buffer, IsNew
  <2>4. NothingCommittableWaits'
    BY <1>3, <2>3 DEF Buffer, Stored, Contiguous, NothingCommittableWaits
  <2>5. SeenIsBehind'
    BY <1>3 DEF Buffer, reader, Contiguous, SeenIsBehind
  <2> QED BY <2>1, <2>2, <2>4, <2>5 DEF Contiguous
<1>4. ASSUME NEW e \in Feed, Accept(e) PROVE Contiguous'
  <2>1. /\ IsNew(e) /\ e.seq = seqNo[e.src] + 1
        /\ rows' = rows \cup {e} /\ committed' = committed \cup Batch(e)
        /\ UNCHANGED reader
    BY <1>4 DEF Accept, Stored
  <2>2. PICK last \in Batch(e) : /\ \A r \in Batch(e) : r.seq <= last.seq
                                 /\ seqNo' = [seqNo EXCEPT ![e.src] = last.seq]
    BY <1>4 DEF Accept
  <2>3. PICK t \in {r.time : r \in Batch(e)} : mark' = [mark EXCEPT ![e.src] = t]
    BY <1>4 DEF Accept
  <2>4. /\ Batch(e) \subseteq rows \cup {e}
        /\ e \in Batch(e) /\ last.seq \in Nat /\ e.seq <= last.seq
        /\ SeqsOf(Batch(e), e.src) = e.seq .. last.seq
        /\ \A r \in rows \cup {e} :
             r.src = e.src /\ r.seq >= e.seq /\ r \notin Batch(e) => r.seq > last.seq + 1
    BY <2>1, <2>2, BatchIsRun
  <2>5. \A s \in Sources : seqNo'[s] = IF s = e.src THEN last.seq ELSE seqNo[s]
    BY <2>2 DEF Contiguous, TypeOK
  <2>6. e.src \in Sources /\ e.seq \in Nat /\ seqNo[e.src] \in Nat
    BY <1>2, FeedFields
  <2>7. TypeOK'
    <3>1. t \in Nat
      BY <1>1, <2>4, FeedFields
    <3> QED BY <2>1, <2>2, <2>3, <2>4, <3>1 DEF reader, Contiguous, TypeOK
  <2>8. CommittedIsPrefix'
    <3>1. \A a, b \in rows' : a.src = b.src /\ a.seq = b.seq => a = b
      BY <2>1 DEF IsNew, Contiguous, CommittedIsPrefix
    <3>2. ASSUME NEW s \in Sources PROVE SeqsOf(committed, s)' = 1 .. seqNo'[s]
      <4>1. SeqsOf(committed, s)' = SeqsOf(committed, s) \cup SeqsOf(Batch(e), s)
        BY <2>1 DEF SeqsOf
      <4>2. SeqsOf(committed, s) = 1 .. seqNo[s]
        BY DEF Contiguous, CommittedIsPrefix
      <4>3. CASE s = e.src
        <5>1. SeqsOf(Batch(e), s) = (seqNo[s] + 1) .. last.seq /\ seqNo[s] \in Nat
          BY <2>1, <2>4, <2>6, <4>3
        <5>2. last.seq \in Nat /\ seqNo[s] <= last.seq /\ seqNo'[s] = last.seq
          BY <2>1, <2>4, <2>5, <2>6, <4>3
        <5> QED BY <4>1, <4>2, <5>1, <5>2, JoinedIntervals
      <4>4. CASE s # e.src
        <5>1. SeqsOf(Batch(e), s) = {}
          BY <4>4 DEF SeqsOf, Batch
        <5> QED BY <2>5, <4>1, <4>2, <4>4, <5>1
      <4> QED BY <4>3, <4>4
    <3> QED BY <3>1, <3>2 DEF CommittedIsPrefix
  <2>9. NothingCommittableWaits'
    <3> SUFFICES ASSUME NEW r \in rows \cup {e}, r \notin committed, r \notin Batch(e)
                 PROVE  r.seq > seqNo'[r.src] + 1
      BY <2>1 DEF NothingCommittableWaits
    <3>1. r \in rows /\ r.src \in Sources /\ r.seq \in Nat
      BY <1>1, <2>4, FeedFields
    <3>2. r.seq > seqNo[r.src] + 1
      BY <3>1 DEF Contiguous, NothingCommittableWaits
    <3>3. CASE r.src = e.src
      <4>1. r.seq >= e.seq
        BY <2>1, <2>6, <3>1, <3>2, <3>3
      <4> QED BY <2>4, <2>5, <3>1, <3>3, <4>1
    <3>4. CASE r.src # e.src
      BY <2>5, <3>1, <3>2, <3>4
    <3> QED BY <3>3, <3>4
  <2>10. SeenIsBehind'
    <3>1. \A s \in Sources : seqNo[s] <= seqNo'[s]
      BY <1>2, <2>1, <2>4, <2>5, <2>6
    <3>2. \A s \in Required : seqNo'[s] \in Nat /\ seqNo[s] \in Nat /\ seenSeq[s] \in Nat
      BY <1>2, <2>7, RequiredIsSource DEF TypeOK, Contiguous
    <3> QED BY <2>1, <3>1, <3>2, RequiredIsSource DEF reader, Contiguous, SeenIsBehind
  <2> QED BY <2>7, <2>8, <2>9, <2>10 DEF Contiguous
<1>5. ASSUME UNCHANGED store, TypeOK', SeenIsBehind' PROVE Contiguous'
  BY <1>5 DEF store, Contiguous, CommittedIsPrefix, SeqsOf, NothingCommittableWaits
<1>6. ASSUME NEW c \in Cuts, Request(c) PROVE Contiguous'
  <2>1. TypeOK'
    BY <1>6 DEF Request, store, Contiguous, TypeOK
  <2>2. SeenIsBehind'
    BY <1>2, <1>6, RequiredIsSource DEF Request, store, SeenIsBehind
  <2> QED BY <1>5, <1>6, <2>1, <2>2 DEF Request
<1>7. ASSUME NEW s \in Required, ReadCheckpoint(s) PROVE Contiguous'
  <2>1. TypeOK'
    BY <1>7, RequiredIsSource DEF ReadCheckpoint, store, Contiguous, TypeOK
  <2>2. SeenIsBehind'
    BY <1>2, <1>7, RequiredIsSource DEF ReadCheckpoint, store, Contiguous, TypeOK, SeenIsBehind
  <2> QED BY <1>5, <1>7, <2>1, <2>2 DEF ReadCheckpoint
<1>8. ASSUME NEW s \in Required, ReadPending(s) PROVE Contiguous'
  <2>1. TypeOK'
    BY <1>8 DEF ReadPending, store, Contiguous, TypeOK
  <2>2. SeenIsBehind'
    BY <1>8 DEF ReadPending, store, Contiguous, SeenIsBehind
  <2> QED BY <1>5, <1>8, <2>1, <2>2 DEF ReadPending
<1>9. ASSUME Judge PROVE Contiguous'
  <2>1. TypeOK'
    BY <1>9 DEF Judge, store, Contiguous, TypeOK
  <2>2. SeenIsBehind'
    BY <1>9 DEF Judge, store, Contiguous, SeenIsBehind
  <2> QED BY <1>5, <1>9, <2>1, <2>2 DEF Judge
<1>10. ASSUME Load PROVE Contiguous'
  <2>1. TypeOK'
    BY <1>10 DEF Load, UpTo, store, Contiguous, TypeOK
  <2>2. SeenIsBehind'
    BY <1>10 DEF Load, store, Contiguous, SeenIsBehind
  <2> QED BY <1>5, <1>10, <2>1, <2>2 DEF Load
<1>11. CASE UNCHANGED vars
  <2>1. TypeOK' /\ SeenIsBehind'
    BY <1>11 DEF vars, store, reader, Contiguous, TypeOK, SeenIsBehind
  <2> QED BY <1>5, <1>11, <2>1 DEF vars
<1> QED
  BY <1>3, <1>4, <1>6, <1>7, <1>8, <1>9, <1>10, <1>11 DEF Next, Deliver

\* Every reachable state of the ingestion log is contiguous.
THEOREM LogContiguous == Spec => []Contiguous
<1>1. Init => Contiguous
  BY InitContiguous
<1>2. Contiguous /\ [Next]_vars => Contiguous'
  BY StepContiguous
<1> QED BY <1>1, <1>2, PTL DEF Spec

\* Type correctness of ingestion and of the as-of request.
THEOREM CdcTypeOK == Spec => []TypeOK
<1>1. Contiguous => TypeOK
  BY DEF Contiguous
<1> QED BY <1>1, LogContiguous, PTL

\* Whatever the order of arrival, the committed events of a source are those
\* with the sequences 1 to its checkpoint, one each.
THEOREM CommittedPrefix == Spec => []CommittedIsPrefix
<1>1. Contiguous => CommittedIsPrefix
  BY DEF Contiguous
<1> QED BY <1>1, LogContiguous, PTL

\* No stored event that could be committed is left waiting: a missing sequence
\* separates it from the checkpoint.
THEOREM NothingWaits == Spec => []NothingCommittableWaits
<1>1. Contiguous => NothingCommittableWaits
  BY DEF Contiguous
<1> QED BY <1>1, LogContiguous, PTL

-----------------------------------------------------------------------------
(* What an answer vouches for.                                             *)

LEMMA InitSnapshot == Init => SnapshotIsComplete
  BY DEF Init, SnapshotIsComplete

LEMMA DeliverGrows ==
  ASSUME Contiguous, NEW e \in Feed, Deliver(e)
  PROVE  /\ rows' = rows \cup {e} /\ committed \subseteq committed'
         /\ e.seq > seqNo[e.src] /\ UNCHANGED reader
  BY DEF Deliver, Buffer, Accept, IsNew, Stored

LEMMA StepSnapshot ==
  ASSUME Contiguous, SnapshotIsComplete, [Next]_vars
  PROVE  SnapshotIsComplete'
<1>1. ASSUME NEW e \in Feed, Deliver(e) PROVE SnapshotIsComplete'
  <2>1. /\ rows' = rows \cup {e} /\ committed \subseteq committed'
        /\ e.seq > seqNo[e.src] /\ UNCHANGED reader
    BY <1>1, DeliverGrows
  <2>2. e.src \in Required => ~(e.seq <= seenSeq[e.src])
    BY <2>1, FeedFields, RequiredIsSource DEF Contiguous, SeenIsBehind, TypeOK
  <2> QED BY <2>1, <2>2 DEF reader, SnapshotIsComplete
<1>2. ASSUME rpc' # "consistent" PROVE SnapshotIsComplete'
  BY <1>2 DEF SnapshotIsComplete
<1>3. CASE Load
  <2> SUFFICES ASSUME NEW e \in rows, e.src \in Required, e.seq <= seenSeq[e.src], e.time <= cut
               PROVE  e \in UpTo(cut)
    BY <1>3 DEF Load, store, UpTo, SnapshotIsComplete
  <2>1. e.seq \in Nat /\ seqNo[e.src] \in Nat /\ seenSeq[e.src] \in Nat /\ e.seq <= seqNo[e.src]
    BY FeedFields, RequiredIsSource DEF Contiguous, TypeOK, SeenIsBehind
  <2>2. e \in committed
    BY <2>1 DEF Contiguous, NothingCommittableWaits
  <2> QED BY <2>2 DEF UpTo
<1>4. CASE UNCHANGED vars
  BY <1>4 DEF vars, store, reader, SnapshotIsComplete
<1> QED
  BY <1>1, <1>2, <1>3, <1>4 DEF Next, Request, ReadCheckpoint, ReadPending, Judge

\* An answer holds every stored event up to the checkpoints it reports and the
\* requested cut, and nothing uncommitted, although the events are read after
\* the checkpoints.
THEOREM SnapshotComplete == Spec => []SnapshotIsComplete
<1>1. Init => SnapshotIsComplete
  BY InitSnapshot
<1>2. Contiguous /\ SnapshotIsComplete /\ [Next]_vars => SnapshotIsComplete'
  BY StepSnapshot
<1> QED BY <1>1, <1>2, LogContiguous, PTL DEF Spec

-----------------------------------------------------------------------------
(* What holds when the clock of each source follows its sequence.          *)

OrderedClocks == \A e, f \in Feed : e.src = f.src /\ e.seq < f.seq => e.time < f.time

LEMMA InitMark == Init => MarkIsLastCommitted
  BY DEF Init, MarkIsLastCommitted

LEMMA StepMark ==
  ASSUME OrderedClocks, Contiguous, MarkIsLastCommitted, [Next]_vars
  PROVE  MarkIsLastCommitted'
<1>1. ASSUME NEW e \in Feed, Accept(e) PROVE MarkIsLastCommitted'
  <2>1. /\ IsNew(e) /\ e.seq = seqNo[e.src] + 1
        /\ committed' = committed \cup Batch(e)
    BY <1>1 DEF Accept
  <2>2. PICK last \in Batch(e) : /\ \A r \in Batch(e) : r.seq <= last.seq
                                 /\ seqNo' = [seqNo EXCEPT ![e.src] = last.seq]
    BY <1>1 DEF Accept
  <2>3. PICK t \in {r.time : r \in Batch(e)} :
          IsWatermark(e, t) /\ mark' = [mark EXCEPT ![e.src] = t]
    BY <1>1 DEF Accept
  <2>4. Batch(e) \subseteq rows \cup {e} /\ last.seq \in Nat /\ e.seq <= last.seq
    BY <2>1, <2>2, BatchIsRun
  <2>5. \A r \in rows \cup {e} : r \in Feed
    BY DEF Contiguous, TypeOK
  <2>6. \A r \in Batch(e) : r.src = e.src /\ r \in Feed
    BY <2>4, <2>5 DEF Batch
  <2>7. ASSUME NEW r \in Batch(e), r.seq = last.seq PROVE r.time = t
    <3>1. \A q \in Batch(e) : q.time <= r.time
      <4> SUFFICES ASSUME NEW q \in Batch(e) PROVE q.time <= r.time
        OBVIOUS
      <4>1. q.seq <= r.seq /\ q.seq \in Nat /\ r.seq \in Nat /\ q.time \in Nat /\ r.time \in Nat
        BY <2>2, <2>6, <2>7, FeedFields
      <4>2. CASE q.seq < r.seq
        BY <2>6, <4>1, <4>2 DEF OrderedClocks
      <4>3. CASE q.seq = r.seq
        <5>1. q = r
          BY <2>1, <2>4, <2>6, <4>3 DEF IsNew, Contiguous, CommittedIsPrefix
        <5> QED BY <4>1, <5>1
      <4> QED BY <4>1, <4>2, <4>3
    <3>2. PICK q \in Batch(e) : q.time = t
      BY <2>3
    <3>3. r.time <= t /\ t <= r.time
      BY <2>3, <3>1, <3>2 DEF IsWatermark
    <3> QED BY <2>6, <3>2, <3>3, FeedFields
  <2>8. ASSUME NEW f \in committed', f.seq = seqNo'[f.src] PROVE mark'[f.src] = f.time
    <3>1. f \in Feed /\ f.src \in Sources /\ f.seq \in Nat
      BY <2>1, <2>6, <2>8, FeedFields DEF Contiguous, TypeOK
    <3>2. CASE f.src # e.src
      <4>1. f \in committed
        BY <2>1, <2>6, <3>2
      <4>2. seqNo'[f.src] = seqNo[f.src] /\ mark'[f.src] = mark[f.src]
        BY <2>2, <2>3, <3>1, <3>2 DEF Contiguous, TypeOK
      <4> QED BY <2>8, <4>1, <4>2 DEF MarkIsLastCommitted
    <3>3. CASE f.src = e.src
      <4>1. seqNo'[e.src] = last.seq /\ mark'[e.src] = t /\ seqNo[e.src] \in Nat
        BY <2>2, <2>3, <3>1, <3>3 DEF Contiguous, TypeOK
      <4>2. f \notin committed
        <5> SUFFICES ASSUME f \in committed PROVE FALSE
          OBVIOUS
        <5>1. f.seq \in 1 .. seqNo[e.src]
          BY <3>1, <3>3 DEF Contiguous, CommittedIsPrefix, SeqsOf
        <5> QED BY <2>1, <2>4, <2>8, <3>3, <4>1, <5>1
      <4> QED BY <2>1, <2>7, <2>8, <3>3, <4>1, <4>2
    <3> QED BY <3>2, <3>3
  <2> QED BY <2>8 DEF MarkIsLastCommitted
<1>2. ASSUME UNCHANGED <<committed, seqNo, mark>> PROVE MarkIsLastCommitted'
  BY <1>2 DEF MarkIsLastCommitted
<1> QED
  BY <1>1, <1>2
  DEF Next, Deliver, Buffer, Request, ReadCheckpoint, ReadPending, Judge, Load, vars, store

\* With such clocks a source's watermark is the time of its last committed
\* event, in whatever order and batches the events arrived.
THEOREM MarkIsLast ==
  ASSUME OrderedClocks PROVE Spec => []MarkIsLastCommitted
<1>1. Init => MarkIsLastCommitted
  BY InitMark
<1>2. Contiguous /\ MarkIsLastCommitted /\ [Next]_vars => MarkIsLastCommitted'
  BY StepMark
<1> QED BY <1>1, <1>2, LogContiguous, PTL DEF Spec

\* The watermark a request saw is the time of the last event it saw committed;
\* a request that got to reading events had no blocker; and what it read is
\* still all there is up to its cut.
SeenMarks ==
  \A e \in committed : e.src \in Required /\ e.seq = seenSeq[e.src] => seenMark[e.src] = e.time
Unblocked ==
  /\ rpc # "idle" => cut \in Cuts
  /\ rpc \in {"loading", "consistent"} => MayMaterialize
StillAll == rpc = "consistent" => snap = UpTo(cut)

Answerable == SeenMarks /\ Unblocked /\ StillAll

LEMMA InitAnswerable == Init => Answerable
  BY DEF Init, Answerable, SeenMarks, Unblocked, StillAll

\* What a delivery commits lies beyond the source's checkpoint.
LEMMA CommitsBeyond ==
  ASSUME Contiguous, NEW e \in Feed, Deliver(e), NEW f \in committed', f \notin committed
  PROVE  f \in Feed /\ f.seq > seqNo[f.src]
<1>1. Accept(e) /\ f \in Batch(e)
  BY DEF Deliver, Buffer, Accept
<1>2. f \in rows \cup {e} /\ f.src = e.src /\ f.seq >= e.seq
  BY <1>1 DEF Batch
<1>3. f \in Feed
  BY <1>2 DEF Contiguous, TypeOK
<1>4. e.seq > seqNo[e.src]
  BY DeliverGrows
<1> QED BY <1>2, <1>3, <1>4, FeedFields DEF Contiguous, TypeOK

\* Once a request is past its blockers, everything that is committed beyond
\* the checkpoints it saw is later than its cut.
LEMMA BeyondIsLater ==
  ASSUME OrderedClocks, Contiguous, SeenMarks, MayMaterialize, cut \in Cuts,
         NEW f \in Feed, f.src \in Required, f.seq > seqNo[f.src]
  PROVE  ~(f.time <= cut)
<1>1. /\ seenSeq[f.src] \in Nat /\ seenSeq[f.src] # 0 /\ seqNo[f.src] \in Nat
      /\ seenMark[f.src] \in Nat /\ seenMark[f.src] >= cut /\ cut \in Nat
  BY CdcConstants, RequiredIsSource DEF MayMaterialize, Reached, Contiguous, TypeOK
<1>2. seenSeq[f.src] \in SeqsOf(committed, f.src) /\ seenSeq[f.src] <= seqNo[f.src]
  BY <1>1, RequiredIsSource DEF Contiguous, SeenIsBehind, CommittedIsPrefix
<1>3. PICK g \in committed : g.src = f.src /\ g.seq = seenSeq[f.src]
  BY <1>2 DEF SeqsOf
<1>4. g \in Feed /\ g.time = seenMark[f.src]
  BY <1>3 DEF SeenMarks, Contiguous, TypeOK
<1>5. g.time < f.time
  BY <1>1, <1>2, <1>3, <1>4, FeedFields DEF OrderedClocks
<1> QED BY <1>1, <1>4, <1>5, FeedFields

LEMMA StepAnswerable ==
  ASSUME OrderedClocks, Contiguous, MarkIsLastCommitted, Answerable, [Next]_vars
  PROVE  Answerable'
<1>1. ASSUME NEW e \in Feed, Deliver(e) PROVE Answerable'
  <2>1. UNCHANGED reader /\ committed \subseteq committed'
    BY <1>1, DeliverGrows
  <2>2. \A f \in committed' : f \notin committed => f \in Feed /\ f.seq > seqNo[f.src]
    BY <1>1, CommitsBeyond
  <2>3. SeenMarks'
    <3> SUFFICES ASSUME NEW f \in committed', f.src \in Required, f.seq = seenSeq[f.src]
                 PROVE  seenMark[f.src] = f.time
      BY <2>1 DEF reader, SeenMarks
    <3>1. f \in committed
      BY <2>2, RequiredIsSource DEF Contiguous, TypeOK, SeenIsBehind
    <3> QED BY <3>1 DEF Answerable, SeenMarks
  <2>4. Unblocked'
    BY <2>1 DEF reader, Answerable, Unblocked, MayMaterialize, Reached, WithinSkew
  <2>5. StillAll'
    <3> SUFFICES ASSUME rpc = "consistent" PROVE UpTo(cut)' = UpTo(cut)
      BY <2>1 DEF reader, Answerable, StillAll
    <3>1. \A f \in committed' : f.src \in Required /\ f.time <= cut => f \in committed
      BY <2>2, BeyondIsLater DEF Answerable, Unblocked
    <3> QED BY <2>1, <3>1 DEF reader, UpTo
  <2> QED BY <2>3, <2>4, <2>5 DEF Answerable
<1>2. ASSUME NEW c \in Cuts, Request(c) PROVE Answerable'
  <2>1. SeenMarks'
    BY <1>2, FeedFields DEF Request, store, SeenMarks, Contiguous, TypeOK
  <2> QED BY <1>2, <2>1 DEF Request, Answerable, Unblocked, StillAll
<1>3. ASSUME NEW s \in Required, ReadCheckpoint(s) PROVE Answerable'
  <2>1. SeenMarks'
    BY <1>3 DEF ReadCheckpoint, store, Contiguous, TypeOK, MarkIsLastCommitted, Answerable, SeenMarks
  <2> QED BY <1>3, <2>1 DEF ReadCheckpoint, Answerable, Unblocked, StillAll
<1>4. ASSUME NEW s \in Required, ReadPending(s) PROVE Answerable'
  BY <1>4 DEF ReadPending, store, Answerable, SeenMarks, Unblocked, StillAll
<1>5. CASE Judge
  <2>1. (rpc' = "loading" => MayMaterialize) /\ cut \in Cuts
    BY <1>5 DEF Judge, Answerable, Unblocked
  <2>2. UNCHANGED <<store, cut, seenSeq, seenMark, seenGap>> /\ rpc' \in {"loading", "blocked"}
    BY <1>5 DEF Judge
  <2>3. Unblocked'
    BY <2>1, <2>2 DEF Unblocked, MayMaterialize, Reached, WithinSkew
  <2> QED BY <2>2, <2>3 DEF store, Answerable, SeenMarks, StillAll
<1>6. CASE Load
  <2>1. Unblocked'
    BY <1>6 DEF Load, store, Answerable, Unblocked, MayMaterialize, Reached, WithinSkew
  <2>2. StillAll'
    BY <1>6 DEF Load, store, StillAll, UpTo
  <2> QED BY <1>6, <2>1, <2>2 DEF Load, store, Answerable, SeenMarks
<1>7. CASE UNCHANGED vars
  BY <1>7
  DEF vars, store, reader, Answerable, SeenMarks, Unblocked, StillAll, MayMaterialize, Reached,
      WithinSkew, UpTo
<1> QED BY <1>1, <1>2, <1>3, <1>4, <1>5, <1>6, <1>7 DEF Next

LEMMA AnswerableAlways ==
  ASSUME OrderedClocks PROVE Spec => []Answerable
<1>1. Init => Answerable
  BY InitAnswerable
<1>2. Contiguous /\ MarkIsLastCommitted /\ Answerable /\ [Next]_vars => Answerable'
  BY StepAnswerable
<1> QED BY <1>1, <1>2, LogContiguous, MarkIsLast, PTL DEF Spec

\* With such clocks an answered cut is final: what ingestion commits during
\* and after the request never changes the entities as of that cut.
THEOREM AnsweredCutIsFinal ==
  ASSUME OrderedClocks PROVE Spec => []CutIsFinal
<1>1. Answerable => CutIsFinal
  BY DEF Answerable, StillAll, CutIsFinal
<1> QED BY <1>1, AnswerableAlways, PTL

LEMMA WholeSeconds ==
  ASSUME NEW d \in Nat, NEW k \in Nat \ {0}, NEW m \in Nat
  PROVE  /\ (m + 1) * k \in Nat /\ (m + 1) * k > 0
         /\ d \div k <= m => d < (m + 1) * k
<1>1. (m + 1) * k \in Nat /\ (m + 1) * k > 0
  OBVIOUS
<1>2. d \div k <= m => d < (m + 1) * k
  BY SMT
<1> QED BY <1>1, <1>2

\* With such clocks an answer never spans sources whose last committed events
\* are a second or more further apart than the request allows, nor one short
\* of the cut.
THEOREM AnsweredWithinSkew ==
  ASSUME OrderedClocks PROVE Spec => []AnswerWithinSkew
<1>1. ASSUME Contiguous, Answerable PROVE AnswerWithinSkew
  <2> SUFFICES ASSUME rpc = "consistent", NEW e \in committed, NEW f \in committed,
                      {e.src, f.src} \subseteq Required,
                      e.seq = seenSeq[e.src], f.seq = seenSeq[f.src]
               PROVE  e.time < f.time + (MaxSkew + 1) * Second /\ cut <= e.time
    BY DEF AnswerWithinSkew
  <2>1. MayMaterialize /\ seenMark[e.src] = e.time /\ seenMark[f.src] = f.time
    BY <1>1 DEF Answerable, SeenMarks, Unblocked
  <2>2. e.time \in Nat /\ f.time \in Nat /\ cut <= e.time
    BY <1>1, <2>1, FeedFields, CdcConstants DEF MayMaterialize, Reached, Contiguous, TypeOK
  <2>3. e.time > f.time => (e.time - f.time) \div Second <= MaxSkew
    BY <2>1 DEF MayMaterialize, WithinSkew
  <2>4. e.time > f.time => e.time - f.time < (MaxSkew + 1) * Second
    BY <2>2, <2>3, WholeSeconds, CdcConstants
  <2>5. (MaxSkew + 1) * Second \in Nat /\ (MaxSkew + 1) * Second > 0
    BY WholeSeconds, CdcConstants
  <2> QED BY <2>2, <2>4, <2>5
<1> QED BY <1>1, AnswerableAlways, LogContiguous, PTL

-----------------------------------------------------------------------------
(* Ingestion implements AppendOnlyLogs.                                    *)

\* The refinement mapping, as in CdcLog.
Logs == [s \in Sources |-> [n \in 1 .. seqNo[s] |-> EntryAt(s, n)]]

\* The event of a source at a sequence, among some events.
At(S, s, n) ==
  IF n \in SeqsOf(S, s) THEN CHOOSE e \in S : e.src = s /\ e.seq = n ELSE None

LEMMA AtFinds ==
  ASSUME NEW S, NEW s, NEW n, n \in SeqsOf(S, s)
  PROVE  At(S, s, n) \in S /\ At(S, s, n).src = s /\ At(S, s, n).seq = n
<1>1. \E e \in S : e.src = s /\ e.seq = n
  BY DEF SeqsOf
<1> QED  BY <1>1 DEF At

\* A log is a sequence, as long as the checkpoint says, of events of its source.
LEMMA LogType ==
  ASSUME Contiguous, NEW s \in Sources
  PROVE  /\ Logs[s] \in Seq(Feed) /\ Len(Logs[s]) = seqNo[s] /\ seqNo[s] \in Nat
         /\ \A n \in 1 .. seqNo[s] : /\ Logs[s][n] = At(committed, s, n)
                                     /\ Logs[s][n] \in committed
                                     /\ Logs[s][n].src = s /\ Logs[s][n].seq = n
<1>1. seqNo[s] \in Nat /\ committed \subseteq Feed /\ SeqsOf(committed, s) = 1 .. seqNo[s]
  BY DEF Contiguous, TypeOK, CommittedIsPrefix
<1>2. Logs[s] = [n \in 1 .. seqNo[s] |-> At(committed, s, n)]
  BY DEF Logs, EntryAt, At
<1>3. \A n \in 1 .. seqNo[s] : /\ At(committed, s, n) \in committed
                               /\ At(committed, s, n).src = s
                               /\ At(committed, s, n).seq = n
  BY <1>1, AtFinds
<1>4. Logs[s] \in [1 .. seqNo[s] -> Feed]
  BY <1>1, <1>2, <1>3
<1>5. Logs[s] \in Seq(Feed) /\ Len(Logs[s]) = seqNo[s]
  BY <1>1, <1>4
<1> QED  BY <1>1, <1>2, <1>3, <1>5

LEMMA InitRefinesLogs == Init => Log!Init
<1> SUFFICES ASSUME Init PROVE Logs = [s \in Sources |-> <<>>]
  BY DEF Log!Init, Logs
<1>1. \A s \in Sources : Logs[s] = <<>>
  BY DEF Init, Logs
<1> QED  BY <1>1 DEF Logs

\* An accepted event extends the log of its source by the batch it connects and
\* leaves what the log had: an event is never committed in the place of another.
LEMMA AcceptExtends ==
  ASSUME Contiguous, Contiguous', NEW e \in Feed, Accept(e)
  PROVE  Log!Extend(e.src)
<1>1. /\ e.src \in Sources /\ e.seq = seqNo[e.src] + 1 /\ committed \subseteq committed'
      /\ IsNew(e)
  BY FeedFields DEF Accept
<1>2. PICK last \in Batch(e) : /\ \A r \in Batch(e) : r.seq <= last.seq
                               /\ seqNo' = [seqNo EXCEPT ![e.src] = last.seq]
  BY DEF Accept
<1>3. last.seq \in Nat /\ e.seq <= last.seq
  BY <1>1, <1>2, BatchIsRun
<1>4. /\ seqNo'[e.src] = last.seq
      /\ \A u \in Sources \ {e.src} : seqNo'[u] = seqNo[u]
  BY <1>1, <1>2 DEF Contiguous, TypeOK
<1>5. ASSUME NEW s \in Sources
      PROVE  /\ Logs'[s] \in Seq(Feed) /\ Len(Logs'[s]) = seqNo'[s] /\ seqNo'[s] \in Nat
             /\ \A n \in 1 .. seqNo'[s] : /\ Logs'[s][n] = At(committed', s, n)
                                          /\ Logs'[s][n] \in committed'
                                          /\ Logs'[s][n].src = s /\ Logs'[s][n].seq = n
  <2>1. seqNo'[s] \in Nat /\ committed' \subseteq Feed /\ SeqsOf(committed', s) = 1 .. seqNo'[s]
    BY DEF Contiguous, TypeOK, CommittedIsPrefix, SeqsOf
  <2>2. Logs'[s] = [n \in 1 .. seqNo'[s] |-> At(committed', s, n)]
    BY DEF Logs, EntryAt, At, SeqsOf
  <2>3. \A n \in 1 .. seqNo'[s] : /\ At(committed', s, n) \in committed'
                                  /\ At(committed', s, n).src = s
                                  /\ At(committed', s, n).seq = n
    BY <2>1, AtFinds
  <2>4. Logs'[s] \in [1 .. seqNo'[s] -> Feed]
    BY <2>1, <2>2, <2>3
  <2>5. Logs'[s] \in Seq(Feed) /\ Len(Logs'[s]) = seqNo'[s]
    BY <2>1, <2>4
  <2> QED  BY <2>1, <2>2, <2>3, <2>5
<1>6. ASSUME NEW s \in Sources, NEW n \in 1 .. seqNo[s]
      PROVE  n \in 1 .. seqNo'[s] /\ Logs'[s][n] = Logs[s][n]
  <2>1. seqNo[s] <= seqNo'[s] /\ seqNo[s] \in Nat /\ seqNo'[s] \in Nat
    BY <1>1, <1>3, <1>4, <1>5, LogType
  <2>2. n \in 1 .. seqNo'[s]
    BY <2>1
  <2>3. /\ Logs[s][n] \in committed' /\ Logs[s][n].src = s /\ Logs[s][n].seq = n
        /\ Logs'[s][n] \in committed' /\ Logs'[s][n].src = s /\ Logs'[s][n].seq = n
    BY <1>1, <1>5, <2>2, LogType
  <2>4. committed' \subseteq rows'
    BY DEF Contiguous, TypeOK
  <2>5. \A x, y \in rows' : x.src = y.src /\ x.seq = y.seq => x = y
    BY DEF Contiguous, CommittedIsPrefix
  <2> QED  BY <2>2, <2>3, <2>4, <2>5
<1>7. \A u \in Sources \ {e.src} : Logs'[u] = Logs[u]
  <2> SUFFICES ASSUME NEW u \in Sources \ {e.src} PROVE Logs'[u] = Logs[u]
    OBVIOUS
  <2>1. /\ Logs[u] \in Seq(Feed) /\ Logs'[u] \in Seq(Feed)
        /\ Len(Logs[u]) = seqNo[u] /\ Len(Logs'[u]) = seqNo[u] /\ seqNo[u] \in Nat
        /\ \A n \in 1 .. seqNo[u] : Logs'[u][n] = Logs[u][n]
    BY <1>4, <1>5, <1>6, LogType
  <2> QED  BY <2>1
<1>8. SubSeq(Logs'[e.src], 1, Len(Logs[e.src])) = Logs[e.src]
  <2> DEFINE l == Logs[e.src]
             k == Logs'[e.src]
  <2>1. /\ l \in Seq(Feed) /\ k \in Seq(Feed) /\ Len(l) <= Len(k)
        /\ \A n \in 1 .. Len(l) : k[n] = l[n]
    BY <1>1, <1>3, <1>4, <1>5, <1>6, LogType
  <2> HIDE DEF l, k
  <2>2. SubSeq(k, 1, Len(l)) = l
    BY <2>1
  <2> QED  BY <2>2 DEF l, k
<1>9. Len(Logs'[e.src]) > Len(Logs[e.src])
  BY <1>1, <1>3, <1>4, <1>5, LogType
<1>10. \A n \in 1 .. Len(Logs'[e.src]) : Logs'[e.src][n] \in Feed /\ Logs'[e.src][n].src = e.src
  <2>1. committed' \subseteq Feed
    BY DEF Contiguous, TypeOK
  <2> QED  BY <2>1, <1>1, <1>5
<1> QED  BY <1>7, <1>8, <1>9, <1>10 DEF Log!Extend, Logs

LEMMA StepRefinesLogs ==
  ASSUME Contiguous, Contiguous', [Next]_vars
  PROVE  [Log!Next]_Logs
<1>1. ASSUME NEW e \in Feed, Accept(e) PROVE Log!Next
  <2>1. e.src \in Sources
    BY FeedFields
  <2> QED  BY <1>1, <2>1, AcceptExtends DEF Log!Next
<1>2. ASSUME UNCHANGED <<committed, seqNo>> PROVE Logs' = Logs
  BY <1>2 DEF Logs, EntryAt, SeqsOf
<1>3. (\E e \in Feed : Accept(e)) \/ UNCHANGED <<committed, seqNo>>
  BY DEF Next, vars, store, Deliver, Buffer, Request, ReadCheckpoint, ReadPending, Judge, Load
<1> QED  BY <1>1, <1>2, <1>3

\* ImplementsLogs: whatever arrives in whatever order, what is committed is for
\* each source a log of its own events that grows at its end only; no buffered,
\* repeated or colliding event rewrites an entry.
THEOREM IngestionImplementsLogs == Spec => ImplementsLogs
<1>1. Init => Log!Init
  BY InitRefinesLogs
<1>2. Contiguous /\ Contiguous' /\ [Next]_vars => [Log!Next]_Logs
  BY StepRefinesLogs
<1>3. Contiguous /\ Contiguous' /\ [Next]_vars
        => [Log!Next]_[s \in Sources |-> [n \in 1 .. seqNo[s] |-> EntryAt(s, n)]]
  BY <1>2 DEF Logs
<1> QED  BY <1>1, <1>3, LogContiguous, PTL DEF Spec, ImplementsLogs, Log!Spec
=============================================================================
