-------------------------------- MODULE CdcLog --------------------------------
(***************************************************************************)
(* CDC ingestion and as-of materialization: RelationalOperationalStore     *)
(* .apply_cdc_event, which buffers events that arrive ahead of a gap and   *)
(* advances a source's checkpoint over contiguous sequences, and           *)
(* CdcConsistencyService.materialize_as_of, which decides from the         *)
(* checkpoints whether the sources have reached a cut and then reads the   *)
(* committed events up to it.                                              *)
(*                                                                         *)
(* Sources deliver at least once and in any order.  apply_cdc_event is one *)
(* locked transaction and one step.  materialize_as_of reads without the   *)
(* lock, in a session for each checkpoint, one for each list of pending    *)
(* sequences and one for the events, so ingestion happens in between.      *)
(*                                                                         *)
(* One tenant and one partition: every query but the lookup by event_id    *)
(* filters on both, so a further tenant is a further source here.  Steps   *)
(* that only answer (duplicate, collision_rejected, stale_rejected,        *)
(* checksum_rejected) change nothing and are not steps.                    *)
(***************************************************************************)
EXTENDS Naturals, FiniteSets

CONSTANTS
  Sources,
  Feed,      \* the events the sources may deliver
  Ids,       \* event ids: primary key over all sources
  Entities,
  Required,  \* required_sources of the as-of request
  Cuts,      \* the as_of times requested
  Second,    \* ticks of the source clocks in a second
  MaxSkew,   \* max_source_skew_seconds
  None

Event == [id: Ids, src: Sources, seq: Nat \ {0}, time: Nat,
          ent: Entities, op: {"upsert", "delete"}]

ASSUME CdcConstants ==
  /\ Feed \subseteq Event
  /\ Required \subseteq Sources
  /\ Required # {}
  /\ Cuts \subseteq Nat
  /\ Second \in Nat \ {0}
  /\ MaxSkew \in Nat
  /\ None \notin Nat

VARIABLES
  rows,       \* stored events
  committed,  \* those whose committed flag is set
  seqNo,      \* checkpoints: committed_sequence; 0 when there is no row
  mark,       \* checkpoints: watermark_at
  rpc,        \* the as-of request: where it is,
  cut,        \*   its as_of,
  asked,      \*   per required source the next read,
  seenSeq,    \*   the checkpoints it has read,
  seenMark,
  seenGap,    \*   whether it saw a sequence gap,
  snap        \*   the events it read

store  == <<rows, committed, seqNo, mark>>
reader == <<rpc, cut, asked, seenSeq, seenMark, seenGap, snap>>
vars   == <<store, reader>>

TypeOK ==
  /\ rows \subseteq Feed
  /\ committed \subseteq rows
  /\ seqNo \in [Sources -> Nat]
  /\ mark \in [Sources -> Nat \cup {None}]
  /\ rpc \in {"idle", "reading", "loading", "blocked", "consistent"}
  /\ cut \in Cuts \cup {None}
  /\ asked \in [Required -> {"checkpoint", "pending", "done"}]
  /\ seenSeq \in [Required -> Nat]
  /\ seenMark \in [Required -> Nat \cup {None}]
  /\ seenGap \in [Required -> BOOLEAN]
  /\ snap \subseteq Feed

Init ==
  /\ rows = {}
  /\ committed = {}
  /\ seqNo = [s \in Sources |-> 0]
  /\ mark = [s \in Sources |-> None]
  /\ rpc = "idle"
  /\ cut = None
  /\ asked = [s \in Required |-> "checkpoint"]
  /\ seenSeq = [s \in Required |-> 0]
  /\ seenMark = [s \in Required |-> None]
  /\ seenGap = [s \in Required |-> FALSE]
  /\ snap = {}

-----------------------------------------------------------------------------
(* Ingestion.  The operators named Mut... are the mutated forms that show a   *)
(* property is sensitive to the code; nothing uses them.                    *)

\* Neither a duplicate or a collision of the event id, nor of the source's
\* sequence, nor behind the checkpoint.
IsNew(e) ==
  /\ \A r \in rows : r.id # e.id
  /\ \A r \in rows : r.src = e.src => r.seq # e.seq
  /\ e.seq > seqNo[e.src]

\* The rows of e's source from e on, up to the first missing sequence.
MutBatch(e) == {r \in rows \cup {e} : r.src = e.src /\ r.seq >= e.seq}
Batch(e) ==
  {r \in rows \cup {e} :
     /\ r.src = e.src
     /\ r.seq >= e.seq
     /\ \A n \in e.seq .. r.seq : \E q \in rows \cup {e} : q.src = e.src /\ q.seq = n}

\* The row is inserted before anything else is decided.
MutStored(e) == rows
Stored(e) == rows \cup {e}

\* The watermark of an accepted batch: its latest time, and of this batch
\* alone, whatever the checkpoint's watermark was.
IsWatermark(e, t) == \A r \in Batch(e) : r.time <= t

\* gap_buffered: the event is stored and waits.
Buffer(e) ==
  /\ IsNew(e)
  /\ e.seq # seqNo[e.src] + 1
  /\ rows' = Stored(e)
  /\ UNCHANGED <<committed, seqNo, mark, reader>>

\* accepted: the event and every buffered one it connects are committed, and
\* the checkpoint moves to the last of them.
MutAccept(e) ==
  /\ IsNew(e)
  /\ e.seq = seqNo[e.src] + 1
  /\ rows' = Stored(e)
  /\ committed' = committed \cup {e}
  /\ seqNo' = [seqNo EXCEPT ![e.src] = e.seq]
  /\ mark' = [mark EXCEPT ![e.src] = e.time]
  /\ UNCHANGED reader
Accept(e) ==
  /\ IsNew(e)
  /\ e.seq = seqNo[e.src] + 1
  /\ rows' = Stored(e)
  /\ committed' = committed \cup Batch(e)
  /\ \E last \in Batch(e) :
       /\ \A r \in Batch(e) : r.seq <= last.seq
       /\ seqNo' = [seqNo EXCEPT ![e.src] = last.seq]
  /\ \E t \in {r.time : r \in Batch(e)} :
       /\ IsWatermark(e, t)
       /\ mark' = [mark EXCEPT ![e.src] = t]
  /\ UNCHANGED reader

Deliver(e) == Buffer(e) \/ Accept(e)

-----------------------------------------------------------------------------
(* An as-of request.                                                       *)

\* A new request, when the previous one has been answered.
Request(c) ==
  /\ rpc \in {"idle", "blocked", "consistent"}
  /\ rpc' = "reading"
  /\ cut' = c
  /\ asked' = [s \in Required |-> "checkpoint"]
  /\ seenSeq' = [s \in Required |-> 0]
  /\ seenMark' = [s \in Required |-> None]
  /\ seenGap' = [s \in Required |-> FALSE]
  /\ snap' = {}
  /\ UNCHANGED store

\* watermark() of one source: its checkpoint, then its pending sequences;
\* the sources are asked one after the other.
ReadCheckpoint(s) ==
  /\ rpc = "reading"
  /\ asked[s] = "checkpoint"
  /\ \A u \in Required : asked[u] # "pending"
  /\ seenSeq' = [seenSeq EXCEPT ![s] = seqNo[s]]
  /\ seenMark' = [seenMark EXCEPT ![s] = mark[s]]
  /\ asked' = [asked EXCEPT ![s] = "pending"]
  /\ UNCHANGED <<store, rpc, cut, seenGap, snap>>

PendingAfter(s, n) == {r.seq : r \in {q \in rows \ committed : q.src = s /\ q.seq > n}}

\* _missing_sequences: what is absent between the checkpoint and the last
\* pending sequence.
Missing(n, pending) == UNION {((n + 1) .. p) \ pending : p \in pending}

ReadPending(s) ==
  /\ rpc = "reading"
  /\ asked[s] = "pending"
  /\ seenGap' = [seenGap EXCEPT ![s] = Missing(seenSeq[s], PendingAfter(s, seenSeq[s])) # {}]
  /\ asked' = [asked EXCEPT ![s] = "done"]
  /\ UNCHANGED <<store, rpc, cut, seenSeq, seenMark, snap>>

MutReached(s) == seenSeq[s] # 0
Reached(s) == seenSeq[s] # 0 /\ seenMark[s] # None /\ seenMark[s] >= cut

MutWithinSkew == TRUE
\* Whole seconds are compared: int() drops the fraction of the difference.
WithinSkew ==
  \A s, u \in Required :
    seenMark[s] > seenMark[u] => (seenMark[s] - seenMark[u]) \div Second <= MaxSkew

\* The blockers: a missing or stale checkpoint, a gap, or too much skew.
MayMaterialize ==
  /\ \A s \in Required : Reached(s) /\ ~seenGap[s]
  /\ WithinSkew

Judge ==
  /\ rpc = "reading"
  /\ \A s \in Required : asked[s] = "done"
  /\ rpc' = IF MayMaterialize THEN "loading" ELSE "blocked"
  /\ UNCHANGED <<store, cut, asked, seenSeq, seenMark, seenGap, snap>>

\* committed_events_as_of, whatever the checkpoints are by now.
MutUpTo(c) == {r \in committed : r.src \in Required /\ r.time < c}
UpTo(c) == {r \in committed : r.src \in Required /\ r.time <= c}

Load ==
  /\ rpc = "loading"
  /\ snap' = UpTo(cut)
  /\ rpc' = "consistent"
  /\ UNCHANGED <<store, cut, asked, seenSeq, seenMark, seenGap>>

\* The fold of the rows in sequence order: the entities of the answer, each
\* as the event that gives its value.
View(S) ==
  {e \in S : /\ e.op = "upsert"
             /\ \A r \in S : r.src = e.src /\ r.ent = e.ent => r.seq <= e.seq}

-----------------------------------------------------------------------------

Next ==
  \/ \E e \in Feed : Deliver(e)
  \/ \E c \in Cuts : Request(c)
  \/ \E s \in Required : ReadCheckpoint(s) \/ ReadPending(s)
  \/ Judge
  \/ Load

Spec == Init /\ [][Next]_vars

\* Every event is delivered until the store has taken it.
FairSpec == Spec /\ \A e \in Feed : WF_vars(Deliver(e))

-----------------------------------------------------------------------------
(* Properties.                                                             *)

SeqsOf(S, s) == {e.seq : e \in {r \in S : r.src = s}}

\* Whatever the order of arrival, the committed events of a source are those
\* with the sequences 1 to its checkpoint, one each: the flag of the event
\* rows and the checkpoint row, two tables, never disagree.
CommittedIsPrefix ==
  /\ \A s \in Sources : SeqsOf(committed, s) = 1 .. seqNo[s]
  /\ \A e, f \in rows : e.src = f.src /\ e.seq = f.seq => e = f

\* No event that could be committed is left waiting: a buffered one is
\* separated from the checkpoint by a missing sequence.
NothingCommittableWaits ==
  \A e \in rows \ committed : e.seq > seqNo[e.src] + 1

\* An answer holds everything it vouches for: the committed events up to the
\* checkpoints it reports and the requested cut, although events are read
\* after the checkpoints, and nothing uncommitted.
SnapshotIsComplete ==
  rpc = "consistent" =>
    /\ \A e \in rows : e.src \in Required /\ e.seq <= seenSeq[e.src] /\ e.time <= cut => e \in snap
    /\ snap \subseteq committed

\* With source clocks that follow the sequence, an answered cut is final:
\* what ingestion commits later never changes the entities as of that cut.
CutIsFinal == rpc = "consistent" => View(snap) = View(UpTo(cut))

\* With such clocks the watermark is the time of the last committed event, in
\* whatever order and batches the events arrived.
MarkIsLastCommitted ==
  \A e \in committed : e.seq = seqNo[e.src] => mark[e.src] = e.time

\* An answer never spans sources whose last committed events are a second or
\* more further apart than the request allows (less than a second is lost to
\* the truncation), nor one that has not reached the cut.
AnswerWithinSkew ==
  rpc = "consistent" =>
    \A e, f \in committed :
      /\ {e.src, f.src} \subseteq Required
      /\ e.seq = seenSeq[e.src] /\ f.seq = seenSeq[f.src]
      => e.time < f.time + (MaxSkew + 1) * Second /\ cut <= e.time

\* Gaps close: when every event of a contiguous feed is delivered in the end,
\* every source's checkpoint reaches its last sequence.
CatchesUp == \A e \in Feed : <>(seqNo[e.src] >= e.seq)

\* The committed event of a source at a sequence up to its checkpoint.
EntryAt(s, n) ==
  IF n \in SeqsOf(committed, s)
  THEN CHOOSE e \in committed : e.src = s /\ e.seq = n
  ELSE None

\* Ingestion implements a set of logs that only ever grow at the end.
Log == INSTANCE AppendOnlyLogs WITH
  Entries <- Feed,
  log <- [s \in Sources |-> [n \in 1 .. seqNo[s] |-> EntryAt(s, n)]]

ImplementsLogs == Log!Spec

\* cdc_consistency.py, claim_boundary: the snapshot is complete only through
\* the contiguous committed sequences (that it reports) and later events are
\* excluded.
LaterEventsExcluded ==
  rpc = "consistent" => \A e \in snap : e.seq <= seenSeq[e.src]
=============================================================================
