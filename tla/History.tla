------------------------------ MODULE History ------------------------------
(***************************************************************************)
(* The history of one document as a state machine: any sequence of the     *)
(* calls that Session makes on it (crates/project/src/history.rs).         *)
(***************************************************************************)
EXTENDS HistoryOps

CONSTANTS MaxSeq,       \* bound: edits per history
          MaxRev        \* bound: snapshots per history

ASSUME MaxSeqIsNat == MaxSeq \in Nat
ASSUME MaxRevIsNat == MaxRev \in Nat

VARIABLE h

-----------------------------------------------------------------------------
Init == \E p \in SUBSET Chunk, M \in SUBSET MarkerId : h = New(p, M)

Apply(e) ==
  /\ h.next_seq <= MaxSeq /\ h.next_rev <= MaxRev
  /\ Prepares(h, e)
  /\ h' = Commit(h, e)

Undo ==
  /\ h.next_rev <= MaxRev
  /\ h.undo # <<>>
  /\ h' = Undone(h)

Redo ==
  /\ h.next_rev <= MaxRev
  /\ h.redo # <<>>
  /\ h' = Redone(h)

DropOldestUndo(n) ==
  /\ n \in 1..Len(h.undo)
  /\ h' = DroppedOldest(h, n)

\* seq was captured before a save wrote the file, so it may be any past one.
MarkSavedAt(seq) ==
  /\ seq < h.next_seq
  /\ h' = MarkedSavedAt(h, seq)

AllocateMarkerId ==
  /\ h.next_marker_id <= MaxMarker
  /\ h' = AllocatedMarker(h)

\* The caller (Session::set_floor) refuses once there is an edit.
Rebase(p, M) ==
  /\ h.next_rev <= MaxRev
  /\ h.undo = <<>> /\ h.redo = <<>>
  /\ h' = Rebased(h, p, M)

Next ==
  \/ \E e \in EditOps : Apply(e)
  \/ Undo
  \/ Redo
  \/ \E n \in 1..MaxSeq : DropOldestUndo(n)
  \/ \E seq \in 0..MaxSeq : MarkSavedAt(seq)
  \/ AllocateMarkerId
  \/ \E p \in SUBSET Chunk, M \in SUBSET MarkerId : Rebase(p, M)

Spec == Init /\ [][Next]_h

-----------------------------------------------------------------------------
(* Properties *)

\* The history has the shape HistoryState gives it (struct History).
TypeOK == h \in HistoryState

\* The seqs of the undo stack, bottom to top, then of the redo stack, top to
\* bottom, strictly increase and stay below next_seq: a seq names one document
\* of this history, which is what the journal's undo/redo records and the
\* saved seq rely on.
SeqsNameDocuments ==
  /\ \A i, j \in DOMAIN h.undo : i < j => h.undo[i].seq < h.undo[j].seq
  /\ \A i, j \in DOMAIN h.redo : i < j => h.redo[i].seq > h.redo[j].seq
  /\ \A i \in DOMAIN h.undo, j \in DOMAIN h.redo : h.undo[i].seq < h.redo[j].seq
  /\ \A i \in DOMAIN h.undo : h.undo[i].seq \in 1..(h.next_seq - 1)
  /\ \A i \in DOMAIN h.redo : h.redo[i].seq \in 1..(h.next_seq - 1)

\* The state an undo entry leads to, and the one a redo entry starts from.
AfterUndoEntry(i)  == IF i = Len(h.undo) THEN h.current ELSE h.undo[i + 1].snapshot
BeforeRedoEntry(i) == IF i = Len(h.redo) THEN h.current ELSE h.redo[i + 1].snapshot

\* An entry marked as not touching audio has the same samples on both sides,
\* however often it was undone and redone: restamp may then keep audio_rev.
MarkerEntriesKeepSamples ==
  /\ \A i \in DOMAIN h.undo : ~h.undo[i].audio =>
        h.undo[i].snapshot.pieces = AfterUndoEntry(i).pieces
  /\ \A i \in DOMAIN h.redo : ~h.redo[i].audio =>
        h.redo[i].snapshot.pieces = BeforeRedoEntry(i).pieces

\* The current snapshot carries the newest revision numbers handed out.
CurrentIsNewest ==
  /\ h.current.rev = h.next_rev - 1
  /\ h.current.audio_rev = h.next_audio_rev - 1

\* Whoever caches by audio_rev (peaks, tiles, the sidecar-only save) never
\* mistakes one document for another: audio_rev never goes back, and while it
\* stays the samples stay; likewise rev for the whole snapshot.
RevisionsIdentifyContent ==
  [][/\ h'.current.audio_rev >= h.current.audio_rev
     /\ h'.current.audio_rev = h.current.audio_rev
          => h'.current.pieces = h.current.pieces
     /\ h'.current.rev >= h.current.rev
     /\ h'.current.rev = h.current.rev => h'.current = h.current]_h

-----------------------------------------------------------------------------
(* Refinement *)

UL == INSTANCE UndoLog
        WITH Doc  <- [pieces : SUBSET Chunk, markers : SUBSET MarkerId],
             docs <- LineOf(h),
             pos  <- PositionOf(h)

\* Undo and redo restore exactly the documents that were committed, in order.
ImplementsUndoLog == UL!Spec

=============================================================================
