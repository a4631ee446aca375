------------------------------ MODULE Journal ------------------------------
(***************************************************************************)
(* The journal of a session and its two readers: recovery, which replays   *)
(* it into a history (crates/project/src/recovery.rs), and the start-up    *)
(* garbage collection, which scans it for a verdict without rebuilding     *)
(* anything (crates/project/src/gc.rs).                                    *)
(*                                                                         *)
(* A record keeps what the two readers look at.  `open` and `state`, which *)
(* neither of them lets influence the document, are left out.              *)
(***************************************************************************)
EXTENDS HistoryOps, SequencesExt

CONSTANT MaxTake        \* bound: take ids are 1..MaxTake

ASSUME MaxTakeIsNat == MaxTake \in Nat

-----------------------------------------------------------------------------
TakeId == 1..MaxTake
NoTake == 0

Checkpoint(hs, I)   == [type |-> "checkpoint", hist |-> hs, ids |-> I]
Chunks(I)           == [type |-> "chunks", ids |-> I]
Edit(seq, e, t, sh) == [type |-> "edit", seq |-> seq, ops |-> e, take |-> t,
                        short |-> sh]   \* short: take_wav_samples is there
UndoRec(seq)        == [type |-> "undo", seq |-> seq]
RedoRec(seq)        == [type |-> "redo", seq |-> seq]
DropUndo(n)         == [type |-> "drop_undo", count |-> n]
Saved(seq)          == [type |-> "saved", seq |-> seq]
TakeBegin(t, al)    == [type |-> "take_begin", take |-> t, aligned |-> al]
TakeWindow(t)       == [type |-> "take_window", take |-> t]
TakeMarker(t, m)    == [type |-> "take_marker", take |-> t, marker |-> m]
TakeDiscard(t)      == [type |-> "take_discard", take |-> t]
TakeCancel(t)       == [type |-> "take_cancel", take |-> t]
Close               == [type |-> "close"]

-----------------------------------------------------------------------------
(* Recovery: replay *)

\* Mutant: an edit record does not close its take.
NoteMetadataKeepsTake(r, rec) ==
  CASE rec.type = "take_begin" ->
         [r EXCEPT !.open = @ \cup {rec.take},
                   !.windowed = IF rec.aligned THEN @ ELSE @ \cup {rec.take},
                   !.max_take = IF rec.take > @ THEN rec.take ELSE @]
    [] rec.type = "take_window" ->
         [r EXCEPT !.windowed = @ \cup ({rec.take} \cap r.open)]
    [] rec.type \in {"take_discard", "take_cancel"} ->
         [r EXCEPT !.open = @ \ {rec.take}, !.windowed = @ \ {rec.take},
                   !.markers[rec.take] = {}]
    [] rec.type = "take_marker" ->
         [r EXCEPT !.markers[rec.take] = @ \cup {rec.marker}]
    [] OTHER -> r

\* Take bookkeeping, which every record contributes wherever it lies.
\* windowed: the open takes whose k_start is known.
NoteMetadata(r, rec) ==
  CASE rec.type = "take_begin" ->
         [r EXCEPT !.open = @ \cup {rec.take},
                   !.windowed = IF rec.aligned THEN @ \ {rec.take}
                                               ELSE @ \cup {rec.take},
                   !.max_take = IF rec.take > @ THEN rec.take ELSE @]
    [] rec.type = "take_window" ->
         [r EXCEPT !.windowed = @ \cup ({rec.take} \cap r.open)]
    [] \/ rec.type \in {"take_discard", "take_cancel"}
       \/ rec.type = "edit" /\ rec.take # NoTake ->
         [r EXCEPT !.open = @ \ {rec.take}, !.windowed = @ \ {rec.take},
                   !.markers[rec.take] = {}]
    [] rec.type = "take_marker" ->
         [r EXCEPT !.markers[rec.take] = @ \cup {rec.marker}]
    [] OTHER -> r

\* rec applies exactly as it did in the live session.
Applies(r, rec) ==
  CASE rec.type = "edit" -> /\ rec.ops.ins \subseteq r.ids
                            /\ Prepares(r.hist, rec.ops)
                            /\ rec.seq = r.hist.next_seq
    [] rec.type = "undo" -> r.hist.undo # <<>> /\ Top(r.hist.undo).seq = rec.seq
    [] rec.type = "redo" -> r.hist.redo # <<>> /\ Top(r.hist.redo).seq = rec.seq
    [] rec.type = "checkpoint" -> FALSE
    [] OTHER -> TRUE

Least(a, b) == IF a < b THEN a ELSE b

ReplayedHistory(hs, rec) ==
  CASE rec.type = "edit"      -> Commit(hs, rec.ops)
    [] rec.type = "undo"      -> Undone(hs)
    [] rec.type = "redo"      -> Redone(hs)
    [] rec.type = "drop_undo" -> DroppedOldest(hs, Least(rec.count, Len(hs.undo)))
    [] rec.type = "saved"     -> MarkedSavedAt(hs, rec.seq)
    [] OTHER                  -> hs

\* Mutant: recovery ignores the saves after the checkpoint.
AppliedWithoutSaves(r, rec) ==
  NoteMetadata(IF rec.type = "chunks" THEN [r EXCEPT !.ids = @ \cup rec.ids]
               ELSE IF rec.type = "saved" THEN r
               ELSE [r EXCEPT !.hist = ReplayedHistory(@, rec)], rec)

Applied(r, rec) ==
  NoteMetadata(IF rec.type = "chunks" THEN [r EXCEPT !.ids = @ \cup rec.ids]
               ELSE [r EXCEPT !.hist = ReplayedHistory(@, rec)], rec)

LastCheckpoint(recs) ==
  CHOOSE i \in DOMAIN recs :
    /\ recs[i].type = "checkpoint"
    /\ \A j \in DOMAIN recs : j > i => recs[j].type # "checkpoint"

\* a: the state so far, how many records it took, and whether one did not apply.
ReplayStep(a, rec) ==
  IF a.stopped \/ ~Applies(a.state, rec)
  THEN [a EXCEPT !.stopped = TRUE]
  ELSE [a EXCEPT !.state = Applied(@, rec), !.consumed = @ + 1]

\* What replay starts from: the last checkpoint, and what the records before it
\* say about takes.
Floor(recs) ==
  LET cp == LastCheckpoint(recs)
  IN  FoldLeft(NoteMetadata,
               [hist |-> recs[cp].hist, ids |-> recs[cp].ids, open |-> {},
                windowed |-> {}, markers |-> [t \in TakeId |-> {}], max_take |-> 0],
               SubSeq(recs, 1, cp - 1))

\* The state the records rebuild, and how many of them do (consumed).  Every
\* journal starts with a checkpoint, so there is always one to start from.
Replay(recs) ==
  LET cp == LastCheckpoint(recs)
  IN  FoldLeft(ReplayStep,
               [state |-> Floor(recs), consumed |-> cp, stopped |-> FALSE],
               SubSeq(recs, cp + 1, Len(recs)))

\* rec introduces or refers to a chunk of I.
ReferencesAny(rec, I) ==
  \/ rec.type = "chunks" /\ rec.ids \cap I # {}
  \/ rec.type = "edit" /\ rec.ops.ins \cap I # {}

\* The chunks rec introduces or refers to.
IdsOf(rec) == CASE rec.type \in {"chunks", "checkpoint"} -> rec.ids
                [] rec.type = "edit" -> rec.ops.ins
                [] OTHER -> {}

-----------------------------------------------------------------------------
(* Garbage collection: summarize and classify_session *)

\* Mutant: a new edit leaves the redo stack in place.
SummarizedKeepsRedo(s, rec) ==
  LET t == [s EXCEPT !.closed = FALSE] IN
  CASE rec.type = "edit" -> [t EXCEPT !.undo = Append(@, rec.seq)]
    [] rec.type = "undo" -> [t EXCEPT !.undo = Pop(@), !.redo = Append(@, rec.seq)]
    [] rec.type = "redo" -> [t EXCEPT !.redo = Pop(@), !.undo = Append(@, rec.seq)]
    [] OTHER -> t

\* One record of the seq-only scan.
Summarized(s, rec) ==
  LET t == [s EXCEPT !.closed = FALSE]
      OnTop(stack) == stack # <<>> /\ Top(stack) = rec.seq
  IN
  CASE rec.type = "edit" ->
         [t EXCEPT !.undo = Append(@, rec.seq), !.redo = <<>>,
                   !.open = @ \ {rec.take},
                   !.truncated = IF rec.short THEN @ \cup {rec.take} ELSE @]
    [] rec.type = "undo" ->
         IF OnTop(t.undo)
         THEN [t EXCEPT !.undo = Pop(@), !.redo = Append(@, rec.seq)]
         ELSE [t EXCEPT !.inconsistent = TRUE]
    [] rec.type = "redo" ->
         IF OnTop(t.redo)
         THEN [t EXCEPT !.redo = Pop(@), !.undo = Append(@, rec.seq)]
         ELSE [t EXCEPT !.inconsistent = TRUE]
    [] rec.type = "take_begin" ->
         IF rec.aligned THEN [t EXCEPT !.pending = @ \cup {rec.take}]
                        ELSE [t EXCEPT !.open = @ \cup {rec.take}]
    [] rec.type = "take_window" ->
         [t EXCEPT !.pending = @ \ {rec.take},
                   !.open = @ \cup ({rec.take} \cap t.pending)]
    [] rec.type \in {"take_discard", "take_cancel"} ->
         [t EXCEPT !.open = @ \ {rec.take}, !.pending = @ \ {rec.take}]
    [] rec.type = "saved" -> [t EXCEPT !.saved_seq = rec.seq]
    [] rec.type = "drop_undo" ->
         [t EXCEPT !.undo = SubSeq(@, Least(rec.count, Len(@)) + 1, Len(@))]
    [] rec.type = "checkpoint" ->
         [t EXCEPT !.undo = [i \in DOMAIN rec.hist.undo |-> rec.hist.undo[i].seq],
                   !.redo = [i \in DOMAIN rec.hist.redo |-> rec.hist.redo[i].seq],
                   !.saved_seq = rec.hist.saved_seq]
    [] rec.type = "close" -> [t EXCEPT !.closed = TRUE]
    [] OTHER -> t

Summary(recs) ==
  FoldLeft(Summarized,
           [closed |-> FALSE, undo |-> <<>>, redo |-> <<>>, saved_seq |-> 0,
            open |-> {}, pending |-> {}, truncated |-> {}, inconsistent |-> FALSE],
           recs)

\* Mutant: a take that was not committed does not make a session recoverable.
CleanIgnoresTakes(recs, torn, present) ==
  LET s == Summary(recs) IN
  /\ ~torn
  /\ s.closed \/ (IF s.undo = <<>> THEN 0 ELSE Top(s.undo)) = s.saved_seq

\* SessionClass::Clean: GC deletes the session.  torn: bytes follow the valid
\* prefix; present: the takes with a WAV file.
Clean(recs, torn, present) ==
  LET s == Summary(recs) IN
  /\ ~torn
  /\ \/ s.closed
     \/ /\ ~s.inconsistent
        /\ (IF s.undo = <<>> THEN 0 ELSE Top(s.undo)) = s.saved_seq
        /\ s.open \cap present = {}
        /\ s.truncated = {}

=============================================================================
