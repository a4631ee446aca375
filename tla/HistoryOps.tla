----------------------------- MODULE HistoryOps -----------------------------
(***************************************************************************)
(* crates/project/src/history.rs: the snapshot history of one document, as *)
(* operators on a history record.                                          *)
(* An undo entry keeps the snapshot *before* its edit, a redo entry the    *)
(* one *after* it; undo and redo stamp the snapshot they restore with      *)
(* fresh revision counters, because caches (peaks, spectrogram tiles, the  *)
(* sidecar-only save) are keyed by rev and audio_rev.                      *)
(*                                                                         *)
(* Abstraction: a piece table is the set of chunks it refers to, a marker  *)
(* is its id, and an edit says which chunks and markers it takes out and   *)
(* puts in (a Remove op and a marker dropped by the Shift mapping are both *)
(* in mdel).  Labels, attachments and positions are left out.              *)
(*                                                                         *)
(* The session (module Session) applies these operators when it runs, and  *)
(* recovery (module Journal) when it replays, as the code does.            *)
(***************************************************************************)
EXTENDS Integers, Sequences, FiniteSets

CONSTANTS Chunk,        \* chunk ids
          MaxMarker     \* bound: marker ids are 1..MaxMarker

ASSUME ChunkIsNat     == Chunk \subseteq Nat
ASSUME MaxMarkerIsNat == MaxMarker \in Nat

-----------------------------------------------------------------------------
MarkerId == 1..MaxMarker

Snapshot == [pieces  : SUBSET Chunk, markers   : SUBSET MarkerId,
             rev     : Nat,          audio_rev : Nat]

Entry == [snapshot : Snapshot, seq : Nat, audio : BOOLEAN]

HistoryState ==
  [current    : Snapshot, undo : Seq(Entry), redo : Seq(Entry),
   next_rev   : Nat, next_audio_rev : Nat, next_seq : Nat,
   saved_seq  : Nat, next_marker_id : Nat]

EditOps == [del  : SUBSET Chunk,    ins  : SUBSET Chunk,
            mdel : SUBSET MarkerId, madd : SUBSET MarkerId]

\* The document a snapshot holds, without its revision stamps.
Content(s) == [pieces |-> s.pieces, markers |-> s.markers]

\* The larger of n and one more than the largest id of M.
IdAbove(n, M) == CHOOSE k \in {n} \cup {m + 1 : m \in M} :
                   k >= n /\ \A m \in M : k > m

-----------------------------------------------------------------------------
New(p, M) ==
  [current    |-> [pieces |-> p, markers |-> M, rev |-> 1, audio_rev |-> 1],
   undo       |-> <<>>, redo |-> <<>>,
   next_rev   |-> 2, next_audio_rev |-> 2, next_seq |-> 1,
   saved_seq  |-> 0, next_marker_id |-> IdAbove(1, M)]

\* A new floor that continues the counters of hs.
Rebased(hs, p, M) ==
  [current    |-> [pieces |-> p, markers |-> M,
                   rev |-> hs.next_rev, audio_rev |-> hs.next_audio_rev],
   undo       |-> <<>>, redo |-> <<>>,
   next_rev   |-> hs.next_rev + 1, next_audio_rev |-> hs.next_audio_rev + 1,
   next_seq   |-> hs.next_seq, saved_seq |-> 0,
   next_marker_id |-> IdAbove(hs.next_marker_id, M)]

CurrentSeq(hs) == IF hs.undo = <<>> THEN 0 ELSE hs.undo[Len(hs.undo)].seq

IsDirty(hs) == CurrentSeq(hs) # hs.saved_seq

\* Mutant: a pure deletion is taken for a marker edit.
ChangesAudioOnInsert(e) == e.ins # {}

ChangesAudio(e) == e.del # {} \/ e.ins # {}

\* The checks of prepare: the ops fit the current snapshot and do something.
Prepares(hs, e) ==
  /\ e.del \subseteq hs.current.pieces
  /\ e.mdel \subseteq hs.current.markers
  /\ e.madd \cap (hs.current.markers \ e.mdel) = {}
  /\ ChangesAudio(e) \/ e.mdel \cup e.madd # {}

Prepared(hs, e) ==
  [pieces    |-> (hs.current.pieces \ e.del) \cup e.ins,
   markers   |-> (hs.current.markers \ e.mdel) \cup e.madd,
   rev       |-> hs.next_rev,
   audio_rev |-> IF ChangesAudio(e) THEN hs.next_audio_rev
                                    ELSE hs.current.audio_rev]

\* Mutant: the redo stack survives a new edit.
CommitKeepsRedo(hs, e) ==
  [hs EXCEPT !.current = Prepared(hs, e),
             !.undo = Append(@, [snapshot |-> hs.current, seq |-> hs.next_seq,
                                 audio |-> ChangesAudio(e)]),
             !.next_rev = @ + 1,
             !.next_audio_rev = IF ChangesAudio(e) THEN @ + 1 ELSE @,
             !.next_seq = @ + 1]

Commit(hs, e) ==
  [hs EXCEPT !.current = Prepared(hs, e),
             !.undo = Append(@, [snapshot |-> hs.current, seq |-> hs.next_seq,
                                 audio |-> ChangesAudio(e)]),
             !.redo = <<>>,
             !.next_rev = @ + 1,
             !.next_audio_rev = IF ChangesAudio(e) THEN @ + 1 ELSE @,
             !.next_seq = @ + 1,
             !.next_marker_id = IdAbove(@, e.madd)]

\* Mutant: the restored snapshot keeps its old audio_rev.
RestampOldAudioRev(hs, target, audio) == [target EXCEPT !.rev = hs.next_rev]

\* target with a fresh rev, and a fresh audio_rev only if samples change.
Restamp(hs, target, audio) ==
  [target EXCEPT !.rev = hs.next_rev,
                 !.audio_rev = IF audio THEN hs.next_audio_rev
                                        ELSE hs.current.audio_rev]

Top(stack) == stack[Len(stack)]
Pop(stack) == SubSeq(stack, 1, Len(stack) - 1)

\* Mutant: the redo entry keeps the snapshot before the edit.
UndoneKeepsBefore(hs) ==
  LET entry == Top(hs.undo) IN
  [hs EXCEPT !.current = Restamp(hs, entry.snapshot, entry.audio),
             !.undo = Pop(@),
             !.redo = Append(@, entry),
             !.next_rev = @ + 1,
             !.next_audio_rev = IF entry.audio THEN @ + 1 ELSE @]

Undone(hs) ==
  LET entry == Top(hs.undo) IN
  [hs EXCEPT !.current = Restamp(hs, entry.snapshot, entry.audio),
             !.undo = Pop(@),
             !.redo = Append(@, [entry EXCEPT !.snapshot = hs.current]),
             !.next_rev = @ + 1,
             !.next_audio_rev = IF entry.audio THEN @ + 1 ELSE @]

Redone(hs) ==
  LET entry == Top(hs.redo) IN
  [hs EXCEPT !.current = Restamp(hs, entry.snapshot, entry.audio),
             !.redo = Pop(@),
             !.undo = Append(@, [entry EXCEPT !.snapshot = hs.current]),
             !.next_rev = @ + 1,
             !.next_audio_rev = IF entry.audio THEN @ + 1 ELSE @]

\* n is at most the depth: the code takes the minimum of the two first.
DroppedOldest(hs, n) == [hs EXCEPT !.undo = SubSeq(@, n + 1, Len(@))]

MarkedSavedAt(hs, seq) == [hs EXCEPT !.saved_seq = seq]

\* Mutant: an id is handed out and stays free.
AllocatedNothing(hs) == hs

AllocatedMarker(hs) == [hs EXCEPT !.next_marker_id = @ + 1]

-----------------------------------------------------------------------------
\* Chunks the current snapshot, an undo or a redo entry refers to.
Live(hs) ==
  hs.current.pieces
    \cup (UNION {hs.undo[i].snapshot.pieces : i \in DOMAIN hs.undo})
    \cup (UNION {hs.redo[i].snapshot.pieces : i \in DOMAIN hs.redo})

\* The documents of a history, oldest first: the undo stack bottom to top, the
\* current one, the redo stack top to bottom; and where the current one is.
LineOf(hs) ==
  LET u == Len(hs.undo)
      r == Len(hs.redo)
  IN  [i \in 1..(u + 1 + r) |->
         IF i <= u THEN Content(hs.undo[i].snapshot)
         ELSE IF i = u + 1 THEN Content(hs.current)
         ELSE Content(hs.redo[u + r + 2 - i].snapshot)]

PositionOf(hs) == Len(hs.undo) + 1

=============================================================================
