------------------------------ MODULE Session ------------------------------
(***************************************************************************)
(* One document's session (crates/project/src/session.rs, recovery.rs,     *)
(* budget.rs, gc.rs): history, journal, chunk store, takes and the user's  *)
(* file, through edits, recording, saving, compaction, failed writes,      *)
(* crashes, recovery and the start-up garbage collection.                  *)
(*                                                                         *)
(* One action is one call made under the document lock (src-tauri's        *)
(* DocumentService).  A save is three steps, because it writes the file    *)
(* without the lock; the marker commits of a cancelled take are a step     *)
(* each, because the process can stop between them.                        *)
(*                                                                         *)
(* A failed append may leave its records in the file: Journal::append cuts *)
(* them off with a set_len whose own failure it ignores and which it does  *)
(* not sync.  They are in `stray` until the next append overwrites them.   *)
(***************************************************************************)
EXTENDS Journal

CONSTANTS Edits,        \* the edits a user makes
          CueSets,      \* the cue markers an imported file may have
          MaxSeq, MaxRev, MaxLog,       \* bounds: edits, snapshots, records
          MaxFail, MaxCrash, MaxBad     \* bounds: failures, crashes, bad chunks

ASSUME EditsAreOps == Edits \subseteq EditOps
ASSUME CuesAreMarkers == CueSets \subseteq SUBSET MarkerId
ASSUME BoundsAreNat == {MaxSeq, MaxRev, MaxLog, MaxFail, MaxCrash, MaxBad} \subseteq Nat

VARIABLES
  (* in memory *)
  phase,        \* "running", "choice", "down" or "gone"
  h,            \* the history; while down, what it was
  take,         \* the open take; while down, what it was
  pend,         \* markers cancel_take has still to commit
  nextTake,
  journaled,    \* chunks that are in the journal
  save,         \* the save in flight
  (* on disk *)
  log,          \* the journal's records
  stray,        \* records of a failed append, past its end
  torn,         \* other bytes past its end
  chunks,       \* chunks in the store
  next,         \* the next chunk id
  durable,      \* chunks that survive a power loss
  bad,          \* chunks the disk damaged
  wav,          \* what the WAV of each take holds
  file,         \* the document the user's file holds
  (* of the environment and of the properties *)
  fails, crashes,
  ghost

memory  == <<h, take, pend, nextTake, journaled, save>>
journal == <<log, stray, torn, fails>>
disk    == <<chunks, next, durable, bad, wav, file>>
vars    == <<phase, memory, journal, disk, crashes, ghost>>

NoSave    == [state |-> "none"]
NoOpen    == [id |-> NoTake]
Recording == take # NoOpen

\* The document lock is free and no handler is half done.
Idle == phase = "running" /\ pend = {}

-----------------------------------------------------------------------------
(* The two outcomes of Journal::append *)

Room(n) == Len(log) + n <= MaxLog

\* Leftovers of a longer failed append stay behind the new records as garbage.
Writes(recs) ==
  /\ Room(Len(recs))
  /\ log' = log \o recs
  /\ stray' = <<>>
  /\ torn' \in {FALSE, torn \/ stray # <<>>}
  /\ UNCHANGED fails

WriteFails(recs) ==
  /\ fails < MaxFail
  /\ fails' = fails + 1
  /\ stray' \in {<<>>, recs}
  /\ torn' \in {FALSE, torn \/ stray # <<>>}
  /\ UNCHANGED log

\* The process ends.  Of the stray records a prefix is still readable.
Ends ==
  /\ phase' = "down"
  /\ \E k \in 0..Len(stray) :
       /\ log' = log \o SubSeq(stray, 1, k)
       /\ stray' = <<>>
       /\ torn' \in IF k < Len(stray) THEN {torn, TRUE} ELSE {torn}
       /\ ghost' = [ghost EXCEPT !.resurfaced = @ \/ k > 0]

\* The append of recs fails in a call that drops the session then.  g is the
\* ghost, with what the call itself changes in it.
FailsAndEnds(recs, g) ==
  /\ fails < MaxFail /\ Room(Len(recs))
  /\ fails' = fails + 1
  /\ phase' = "down"
  /\ \E k \in 0..Len(recs) :
       /\ log' = log \o SubSeq(recs, 1, k)
       /\ torn' \in {torn, torn \/ k < Len(recs)}
       /\ ghost' = [g EXCEPT !.resurfaced = @ \/ k > 0]
  /\ stray' = <<>>

-----------------------------------------------------------------------------
(* Edits *)

\* Mutant: chunks are not synced before the journal refers to them.
CommitRecordsUnsynced(seq, e, t, short) ==
  /\ Writes(<<Chunks(e.ins \ journaled), Edit(seq, e, t, short)>>)
  /\ journaled' = journaled \cup e.ins
  /\ UNCHANGED durable

\* commit_internal up to the append: chunks are durable before any record
\* refers to them.  A failed sync looks like a failed append.
CommitRecords(seq, e, t, short) ==
  LET new  == e.ins \ journaled
      recs == (IF new = {} THEN <<>> ELSE <<Chunks(new)>>)
                \o <<Edit(seq, e, t, short)>>
  IN  /\ Writes(recs)
      /\ durable' = IF new = {} THEN durable ELSE chunks
      /\ journaled' = journaled \cup new

CommitFails(seq, e, t, short) ==
  LET new  == e.ins \ journaled
      recs == (IF new = {} THEN <<>> ELSE <<Chunks(new)>>)
                \o <<Edit(seq, e, t, short)>>
  IN  /\ WriteFails(recs)
      /\ durable' = IF new = {} THEN durable ELSE chunks
      /\ UNCHANGED journaled

CanStep == h.next_rev <= MaxRev
CanCommit(hs, e) == CanStep /\ h.next_seq <= MaxSeq /\ Prepares(hs, e)

\* An edit job's worker writes audio into the store.
WriteChunk ==
  /\ Idle /\ ~Recording
  /\ chunks \subseteq journaled         \* bound: one loose chunk
  /\ next \in Chunk
  /\ chunks' = chunks \cup {next}
  /\ next' = next + 1
  /\ UNCHANGED <<phase, memory, journal, durable, bad, wav, file, crashes, ghost>>

\* The imported file becomes the undo floor of a session just created, before
\* anyone else has the document.  When that fails the import fails and removes
\* the session's directory, which a crash or an error may leave behind.
SetFloor(p, M) ==
  /\ Idle /\ ~Recording /\ save = NoSave
  /\ h.next_rev = 2 /\ h.next_seq = 1 /\ Len(log) = 1
  /\ p \subseteq chunks
  /\ LET hs   == Rebased(h, p, M)
         new  == p \ journaled
         recs == (IF new = {} THEN <<>> ELSE <<Chunks(new)>>)
                   \o <<Checkpoint(hs, journaled \cup new)>>
     IN  /\ file' = Content(hs.current)
         /\ \/ /\ Writes(recs)
               /\ h' = hs
               /\ journaled' = journaled \cup new
               /\ UNCHANGED <<phase, ghost>>
            \/ /\ FailsAndEnds(recs, [ghost EXCEPT !.closing = TRUE, !.unmarked = TRUE])
               /\ UNCHANGED <<h, journaled>>
            \/ /\ fails < MaxFail
               /\ fails' = fails + 1
               /\ phase' = "gone" /\ stray' = <<>>
               /\ UNCHANGED <<h, journaled, log, torn, ghost>>
         /\ durable' = IF new = {} THEN durable ELSE chunks
  /\ UNCHANGED <<take, pend, nextTake, save, chunks, next, bad, wav, crashes>>

\* An edit inserts audio the document has or a job just wrote, and a marker
\* under the id allocated for it, which stays used if the append fails.
CommitEdit(e) ==
  /\ Idle
  /\ Recording => ~ChangesAudio(e)
  /\ e.ins \subseteq Live(h) \cup (chunks \ journaled)
  /\ e.madd \subseteq {h.next_marker_id}
  /\ LET hs == IF e.madd = {} THEN h ELSE AllocatedMarker(h) IN
       /\ CanCommit(hs, e)
       /\ \/ CommitRecords(h.next_seq, e, NoTake, FALSE) /\ h' = Commit(hs, e)
          \/ CommitFails(h.next_seq, e, NoTake, FALSE) /\ h' = hs
  /\ UNCHANGED <<phase, take, pend, nextTake, save, chunks, next, bad, wav,
                 file, crashes, ghost>>

\* A call that appends one record and then changes the history to hs.
Step(rec, hs) ==
  /\ \/ Writes(<<rec>>) /\ h' = hs
     \/ WriteFails(<<rec>>) /\ UNCHANGED h
  /\ UNCHANGED <<phase, take, pend, nextTake, journaled, save, disk, crashes>>

Undo ==
  /\ Idle /\ ~Recording /\ CanStep
  /\ h.undo # <<>>
  /\ Step(UndoRec(Top(h.undo).seq), Undone(h))
  /\ UNCHANGED ghost

Redo ==
  /\ Idle /\ ~Recording /\ CanStep
  /\ h.redo # <<>>
  /\ Step(RedoRec(Top(h.redo).seq), Redone(h))
  /\ UNCHANGED ghost

\* Housekeeping drops the oldest entries when the disk is short.
DropOldestUndo(n) ==
  /\ Idle /\ ~Recording
  /\ n \in 1..Len(h.undo)
  /\ Step(DropUndo(n), DroppedOldest(h, n))
  /\ ghost' = [ghost EXCEPT !.floorMoved = TRUE]

-----------------------------------------------------------------------------
(* Saving *)

\* finish_save captures the snapshot and its seq under the lock.
BeginSave ==
  /\ Idle /\ save = NoSave
  /\ IsDirty(h)                         \* bound: saves that change something
  /\ save' = [state |-> "writing", seq |-> CurrentSeq(h), doc |-> Content(h.current)]
  /\ UNCHANGED <<phase, h, take, pend, nextTake, journaled, journal, disk,
                 crashes, ghost>>

\* The file is replaced (atomic rename) without the lock, also when the
\* document was closed meanwhile.
WriteFile ==
  /\ save.state = "writing"
  /\ file' = save.doc
  /\ save' = [save EXCEPT !.state = "written"]
  /\ ghost' = [ghost EXCEPT !.unmarked = TRUE]
  /\ UNCHANGED <<phase, h, take, pend, nextTake, journaled, journal, chunks,
                 next, durable, bad, wav, crashes>>

\* Mutant (H-75): the seq that is current now instead of the captured one.
SavedSeqNow(s) == CurrentSeq(h)
SavedSeq(s) == s.seq

\* finish_save, the lock again: the captured seq is recorded as saved, if the
\* document is still this session.
MarkSaved ==
  /\ Idle /\ save.state = "written"
  /\ save' = NoSave
  /\ LET seq == SavedSeq(save) IN
     \/ /\ Writes(<<Saved(seq)>>)
        /\ h' = MarkedSavedAt(h, seq)
        /\ ghost' = [ghost EXCEPT !.unmarked = FALSE]
     \/ /\ WriteFails(<<Saved(seq)>>)
        /\ UNCHANGED <<h, ghost>>
  /\ UNCHANGED <<phase, take, pend, nextTake, journaled, disk, crashes>>

-----------------------------------------------------------------------------
(* Takes.  window: k_start is known (always, unless the take is aligned);   *)
(* ids: its chunks; short: the store lost a part of what the WAV holds.     *)

NewTake(t, aligned) == [id |-> t, window |-> ~aligned, marks |-> {}, ids |-> {},
                        short |-> FALSE]

\* take_begin is journaled before the WAV is created; when that fails the take
\* is closed again, and whether take_discard could be appended is ignored.
BeginTake(aligned) ==
  /\ Idle /\ ~Recording
  /\ nextTake \in TakeId
  /\ \/ /\ Writes(<<TakeBegin(nextTake, aligned)>>)
        /\ take' = NewTake(nextTake, aligned)
        /\ wav' = [wav EXCEPT ![nextTake] = "empty"]
        /\ nextTake' = nextTake + 1
     \/ /\ Writes(<<TakeBegin(nextTake, aligned), TakeDiscard(nextTake)>>)
        /\ nextTake' = nextTake + 1
        /\ UNCHANGED <<take, wav>>
     \/ /\ fails < MaxFail /\ Room(1)
        /\ log' = Append(log, TakeBegin(nextTake, aligned))
        /\ stray' \in {<<>>, <<TakeDiscard(nextTake)>>}
        /\ torn' \in {FALSE, torn \/ stray # <<>>}
        /\ fails' = fails + 1
        /\ nextTake' = nextTake + 1
        /\ UNCHANGED <<take, wav>>
     \/ /\ WriteFails(<<TakeBegin(nextTake, aligned)>>)
        /\ UNCHANGED <<take, wav, nextTake>>
  /\ UNCHANGED <<phase, h, pend, journaled, save, chunks, next, durable, bad,
                 file, crashes, ghost>>

\* The engine opened the aligned window; the note comes on its own thread.
NoteTakeWindow ==
  /\ Idle /\ Recording
  /\ ~take.window
  /\ \/ Writes(<<TakeWindow(take.id)>>) /\ take' = [take EXCEPT !.window = TRUE]
     \/ WriteFails(<<TakeWindow(take.id)>>) /\ UNCHANGED take
  /\ UNCHANGED <<phase, h, pend, nextTake, journaled, save, disk, crashes, ghost>>

\* A marker is added while recording.
NoteTakeMarker ==
  /\ Idle /\ Recording
  /\ h.next_marker_id \in MarkerId
  /\ h' = AllocatedMarker(h)
  /\ LET m == h.next_marker_id IN
     \/ /\ Writes(<<TakeMarker(take.id, m)>>)
        /\ take' = [take EXCEPT !.marks = @ \cup {m}]
     \/ WriteFails(<<TakeMarker(take.id, m)>>) /\ UNCHANGED take
  /\ UNCHANGED <<phase, pend, nextTake, journaled, save, disk, crashes, ghost>>

\* A block of input: the WAV first, then the chunk store, which may fail.
Capture ==
  /\ phase = "running" /\ Recording
  /\ wav' = [wav EXCEPT ![take.id] = "audio"]
  /\ \/ /\ next \in Chunk /\ ~take.short
        /\ take.ids = {}               \* bound: one chunk per take
        /\ take' = [take EXCEPT !.ids = @ \cup {next}]
        /\ chunks' = chunks \cup {next}
        /\ next' = next + 1
     \/ /\ take' = [take EXCEPT !.short = TRUE]
        /\ UNCHANGED <<chunks, next>>
  /\ UNCHANGED <<phase, h, pend, nextTake, journaled, save, journal, durable,
                 bad, file, crashes, ghost>>

\* The take's edit: its audio over del, and the markers noted during it.
TakeEdit(del, t) == [del |-> del, ins |-> t.ids, mdel |-> {}, madd |-> t.marks]

\* commit_take (del = {}) and commit_take_window with a window that is not
\* empty.  Audio that is only in the WAV is never committed, and
\* is not discarded here (DiscardTake does, when the caller has given up).
CommitTake(del) ==
  /\ Idle /\ Recording
  /\ del \subseteq h.current.pieces
  /\ del # {} => take.ids # {}
  /\ LET e == TakeEdit(del, take) IN
       /\ CanCommit(h, e)
       /\ take.ids = {} => ~take.short
       /\ \/ /\ CommitRecords(h.next_seq, e, take.id, take.short)
             /\ h' = Commit(h, e)
             /\ take' = NoOpen
             /\ ghost' = [ghost EXCEPT !.tails = IF take.short THEN @ \cup {take.id}
                                                               ELSE @]
          \/ /\ CommitFails(h.next_seq, e, take.id, take.short)
             /\ UNCHANGED <<h, take, ghost>>
  /\ UNCHANGED <<phase, pend, nextTake, save, chunks, next, bad, wav, file, crashes>>

\* commit_take of an empty take, and discard_take of any.
DiscardTake ==
  /\ Idle /\ Recording
  /\ \/ Writes(<<TakeDiscard(take.id)>>) /\ take' = NoOpen
     \/ WriteFails(<<TakeDiscard(take.id)>>) /\ UNCHANGED take
  /\ UNCHANGED <<phase, h, pend, nextTake, journaled, save, disk, crashes, ghost>>

\* Mutant: cancelling forgets the markers.
PendingNone(t) == {}
Pending(t) == t.marks

\* close_cancelled_take: the take's files are deleted as well as they can be.
CancelTake ==
  /\ Idle /\ Recording
  /\ \/ /\ Writes(<<TakeCancel(take.id)>>)
        /\ take' = NoOpen
        /\ pend' = Pending(take)
        /\ wav' \in {wav, [wav EXCEPT ![take.id] = "none"]}
     \/ WriteFails(<<TakeCancel(take.id)>>) /\ UNCHANGED <<take, pend, wav>>
  /\ UNCHANGED <<phase, h, nextTake, journaled, save, chunks, next, durable, bad,
                 file, crashes, ghost>>

\* cancel_take goes on with one "Add Marker" edit per marker, in order; an
\* error ends it.
CommitPending ==
  /\ phase = "running" /\ pend # {}
  /\ LET m == CHOOSE k \in pend : \A j \in pend : k <= j
         e == [del |-> {}, ins |-> {}, mdel |-> {}, madd |-> {m}]
     IN  /\ CanCommit(h, e)
         /\ \/ /\ CommitRecords(h.next_seq, e, NoTake, FALSE)
               /\ h' = Commit(h, e)
               /\ pend' = pend \ {m}
            \/ /\ CommitFails(h.next_seq, e, NoTake, FALSE)
               /\ pend' = {}
               /\ UNCHANGED h
  /\ UNCHANGED <<phase, take, nextTake, save, chunks, next, bad, wav, file,
                 crashes, ghost>>

-----------------------------------------------------------------------------
(* Housekeeping, closing, crashing *)

\* compact without edits in between (module Compaction has them): the live
\* chunks move to a new store and a new journal starts with a checkpoint.  An
\* error leaves the old generation as it was.
Compact ==
  /\ Idle /\ ~Recording
  /\ Len(log) > 1 /\ ~ghost.compacted   \* bound: one compaction
  /\ log' = <<Checkpoint(h, Live(h))>>
  /\ stray' = <<>> /\ torn' = FALSE
  /\ chunks' = Live(h) /\ durable' = Live(h) /\ journaled' = Live(h)
  /\ ghost' = [ghost EXCEPT !.compacted = TRUE]
  /\ UNCHANGED <<phase, h, take, pend, nextTake, save, next, bad, wav, file,
                 fails, crashes>>

\* The user is done with the document.  DocumentService drops the session on
\* an error too, and leaves it for the next start-up.
CloseSession ==
  /\ Idle /\ ~Recording
  /\ phase' = "down"
  /\ \/ Writes(<<Close>>)
     \/ /\ fails < MaxFail
        /\ fails' = fails + 1
        /\ log' \in {log, Append(log, Close)}
        /\ stray' = <<>>
        /\ torn' \in BOOLEAN
  /\ ghost' = [ghost EXCEPT !.closing = TRUE]
  /\ UNCHANGED <<memory, disk, crashes>>

\* Everything in memory is lost (h and take are kept for the properties); the
\* disk may damage chunks while it is at it.
Crash ==
  /\ phase \in {"running", "choice"} /\ crashes < MaxCrash
  /\ crashes' = crashes + 1
  /\ Ends
  /\ \E D \in SUBSET journaled :
       /\ Cardinality(bad \cup D) <= MaxBad
       /\ bad' = bad \cup D
  /\ pend' = {} /\ save' = NoSave
  /\ UNCHANGED <<h, take, nextTake, journaled, chunks, next, durable, wav, file, fails>>

-----------------------------------------------------------------------------
(* Start-up *)

Present == {t \in TakeId : wav[t] # "none"}

NothingRecoverable == [consumed |-> 0]

\* Mutant: damaged chunks are not looked for.
RecoverableAsIs(recs) == Replay(recs)

\* The newest state whose audio is intact: if a chunk the replayed history
\* refers to is damaged, everything before the first record that brought one
\* in.
Recoverable(recs) ==
  LET all     == Replay(recs)
      corrupt == Live(all.state.hist) \cap bad
      cuts    == {i \in (LastCheckpoint(recs) + 1)..all.consumed :
                    ReferencesAny(recs[i], corrupt)}
      cut     == CHOOSE i \in cuts : \A j \in cuts : i <= j
      again   == Replay(SubSeq(recs, 1, cut - 1))
  IN  IF corrupt = {} THEN all
      ELSE IF cuts = {} THEN NothingRecoverable
      ELSE IF Live(again.state.hist) \cap corrupt # {} THEN NothingRecoverable
      ELSE again

\* The damaged chunks of a history hs that Recoverable did not look for: those
\* the replay of the whole journal does not refer to.
Overlooked(hs) == (Live(hs) \cap bad) \ Live(Replay(log).state.hist)

Highest(S) == CHOOSE n \in S \cup {0} : \A k \in S : k <= n

\* Mutant: the take files are not looked at.
NextTakeOfJournal(r) == r.max_take + 1

NextTakeAfter(r) == Highest({r.max_take} \cup Present) + 1

\* Session::recover: replay, cut the journal after the last record kept, cancel
\* a take that never left its pre-roll, and offer any other.
RecoverFrom(got, r, kept, last) ==
  LET preroll == last # 0 /\ last \notin r.windowed
      open == [NewTake(last, FALSE) EXCEPT !.marks = r.markers[last]]
  IN
  /\ h' = r.hist
  /\ nextTake' = NextTakeAfter(r)
  /\ journaled' = r.ids /\ chunks' = r.ids
  /\ durable' = durable \cap r.ids /\ bad' = bad \cap r.ids
  /\ next' = Highest(Replay(log).state.ids) + 1
  /\ stray' = <<>>
  /\ \/ /\ ~preroll
        /\ log' = kept /\ torn' = FALSE
        /\ take' = IF last = 0 THEN NoOpen ELSE open
        /\ phase' = IF last = 0 THEN "running" ELSE "choice"
        /\ UNCHANGED fails
     \/ /\ preroll /\ Len(kept) < MaxLog
        /\ log' = Append(kept, TakeCancel(last)) /\ torn' = FALSE
        /\ take' = NoOpen
        /\ phase' = "running"
        /\ UNCHANGED fails
     \/ /\ preroll /\ fails < MaxFail    \* the append fails: so does recovery
        /\ log' = kept /\ torn' \in BOOLEAN
        /\ take' = [open EXCEPT !.window = FALSE]
        /\ phase' = "down"
        /\ fails' = fails + 1
  /\ ghost' = [ghost EXCEPT !.closing = Last(log').type = "close",
                            !.resurfaced = FALSE,
                            !.unmarked = @ \/ got.consumed < Len(log),
                            !.tails = IF got.consumed < Len(log) THEN {} ELSE @,
                            !.overlooked = @ \cup Overlooked(r.hist)]
  /\ UNCHANGED <<pend, save, wav, file, crashes>>

Recover ==
  /\ phase = "down"
  /\ ~Clean(log, torn, Present)         \* others are deleted, never offered
  /\ \E got \in {Recoverable(log)} :
       /\ got # NothingRecoverable
       /\ RecoverFrom(got, got.state, SubSeq(log, 1, got.consumed),
                      Highest(got.state.open))

\* "Apply as recorded": the WAV is copied into the store and committed as Stop
\* would have.  On an error the session is dropped and stays for a retry.
RecoverApply(del) ==
  /\ phase = "choice"
  /\ del \subseteq h.current.pieces
  /\ \/ /\ wav[take.id] = "none"
        /\ Ends
        /\ UNCHANGED <<memory, disk, fails>>
     \/ /\ wav[take.id] = "empty"
        /\ \/ /\ Writes(<<TakeDiscard(take.id)>>)
              /\ take' = NoOpen
              /\ phase' = "running"
              /\ UNCHANGED ghost
           \/ FailsAndEnds(<<TakeDiscard(take.id)>>, ghost) /\ UNCHANGED take
        /\ UNCHANGED <<h, pend, nextTake, journaled, save, disk>>
     \/ /\ wav[take.id] = "audio"
        /\ next \in Chunk
        /\ chunks' = chunks \cup {next} /\ durable' = chunks'
        /\ next' = next + 1
        /\ LET e    == TakeEdit(del, [take EXCEPT !.ids = {next}])
               recs == <<Chunks({next}), Edit(h.next_seq, e, take.id, FALSE)>>
           IN  /\ CanCommit(h, e)
               /\ \/ /\ Writes(recs)
                     /\ h' = Commit(h, e)
                     /\ journaled' = journaled \cup {next}
                     /\ take' = NoOpen
                     /\ phase' = "running"
                     /\ UNCHANGED ghost
                  \/ FailsAndEnds(recs, ghost) /\ UNCHANGED <<h, journaled, take>>
        /\ UNCHANGED <<pend, nextTake, save, bad, wav, file>>
  /\ UNCHANGED crashes

\* "Discard", and "Open as new document" once that document has the audio.
RecoverDiscard ==
  /\ phase = "choice"
  /\ \/ /\ Writes(<<TakeDiscard(take.id)>>)
        /\ take' = NoOpen
        /\ phase' = "running"
        /\ UNCHANGED ghost
     \/ FailsAndEnds(<<TakeDiscard(take.id)>>, ghost) /\ UNCHANGED take
  /\ UNCHANGED <<h, pend, nextTake, journaled, save, disk, crashes>>

\* collect_garbage deletes the session; so does the user in the dialog.
CollectGarbage ==
  /\ phase = "down"
  /\ Clean(log, torn, Present)
  /\ phase' = "gone"
  /\ UNCHANGED <<memory, journal, disk, crashes, ghost>>

-----------------------------------------------------------------------------
\* A new recording: an empty floor, nothing saved, no file that says otherwise.
Init ==
  LET hs == New({}, {}) IN
  /\ phase = "running"
  /\ h = hs /\ take = NoOpen /\ pend = {} /\ nextTake = 1
  /\ journaled = {} /\ save = NoSave
  /\ log = <<Checkpoint(hs, {})>> /\ stray = <<>> /\ torn = FALSE
  /\ chunks = {} /\ next = 1 /\ durable = {} /\ bad = {}
  /\ wav = [t \in TakeId |-> "none"]
  /\ file = Content(hs.current)
  /\ fails = 0 /\ crashes = 0
  /\ ghost = [floorMoved |-> FALSE, unmarked |-> FALSE, resurfaced |-> FALSE,
              closing |-> FALSE, compacted |-> FALSE, tails |-> {},
              overlooked |-> {}]

EditNext ==
  \/ WriteChunk
  \/ \E p \in SUBSET Chunk, M \in CueSets : SetFloor(p, M)
  \/ \E e \in Edits : CommitEdit(e)
  \/ Undo \/ Redo
  \/ \E n \in 1..MaxSeq : DropOldestUndo(n)
  \/ BeginSave \/ WriteFile \/ MarkSaved

TakeNext ==
  \/ \E aligned \in BOOLEAN : BeginTake(aligned)
  \/ NoteTakeWindow \/ NoteTakeMarker \/ Capture
  \/ \E del \in SUBSET Chunk : CommitTake(del)
  \/ DiscardTake \/ CancelTake \/ CommitPending

LifeNext ==
  \/ Compact \/ CloseSession \/ Crash
  \/ Recover \/ RecoverDiscard
  \/ \E del \in SUBSET Chunk : RecoverApply(del)
  \/ CollectGarbage

Next == EditNext \/ TakeNext \/ LifeNext

Spec == Init /\ [][Next]_vars

-----------------------------------------------------------------------------
(* Properties *)

Document == [pieces : SUBSET Chunk, markers : SUBSET MarkerId]

TakeState == [id : TakeId, window : BOOLEAN, marks : SUBSET MarkerId,
              ids : SUBSET Chunk, short : BOOLEAN]

\* The state has the shape of struct Session and of the files behind it.
TypeOK ==
  /\ phase \in {"running", "choice", "down", "gone"}
  /\ h \in HistoryState
  /\ take \in TakeState \cup {NoOpen}
  /\ pend \subseteq MarkerId
  /\ nextTake \in 1..(MaxTake + 1)
  /\ save = NoSave \/ save \in [state : {"writing", "written"}, seq : Nat, doc : Document]
  /\ journaled \subseteq chunks /\ chunks \subseteq Chunk /\ durable \subseteq chunks
  /\ bad \subseteq Chunk
  /\ torn \in BOOLEAN
  /\ wav \in [TakeId -> {"none", "empty", "audio"}]
  /\ file \in Document

\* Replaying the journal gives what memory holds, revision stamps included, at
\* every moment a crash could come: history, chunk index, and the open take
\* with its window and markers.  (Marker ids that were only handed out are not
\* journaled.)  A take the journal holds open and memory does not has no WAV.
JournalHoldsMemory ==
  phase # "gone" /\ ~ghost.resurfaced =>
    LET got == Replay(log)
        r   == got.state
    IN  /\ got.consumed = Len(log)
        /\ [r.hist EXCEPT !.next_marker_id = h.next_marker_id] = h
        /\ r.hist.next_marker_id <= h.next_marker_id
        /\ r.ids = journaled
        /\ Recording => /\ take.id \in r.open
                        /\ take.id \in r.windowed <=> take.window
                        /\ r.markers[take.id] = take.marks
        /\ \A t \in r.open : t = take.id \/ wav[t] = "none"

\* The seq-only scan of the garbage collection and the replay of recovery read
\* every journal, also one with resurfaced records, the same way.  (A take that
\* was committed before its window was noted stays in `pending`, unused.)
ScansAgree ==
  LET s == Summary(log)
      r == Replay(log).state
  IN  /\ ~s.inconsistent
      /\ s.undo = [i \in DOMAIN r.hist.undo |-> r.hist.undo[i].seq]
      /\ s.redo = [i \in DOMAIN r.hist.redo |-> r.hist.redo[i].seq]
      /\ s.saved_seq = r.hist.saved_seq
      /\ s.open = r.open \cap r.windowed
      /\ s.pending \cap r.open = r.open \ r.windowed

\* ADR-004 2: no record that is or may become readable refers to a chunk that
\* a power loss could take away.
JournaledChunksDurable ==
  \A rec \in Range(log) \cup Range(stray) : IdsOf(rec) \subseteq durable

\* What Stop or recovery commits is never refused: nothing that is allowed
\* while a take is open, and no crash, hands a marker id of the take to
\* another marker of the document.
TakeMarkersAreFree ==
  Recording => take.marks \cap h.current.markers = {}

\* The next take never meets the WAV of an older one, whatever was compacted,
\* cancelled or lost.
NextTakeIsFresh ==
  phase \in {"running", "choice"} =>
    \A t \in TakeId : t >= nextTake => wav[t] = "none" /\ t \notin Replay(log).state.open

\* The saved seq names what the file holds, except that
\*  - a file was written whose save is not recorded (yet, or not any more: cut
\*    off with a damaged chunk), or
\*  - saved seq 0, the floor, was not the floor any more (dropped entries).
SavedSeqStands == ~ghost.unmarked /\ ~(ghost.floorMoved /\ h.saved_seq = 0)

\* is_dirty: a document that counts as saved is the one in the file, though
\* edits, undo and housekeeping go on while a save writes.  (Damage that one
\* recovery overlooked may make the next one cut the journal under a save that
\* is in flight.)
CleanIsSaved ==
  phase \in {"running", "choice"} /\ ~IsDirty(h) /\ SavedSeqStands
    /\ ghost.overlooked = {} =>
    Content(h.current) = file

\* collect_garbage never deletes a session that holds work: the document of an
\* interrupted one is in the file, it has no take with a WAV, and no WAV with
\* audio that was left out of the document (until a compaction, see
\* TailsAreKept).
GcKeepsWork ==
  phase = "down" /\ Clean(log, torn, Present) /\ ghost.overlooked = {}
    /\ ~ghost.closing /\ ~ghost.resurfaced =>
    /\ SavedSeqStands => Content(h.current) = file
    /\ Recording /\ take.window => wav[take.id] = "none"
    /\ ghost.compacted \/ ghost.tails = {}

MarkersOf(t) == IF t = NoOpen THEN {} ELSE t.marks

\* A marker noted during a take stays with the take or gets into the document,
\* also when the take is cancelled, unless the take is discarded.
TakeMarkersAreKept ==
  [][phase = "running" /\ phase' = "running" /\ fails' = fails =>
       \/ Last(log').type = "take_discard"
       \/ MarkersOf(take) \cup pend \subseteq
            h'.current.markers \cup MarkersOf(take') \cup pend']_vars

\* A history in use refers to no damaged chunk, however many are damaged and
\* however often the journal was cut, but for those a recovery overlooked: it
\* verifies what the whole journal leads to, not what is left after the cut.
RecoveredAudioVerified ==
  phase \in {"running", "choice"} => Live(h) \cap bad \subseteq ghost.overlooked

\* recovery.rs:393, "the newest state whose audio is intact": without exception.
RecoveredAudioIntact ==
  phase \in {"running", "choice"} => Live(h) \cap bad = {}

UL == INSTANCE UndoLog
        WITH Doc <- Document, docs <- LineOf(h), pos <- PositionOf(h)

\* The session implements UndoLog through crashes and recoveries: what comes
\* back is the line and the position the user left, or one step of it further
\* if the last append had failed.
ImplementsUndoLog == UL!Spec

\* session.rs:690, "markers added during it are never lost": each marker of a
\* cancelled take is committed.
CancelledMarkersAreCommitted == [][pend \ pend' \subseteq h'.current.markers]_vars

\* session.rs:900, a short take is recorded "so GC keeps the session and the
\* WAV tail".
TailsAreKept ==
  phase = "down" /\ ghost.tails # {} /\ ~ghost.closing => ~Clean(log, torn, Present)

\* history.rs:313: dirty "while the document differs from the last saved
\* state".  file is that state as long as no save writes.
DirtyWhenDifferent ==
  phase = "running" /\ ~ghost.unmarked /\ Content(h.current) # file => IsDirty(h)

=============================================================================
