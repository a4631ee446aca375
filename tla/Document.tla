----------------------------- MODULE Document -----------------------------
(***************************************************************************)
(* The document service (src-tauri/src/document.rs): one open document     *)
(* shared by the commands of the user interface, the paste and normalize   *)
(* jobs, the housekeeping thread, an import and the engine's take.         *)
(*                                                                         *)
(* An action is what one thread does while it holds the document lock, or  *)
(* between two times it holds it: jobs and housekeeping work on a store    *)
(* they took earlier, an import makes its session before the document is   *)
(* replaced, and a command looks at the busy flags before it takes the     *)
(* lock.  Chunks matter only for what they hold, a piece is one chunk of   *)
(* a snapshot together with the audio it was made for, and a selection is  *)
(* one piece.  Journals, files and crashes are modelled in Session.        *)
(***************************************************************************)
EXTENDS Naturals, FiniteSets, Functions, SequencesExt

CONSTANTS Rates,        \* sample rates of documents
          Threads,      \* what runs besides the commands,
          MaxSid,       \* bounds: sessions,
          MaxSteps,     \* undo and redo steps of a document,
          MaxGen,       \* compactions of one session,
          MaxChunk,     \* chunks of one store
          MaxAtOnce     \* and threads at work at the same time

ASSUME BoundsAreNat ==
  {MaxSid, MaxSteps, MaxGen, MaxChunk, MaxAtOnce} \subseteq Nat

\* An import makes a chunk.
ASSUME ImportFits == MaxChunk >= 1

ASSUME ThreadsAreKnown ==
  Threads \subseteq {"paste", "normalize", "house", "open", "close", "take"}

VARIABLES
  doc,          \* the open document
  clip,         \* the clipboard
  stores,       \* the chunk stores, one per session and generation, while a
                \* document reads them
  fate,         \* what became of each session
  early,        \* the command that found the busy flags clear before a job set one
  paste, norm,  \* the job behind paste_busy, the one behind normalize_busy
  house,        \* the housekeeping thread
  opener,       \* an open or a recovery
  closer,       \* a close
  rec,          \* the take the engine writes
  engine,       \* the document the engine plays
  (* of the properties *)
  owed,         \* sessions with the audio of a take that no document has
  givenUp,      \* the same, where the take was closed in the open document
  slips         \* overlaps the code lets happen

jobs == <<paste, norm, house>>
ghosts == <<owed, givenUp, slips>>
vars == <<doc, clip, stores, fate, early, jobs, opener, closer, rec, engine, ghosts>>

Sid    == 1..MaxSid
Key    == Sid \X (0..MaxGen)
Audio  == Key \X (1..MaxChunk)          \* where the audio was first written
Piece  == [id : 1..MaxChunk, audio : Audio]
NoJob  == [st |-> "none"]
NoDoc  == [sid |-> 0]
Empty  == [kind |-> "none"]
NoPiece == [id |-> 0]
NoStore == [data |-> <<>>, next |-> 1]

One(b) == IF b THEN 1 ELSE 0

\* Bound: one more thread may begin its work.
MayStart(thread) ==
  /\ thread \in Threads
  /\ One(paste # NoJob) + One(norm # NoJob) + One(house # NoJob)
       + One(opener # NoJob) + One(closer # NoJob) + One(rec # NoJob) < MaxAtOnce

-----------------------------------------------------------------------------
(* Documents and their stores *)

Recording == doc # NoDoc /\ doc.take

KeyOf(d)  == <<d.sid, d.gen>>
Data(d)   == stores[KeyOf(d)].data
Ids(P)    == {p.id : p \in P}
Pieces(d) == d.cur \cup UNION (Range(d.undo) \cup Range(d.redo))

\* What the engine is given to play.
Shown(d) == IF d = NoDoc THEN NoDoc ELSE [sid |-> d.sid, gen |-> d.gen, rev |-> d.rev]

\* Mutant: the document is published before it is changed.
PublishesEarly == engine' = Shown(doc)

Publishes == engine' = Shown(doc')

NewDoc(s, rate, P) ==
  [sid |-> s, gen |-> 0, rate |-> rate, rev |-> 1, cur |-> P,
   undo |-> <<>>, redo |-> <<>>, take |-> FALSE]

\* The next chunk of a store gets audio a.
WriteAs(key, a) ==
  stores' = [stores EXCEPT ![key] =
               [data |-> [n \in DOMAIN @.data \cup {@.next} |->
                            IF n = @.next THEN a ELSE @.data[n]],
                next |-> @.next + 1]]

\* What is in a store no document reads any more does not matter.
WithoutSession(s) == [k \in Key |-> IF k[1] = s THEN NoStore ELSE stores[k]]

\* Compaction has already left the store a job writes to.
Late(key) == IF doc # NoDoc /\ doc.sid = key[1] /\ KeyOf(doc) # key THEN {"late"} ELSE {}

CanWrite(key)  == stores[key].next <= MaxChunk
NextPiece(key, a) == [id |-> stores[key].next, audio |-> a]
Fresh(key)     == <<key, stores[key].next>>

\* commit_internal: every piece must name a chunk of the current store, and
\* audio is not edited under an open take.
CanCommit(P) ==
  /\ doc # NoDoc /\ ~Recording
  /\ Ids(P) \subseteq DOMAIN Data(doc)

\* Revisions are compared with each other and never ordered: the next one is
\* the least that neither the document, the engine nor a job remembers.
NextRev ==
  LET known == {doc.rev} \cup {e.rev : e \in {x \in {engine} : x # NoDoc}}
                 \cup {j.rev : j \in {x \in {norm} : x # NoJob}}
  IN  CHOOSE n \in 1..4 : n \notin known /\ \A m \in 1..(n - 1) : m \in known

Commits(P) ==
  /\ Len(doc.undo) < MaxSteps
  /\ doc' = [doc EXCEPT !.cur = P, !.rev = NextRev,
                        !.undo = Append(@, doc.cur), !.redo = <<>>]
  /\ Publishes

-----------------------------------------------------------------------------
(* The clipboard *)

Bound(p, d) == [kind |-> "bound", piece |-> p, rate |-> d.rate, owner |-> d.sid]

\* The chunks of a session the clipboard names.
Reachable(c, s) ==
  CASE c.kind = "bound" -> {c.piece}
    [] c.kind = "file"  -> IF c.for = s THEN {c.piece} ELSE {}
    [] OTHER            -> {}

\* materialize_clipboard: what the closing store holds goes to a file.  A chunk
\* that is not there, or a full disk, loses the clipboard.
Materialized(c, key) ==
  IF c.kind # "bound" THEN {c}
  ELSE {Empty} \cup
         (IF c.piece.id \in DOMAIN stores[key].data
            THEN {[kind |-> "file", audio |-> stores[key].data[c.piece.id], rate |-> c.rate,
                   meant |-> c.piece.audio, for |-> 0, piece |-> NoPiece]}
            ELSE {})

-----------------------------------------------------------------------------
(* Replacing and closing documents *)

\* Mutant: a document with an open take is closed like any other.
ReplacesWithTake(new) ==
  /\ doc' = new
  /\ clip' \in IF doc = NoDoc THEN {clip} ELSE Materialized(clip, KeyOf(doc))
  /\ fate' = IF doc = NoDoc THEN [fate EXCEPT ![new.sid] = "open"]
             ELSE [fate EXCEPT ![new.sid] = "open", ![doc.sid] = "closing"]
  /\ stores' = WithoutSession(doc.sid)

\* A session goes back to another one: the clipboard leaves its store and the
\* session is closed when the lock is free again.
Replaces(new) ==
  /\ doc' = new
  /\ clip' \in IF doc = NoDoc THEN {clip} ELSE Materialized(clip, KeyOf(doc))
  /\ fate' = IF doc = NoDoc THEN [fate EXCEPT ![new.sid] = "open"]
             ELSE [fate EXCEPT ![new.sid] = "open",
                               ![doc.sid] = IF Recording THEN "left" ELSE "closing"]
  /\ stores' = WithoutSession(doc.sid)

\* Who still holds a session's store.
InUse(s) ==
  \/ engine # NoDoc /\ engine.sid = s
  \/ \E j \in {paste, norm} : j # NoJob /\ j.sid = s
  \/ house.st = "copy" /\ house.sid = s
  \/ rec # NoJob /\ rec.sid = s

\* close_with_retry: Session::close deletes the directory unless someone holds
\* the store; after a few tries it is left for the garbage collection.
CloseSession(s) ==
  /\ fate[s] = "closing"
  /\ fate' = [fate EXCEPT ![s] = IF InUse(s) THEN "left" ELSE "deleted"]
  /\ UNCHANGED <<doc, clip, stores, early, jobs, opener, closer, rec, engine, ghosts>>

\* The clipboard of the document that is being closed is still in its store.
NotKept == IF closer.st = "taken" THEN {"foreign"} ELSE {}

\* This thread's document, or what it tells the engine, crosses with an open
\* that has told the engine already or with a close that has still to do it.
Crossed ==
  (IF opener.st = "show" \/ closer # NoJob THEN {"crossed"} ELSE {}) \cup NotKept

NewSession(s) == s \in Sid /\ fate[s] = "unused" /\ \A t \in Sid : t < s => fate[t] # "unused"

\* open_impl and recover up to the lock: refused while recording; the session is
\* made and filled while the document in use stays open.
BeginOpen ==
  /\ MayStart("open") /\ opener = NoJob
  /\ ~Recording
  /\ \E s \in Sid, rate \in Rates :
       /\ NewSession(s)
       /\ opener' = [st |-> "import", sid |-> s, rate |-> rate]
       /\ fate' = [fate EXCEPT ![s] = "new"]
       /\ WriteAs(<<s, 0>>, Fresh(<<s, 0>>))
  /\ UNCHANGED <<doc, clip, early, jobs, closer, rec, engine, ghosts>>

\* A failed or cancelled import removes its directory.
OpenFails ==
  /\ opener.st = "import"
  /\ fate' = [fate EXCEPT ![opener.sid] = "deleted"]
  /\ stores' = [stores EXCEPT ![<<opener.sid, 0>>] = NoStore]
  /\ opener' = NoJob
  /\ UNCHANGED <<doc, clip, early, jobs, closer, rec, engine, ghosts>>

Opened == NewDoc(opener.sid, opener.rate, {[id |-> 1, audio |-> <<<<opener.sid, 0>>, 1>>]})

\* The engine gets the new document before it is the open one.
OpenShow ==
  /\ opener.st = "import"
  /\ opener' = [opener EXCEPT !.st = "show"]
  /\ engine' = Shown(Opened)
  /\ UNCHANGED <<doc, clip, stores, fate, early, jobs, closer, rec, ghosts>>

\* Recording is not looked at again.
OpenInstall ==
  /\ opener.st = "show"
  /\ Replaces(Opened)
  /\ opener' = NoJob
  /\ slips' = slips \cup (IF closer # NoJob THEN {"crossed"} ELSE {}) \cup NotKept
                    \cup (IF Recording THEN {"overtaken"} ELSE {})
  /\ UNCHANGED <<early, jobs, closer, rec, engine, owed, givenUp>>

\* close: the document is taken under the lock, the rest happens after it.
CloseTakes ==
  /\ MayStart("close") /\ closer = NoJob
  /\ doc # NoDoc /\ ~Recording
  /\ closer' = [st |-> "taken", key |-> KeyOf(doc)]
  /\ doc' = NoDoc
  /\ UNCHANGED <<clip, stores, fate, early, jobs, opener, rec, engine, ghosts>>

CloseClipboard ==
  /\ closer.st = "taken"
  /\ clip' \in Materialized(clip, closer.key)
  /\ slips' = slips \cup (IF clip.kind = "bound" /\ clip.owner # closer.key[1]
                            THEN {"foreign"} ELSE {})
  /\ stores' = WithoutSession(closer.key[1])
  /\ closer' = [closer EXCEPT !.st = "kept"]
  /\ UNCHANGED <<doc, fate, early, jobs, opener, rec, engine, owed, givenUp>>

CloseEngine ==
  /\ closer.st = "kept"
  /\ engine' = NoDoc
  /\ slips' = slips \cup (IF doc # NoDoc \/ opener.st = "show" THEN {"crossed"} ELSE {})
  /\ fate' = [fate EXCEPT ![closer.key[1]] = "closing"]
  /\ closer' = NoJob
  /\ UNCHANGED <<doc, clip, stores, early, jobs, opener, rec, owed, givenUp>>

-----------------------------------------------------------------------------
(* Commands *)

\* What a command looks at before it takes the lock.
Free == [edit    |-> norm = NoJob /\ paste = NoJob,
         history |-> norm = NoJob]

Passes(g) == Free[g] \/ early = g

\* A command may have looked just before a job begins, and wait for the lock.
MayBeEarly(stopped) == early' \in {early} \cup {g \in stopped : Passes(g)}
LeavesEarly(other) == early' = IF other = NoJob THEN "none" ELSE early

Command(g) ==
  /\ Passes(g)
  /\ early' = IF Free[g] THEN early ELSE "none"
  /\ doc # NoDoc /\ ~Recording

EditCut ==
  /\ Command("edit")
  /\ \E p \in doc.cur :
       /\ Commits(doc.cur \ {p})
       /\ clip' = Bound(p, doc)
  /\ slips' = slips \cup Crossed
  /\ UNCHANGED <<stores, fate, jobs, opener, closer, rec, owed, givenUp>>

EditCopy ==
  /\ Command("edit")
  /\ \E p \in doc.cur : clip' = Bound(p, doc)
  /\ UNCHANGED <<doc, stores, fate, jobs, opener, closer, rec, engine, ghosts>>

\* A splice of the pieces the clipboard has in this session.
EditPaste ==
  /\ Command("edit")
  /\ \E p \in Reachable(clip, doc.sid) :
       /\ CanCommit({p})
       /\ Commits(doc.cur \cup {p})
  /\ slips' = slips \cup Crossed
  /\ UNCHANGED <<clip, stores, fate, jobs, opener, closer, rec, owed, givenUp>>

\* Delete, trim and silence take pieces away.
EditDelete ==
  /\ Command("edit")
  /\ \E p \in doc.cur : Commits(doc.cur \ {p})
  /\ slips' = slips \cup Crossed
  /\ UNCHANGED <<clip, stores, fate, jobs, opener, closer, rec, owed, givenUp>>

Undo ==
  /\ Command("history")
  /\ doc.undo # <<>>
  /\ doc' = [doc EXCEPT !.rev = NextRev, !.cur = Last(doc.undo), !.undo = Front(@),
                        !.redo = Append(@, doc.cur)]
  /\ Publishes
  /\ slips' = slips \cup Crossed
  /\ UNCHANGED <<clip, stores, fate, jobs, opener, closer, rec, owed, givenUp>>

Redo ==
  /\ Command("history")
  /\ doc.redo # <<>>
  /\ doc' = [doc EXCEPT !.rev = NextRev, !.cur = Last(doc.redo), !.redo = Front(@),
                        !.undo = Append(@, doc.cur)]
  /\ Publishes
  /\ slips' = slips \cup Crossed
  /\ UNCHANGED <<clip, stores, fate, jobs, opener, closer, rec, owed, givenUp>>

-----------------------------------------------------------------------------
(* The paste job: a materialized clip is imported into the store *)

BeginPaste ==
  /\ MayStart("paste") /\ paste = NoJob /\ norm = NoJob
  /\ doc # NoDoc /\ ~Recording
  /\ clip.kind = "file"
  /\ paste' = [st |-> "run", sid |-> doc.sid, key |-> KeyOf(doc), rate |-> doc.rate,
               clip |-> clip, piece |-> NoPiece]
  /\ MayBeEarly({"edit"})
  /\ UNCHANGED <<doc, clip, stores, fate, norm, house, opener, closer, rec, engine, ghosts>>

PasteImports ==
  /\ paste.st = "run" /\ CanWrite(paste.key)
  /\ WriteAs(paste.key, paste.clip.audio)
  /\ paste' = [paste EXCEPT !.st = "written",
                            !.piece = NextPiece(paste.key, paste.clip.audio)]
  /\ slips' = slips \cup Late(paste.key)
  /\ UNCHANGED <<doc, clip, fate, early, norm, house, opener, closer, rec, engine, owed, givenUp>>

AbandonPaste ==
  /\ paste.st = "run"
  /\ paste' = NoJob
  /\ LeavesEarly(norm)
  /\ UNCHANGED <<doc, clip, stores, fate, norm, house, opener, closer, rec, engine, ghosts>>

\* Only the session must be the one the job began on.
FinishPaste ==
  /\ paste.st = "written"
  /\ doc # NoDoc /\ doc.sid = paste.sid
  /\ CanCommit({paste.piece})
  /\ Commits(doc.cur \cup {paste.piece})
  /\ paste' = [paste EXCEPT !.st = "rebind"]
  /\ slips' = slips \cup Crossed
  /\ UNCHANGED <<clip, stores, fate, early, norm, house, opener, closer, rec, owed, givenUp>>

\* Another document, a chunk that is not in the store, a target that is not in
\* the document any more, or a commit that cannot be journaled.
PasteRefused ==
  /\ paste.st = "written"
  /\ paste' = NoJob
  /\ LeavesEarly(norm)
  /\ UNCHANGED <<doc, clip, stores, fate, norm, house, opener, closer, rec, engine, ghosts>>

\* The lock is free again when the clipboard follows.
RebindClipboard ==
  /\ paste.st = "rebind"
  /\ clip' = IF paste.clip.rate = paste.rate
               THEN [kind |-> "bound", piece |-> paste.piece, rate |-> paste.rate,
                     owner |-> paste.sid]
             ELSE IF clip.kind = "file"
               THEN [clip EXCEPT !.for = paste.sid, !.piece = paste.piece]
             ELSE clip
  /\ paste' = NoJob
  /\ slips' = slips \cup (IF doc = NoDoc \/ doc.sid # paste.sid THEN {"foreign"} ELSE {})
                    \cup (IF doc # NoDoc /\ KeyOf(doc) # paste.key THEN {"scan"} ELSE {})
  /\ LeavesEarly(norm)
  /\ UNCHANGED <<doc, stores, fate, norm, house, opener, closer, rec, engine, owed, givenUp>>

-----------------------------------------------------------------------------
(* The normalize and bake jobs: the selection is rewritten *)

\* A paste job is not looked at.
BeginNormalize ==
  /\ MayStart("normalize") /\ norm = NoJob
  /\ doc # NoDoc /\ ~Recording
  /\ \E p \in doc.cur :
       norm' = [st |-> "run", sid |-> doc.sid, key |-> KeyOf(doc), rev |-> doc.rev,
                read |-> doc.cur, range |-> p, piece |-> NoPiece]
  /\ MayBeEarly({"edit", "history"})
  /\ UNCHANGED <<doc, clip, stores, fate, paste, house, opener, closer, rec, engine, ghosts>>

NormalizeWrites ==
  /\ norm.st = "run" /\ CanWrite(norm.key)
  /\ WriteAs(norm.key, Fresh(norm.key))
  /\ norm' = [norm EXCEPT !.st = "written", !.piece = NextPiece(norm.key, Fresh(norm.key))]
  /\ slips' = slips \cup Late(norm.key)
  /\ UNCHANGED <<doc, clip, fate, early, paste, house, opener, closer, rec, engine, owed, givenUp>>

\* Nothing to do, a failure or a cancel.
AbandonNormalize ==
  /\ norm.st = "run"
  /\ norm' = NoJob
  /\ LeavesEarly(paste)
  /\ UNCHANGED <<doc, clip, stores, fate, paste, house, opener, closer, rec, engine, ghosts>>

\* Mutant: the job commits over whatever the document has become.
SameSession == doc # NoDoc /\ doc.sid = norm.sid

\* The snapshot the job read is still the current one.
Unedited == doc # NoDoc /\ doc.sid = norm.sid /\ doc.rev = norm.rev

FinishNormalize ==
  /\ norm.st = "written"
  /\ Unedited /\ CanCommit({norm.piece})
  /\ Commits((doc.cur \ {norm.range}) \cup {norm.piece})
  /\ norm' = NoJob
  /\ slips' = slips \cup Crossed
  /\ LeavesEarly(paste)
  /\ UNCHANGED <<clip, stores, fate, paste, house, opener, closer, rec, owed, givenUp>>

NormalizeRefused ==
  /\ norm.st = "written"
  /\ norm' = NoJob
  /\ LeavesEarly(paste)
  /\ UNCHANGED <<doc, clip, stores, fate, paste, house, opener, closer, rec, engine, ghosts>>

-----------------------------------------------------------------------------
(* Housekeeping: compaction by generation *)

\* Mutant: what only the clipboard needs is not live.
LiveInDocument(d, P) == Ids(Pieces(d))

\* live_chunk_ids and the clipboard's: what a compaction keeps.
Live(d, P) == Ids(Pieces(d) \cup P)

\* Drop the k oldest undo steps (none: enough is named by nobody) and
\* begin_compact, for what clipboard C needs.
Begins(C, n) ==
  /\ doc # NoDoc /\ ~Recording /\ doc.gen < MaxGen
  /\ \E k \in 0..Len(doc.undo) :
       /\ doc' = [doc EXCEPT !.undo = SubSeq(@, k + 1, Len(@))]
       /\ house' = [st |-> "copy", sid |-> doc.sid, key |-> KeyOf(doc), clip |-> C,
                    live |-> Live(doc', C), rounds |-> n]

\* The busy flag and the clipboard are looked at once, before the first round.
\* What happens between that and the round's lock may as well happen during its
\* copy: they are one step.
HouseStart ==
  /\ MayStart("house") /\ house = NoJob /\ norm = NoJob
  /\ doc # NoDoc /\ Begins(Reachable(clip, doc.sid), 1)
  /\ UNCHANGED <<clip, stores, fate, early, paste, norm, opener, closer, rec, engine, ghosts>>

HouseBegins ==
  /\ house.st = "decide" /\ house.rounds < 3
  /\ Begins(house.clip, house.rounds + 1)
  /\ UNCHANGED <<clip, stores, fate, early, paste, norm, opener, closer, rec, engine, ghosts>>

\* Within the limits, nothing more to reclaim, a take, no document, a failure.
HouseStops ==
  /\ house # NoJob
  /\ house' = NoJob
  /\ UNCHANGED <<doc, clip, stores, fate, early, paste, norm, opener, closer, rec, engine, ghosts>>

\* Mutant: chunks that became live during the copy are not copied.
CopiedEarly == house.live

\* What was live when the copy began and what is live now.
Copied == house.live \cup Live(doc, house.clip)

\* Mutant: the new store goes on after the highest id it got.
NextAfterCopied == IF Copied = {} THEN 1 ELSE 1 + CHOOSE n \in Copied : \A m \in Copied : m <= n

\* The ids the old store has given out by now are never given out again.
NextId == stores[house.key].next

\* copy_chunks and finish_compact: refused if the session has moved on; the new
\* store holds the live chunks under their old ids.
HouseSwitches ==
  /\ house.st = "copy"
  /\ doc # NoDoc /\ ~Recording /\ KeyOf(doc) = house.key
  /\ Copied \subseteq DOMAIN Data(doc)
  /\ doc' = [doc EXCEPT !.gen = @ + 1]
  /\ stores' = [stores EXCEPT ![KeyOf(doc')] =
                                 [data |-> Restrict(Data(doc), Copied), next |-> NextId],
                              ![KeyOf(doc)].data = <<>>]
  /\ Publishes
  /\ house' = [st |-> "decide", clip |-> house.clip, rounds |-> house.rounds]
  /\ slips' = slips \cup Crossed
               \cup (IF Reachable(clip, doc.sid) \subseteq house.clip THEN {} ELSE {"scan"})
  /\ UNCHANGED <<clip, fate, early, paste, norm, opener, closer, rec, owed, givenUp>>

-----------------------------------------------------------------------------
(* Recording *)

Take(key, kind) == [st |-> "run", sid |-> key[1], key |-> key, kind |-> kind, piece |-> NoPiece]

\* An empty document of the take's rate records into itself.
BeginRecordingHere ==
  /\ MayStart("take") /\ rec = NoJob
  /\ doc # NoDoc /\ ~Recording /\ doc.cur = {}
  /\ doc' = [doc EXCEPT !.take = TRUE]
  /\ rec' = Take(KeyOf(doc), "new")
  /\ UNCHANGED <<clip, stores, fate, early, jobs, opener, closer, engine, ghosts>>

\* Otherwise a new one replaces it.
BeginRecordingNew ==
  /\ MayStart("take") /\ rec = NoJob
  /\ ~Recording
  /\ \E s \in Sid, rate \in Rates :
       /\ NewSession(s)
       /\ doc # NoDoc /\ doc.cur = {} => doc.rate # rate
       /\ Replaces([NewDoc(s, rate, {}) EXCEPT !.take = TRUE])
       /\ Publishes
       /\ rec' = Take(<<s, 0>>, "new")
  /\ slips' = slips \cup Crossed
  /\ UNCHANGED <<early, jobs, opener, closer, owed, givenUp>>

BeginRecordOp ==
  /\ MayStart("take") /\ rec = NoJob
  /\ Command("history")
  /\ doc' = [doc EXCEPT !.take = TRUE]
  /\ rec' = Take(KeyOf(doc), "op")
  /\ UNCHANGED <<clip, stores, fate, jobs, opener, closer, engine, ghosts>>

TakeWrites ==
  /\ rec.st = "run" /\ rec.piece = NoPiece /\ CanWrite(rec.key)
  /\ WriteAs(rec.key, Fresh(rec.key))
  /\ rec' = [rec EXCEPT !.piece = NextPiece(rec.key, Fresh(rec.key))]
  /\ UNCHANGED <<doc, clip, fate, early, jobs, opener, closer, engine, ghosts>>

\* The engine wrote something.
Recorded == rec.piece # NoPiece

\* commit_take, commit_take_op: one edit that closes the take.
CommitTake ==
  /\ rec # NoJob /\ Recorded
  /\ doc # NoDoc /\ doc.sid = rec.sid
  /\ Len(doc.undo) < MaxSteps
  /\ doc' = [doc EXCEPT !.cur = @ \cup {rec.piece}, !.rev = NextRev, !.take = FALSE,
                        !.undo = Append(@, doc.cur), !.redo = <<>>]
  /\ Publishes
  /\ rec' = NoJob
  /\ slips' = slips \cup Crossed
  /\ UNCHANGED <<clip, stores, fate, early, jobs, opener, closer, owed, givenUp>>

\* take_discard, or take_cancel: a journal that fails leaves the take open.
ClosesTake == doc' \in {doc, [doc EXCEPT !.take = FALSE]}

\* Nothing was recorded, the operation was cancelled, or the engine refused it.
DiscardTake ==
  /\ rec # NoJob
  /\ doc # NoDoc /\ doc.sid = rec.sid
  /\ ~Recorded \/ rec.kind = "op"
  /\ ClosesTake
  /\ rec' = NoJob
  /\ UNCHANGED <<clip, stores, fate, early, jobs, opener, closer, engine, ghosts>>

\* commit_take_op, when no attempt could be journaled: the take is closed
\* without an edit and its audio stays in the session, which stays open.
CommitOpFails ==
  /\ rec # NoJob /\ rec.kind = "op" /\ Recorded
  /\ doc # NoDoc /\ doc.sid = rec.sid
  /\ ClosesTake
  /\ rec' = NoJob
  /\ owed' = owed \cup (IF Recording' THEN {rec.sid} ELSE {})
  /\ givenUp' = givenUp \cup (IF Recording' THEN {} ELSE {rec.sid})
  /\ UNCHANGED <<clip, stores, fate, early, jobs, opener, closer, engine, slips>>

\* commit_take, when the document is not the one recorded on or no attempt
\* could be journaled, and no other session can be made either: the document
\* stays with the take open.
CommitTakeStuck ==
  /\ rec # NoJob /\ rec.kind = "new"
  /\ doc # NoDoc
  /\ doc.sid # rec.sid \/ Recorded
  /\ rec' = NoJob
  /\ owed' = owed \cup (IF Recorded THEN {rec.sid} ELSE {})
  /\ UNCHANGED <<doc, clip, stores, fate, early, jobs, opener, closer, engine, givenUp, slips>>

\* Otherwise that document is left for recovery and an empty one is opened.
CommitTakeFails ==
  /\ rec # NoJob /\ rec.kind = "new"
  /\ doc # NoDoc
  /\ doc.sid # rec.sid \/ Recorded
  /\ \E s \in Sid :
       /\ NewSession(s)
       /\ doc' = NewDoc(s, doc.rate, {})
       /\ clip' \in Materialized(clip, KeyOf(doc))
       /\ fate' = [fate EXCEPT ![s] = "open", ![doc.sid] = "left"]
       /\ stores' = WithoutSession(doc.sid)
       /\ Publishes
  /\ rec' = NoJob
  /\ owed' = owed \cup (IF Recorded THEN {rec.sid} ELSE {})
  /\ slips' = slips \cup Crossed
  /\ UNCHANGED <<early, jobs, opener, closer, givenUp>>

\* A finished take with no document, or an operation's take in another one.
TakeIsLost ==
  /\ rec # NoJob
  /\ doc # NoDoc => doc.sid # rec.sid /\ rec.kind = "op"
  /\ rec' = NoJob
  /\ owed' = owed \cup (IF Recorded THEN {rec.sid} ELSE {})
  /\ UNCHANGED <<doc, clip, stores, fate, early, jobs, opener, closer, engine, givenUp, slips>>

-----------------------------------------------------------------------------
Init ==
  /\ doc = NoDoc /\ clip = Empty /\ engine = NoDoc
  /\ stores = [k \in Key |-> NoStore]
  /\ fate = [s \in Sid |-> "unused"]
  /\ early = "none"
  /\ paste = NoJob /\ norm = NoJob /\ house = NoJob
  /\ opener = NoJob /\ closer = NoJob /\ rec = NoJob
  /\ owed = {} /\ givenUp = {} /\ slips = {}

Edit  == EditCut \/ EditCopy \/ EditPaste \/ EditDelete \/ Undo \/ Redo
Open  == BeginOpen \/ OpenFails \/ OpenShow \/ OpenInstall
Close == CloseTakes \/ CloseClipboard \/ CloseEngine
PasteJob == PasteImports \/ AbandonPaste \/ FinishPaste \/ PasteRefused \/ RebindClipboard
NormalizeJob == NormalizeWrites \/ AbandonNormalize \/ FinishNormalize \/ NormalizeRefused
Housekeeping == HouseBegins \/ HouseSwitches \/ HouseStops
Record ==
  \/ BeginRecordingHere \/ BeginRecordingNew \/ BeginRecordOp
  \/ TakeWrites \/ CommitTake \/ DiscardTake \/ CommitOpFails
  \/ CommitTakeStuck \/ CommitTakeFails \/ TakeIsLost

Next ==
  \/ Edit \/ Open \/ Close \/ (\E s \in Sid : CloseSession(s))
  \/ BeginPaste \/ PasteJob \/ BeginNormalize \/ NormalizeJob
  \/ HouseStart \/ Housekeeping \/ Record

Spec == Init /\ [][Next]_vars

-----------------------------------------------------------------------------
(* Properties *)

\* The type of the state.
TypeOK ==
  /\ doc = NoDoc \/ (doc.sid \in Sid /\ doc.gen \in 0..MaxGen /\ Pieces(doc) \subseteq Piece)
  /\ \A k \in Key : stores[k].data \in [DOMAIN stores[k].data -> Audio]
  /\ fate \in [Sid -> {"unused", "new", "open", "closing", "left", "deleted"}]
  /\ owed \subseteq Sid /\ givenUp \subseteq Sid
  /\ slips \subseteq {"late", "foreign", "scan", "overtaken", "crossed"}

\* What compaction leaves behind is still named by nobody: every piece of the
\* document and of its undo and redo steps is in the document's store.
HistoryResolves == doc # NoDoc => Ids(Pieces(doc)) \subseteq DOMAIN Data(doc)

Sounds(P) == \A p \in P : p.id \in DOMAIN Data(doc) /\ Data(doc)[p.id] = p.audio

\* Every piece of every undo step plays the audio it was made for, whatever runs
\* at the same time as a compaction (ADR-004, Amendment 3).
PiecesKeepTheirAudio == doc # NoDoc => Sounds(Pieces(doc))

\* The same, but for the two overlaps that break it: a job that wrote its audio
\* into a store a compaction had left, and a clipboard bound to a session that is not open.
OnlySlipsLoseAudio == slips \cap {"late", "foreign"} = {} => PiecesKeepTheirAudio

\* A bound clipboard belongs to the open document (the comment at ClipboardData).
BoundClipIsTheDocuments ==
  doc # NoDoc /\ closer = NoJob /\ clip.kind = "bound" => clip.owner = doc.sid

\* What was copied is what a paste gives, in this document or in a later one,
\* unless the clipboard changed under a compaction or a paste job's end.
CopiedAudioSurvives ==
  slips \cap {"late", "foreign", "scan"} = {} =>
    /\ doc # NoDoc => Sounds(Reachable(clip, doc.sid))
    /\ clip.kind = "file" => clip.audio = clip.meant

\* The engine plays the open document, once no thread is between telling the
\* engine and replacing the document, unless two such threads crossed.
EngineFollowsDocument ==
  "crossed" \notin slips /\ opener.st # "show" /\ closer = NoJob => engine = Shown(doc)

\* The audio of a take that reached no document is never deleted with a session,
\* whether the take was overtaken, its document gone, or its commit and even the
\* way out of that failed; but for a record operation whose take was closed in
\* its document after its commit had failed.
UncommittedTakesSurvive == \A s \in owed : fate[s] # "deleted"

\* The same without that exception: the comment at commit_take_op has the take's
\* audio stay in the session, but a close deletes the session with it.
EveryTakeSurvives == \A s \in owed \cup givenUp : fate[s] # "deleted"

\* A normalize rewrites what it read, and one undo gives that back: nothing that
\* was done meanwhile is lost.
NormalizeLosesNothing ==
  [][norm.st = "written" /\ norm' = NoJob /\ doc' # doc =>
       /\ doc'.cur = (norm.read \ {norm.range}) \cup {norm.piece}
       /\ Last(doc'.undo) = norm.read]_vars
=============================================================================
