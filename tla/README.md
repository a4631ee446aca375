# PowerVoice in TLA+

PowerVoice is a mono voice editor: a Rust workspace (`src/crates`), a Tauri shell
(`src/src-tauri`) and a Svelte interface (`src/ui`). This directory holds TLA+ models of the
parts where a mistake costs recordings or blocks the audio thread, the TLC configurations that
check them, and proofs for TLAPS. Every definition follows the code named for it under `map` in
`PROJECT.json`; paths below are relative to the repository.

1. [Inventory](#1-inventory)
2. [Modules](#2-modules)
3. [Runs](#3-runs)
4. [Where the code and its comments disagree](#4-where-the-code-and-its-comments-disagree)
5. [Proofs](#5-proofs)
6. [Abstractions and limits](#6-abstractions-and-limits)
7. [Plan](#7-plan)

## 1. Inventory

### The project store (`crates/project`)

| Part | State | Operations | What makes it correct |
| --- | --- | --- | --- |
| History (`history.rs`, `snapshot.rs`) | current snapshot with `rev` and `audio_rev`, undo and redo stacks of entries with a seq, `saved_seq`, next ids | apply, undo, redo, drop oldest, mark saved, rebase, allocate a marker id | seqs name documents; a revision number never stands for two contents; undo and redo walk one line |
| Journal (`journal.rs`) | an append-only file of framed records | append (write, sync, cut off what a failure left) | replaying it gives what memory held at any crash |
| Recovery (`recovery.rs`) | none | replay, cut before damaged audio, recover a session, the user's choice for an open take | the newest state that is intact, takes offered, nothing referring to lost audio |
| Session (`session.rs`) | history, journal, chunk store, open take, next take id | commit, undo, redo, takes with window and markers, cancel, mark saved, close | durable before journaled; markers and audio never lost |
| Garbage collection (`gc.rs`) | the sessions directory: a directory, a lock file and `meta.json` per session, tombstones | scan at start-up, classify from a seq-only scan, offer, discard, delete | never deletes a recoverable session; a deletion ends; nothing is offered that cannot be loaded |
| Budget (`budget.rs`) | the generation number, the live set | drop undo entries, compact into a new generation | nothing live is lost, nothing that recovery needs is dropped |
| Chunk store (`store/mod.rs`) | segments, their mappings and dirty marks, index, allocation cursor | write, read, sync, evict, reopen | published is written, synced is durable, slots never overlap |
| Take writer (`take.rs`, `wav.rs`) | a WAV file per take | append samples, finish | the WAV is the copy of last resort |

They interact by calls under one lock: `DocumentService` owns the session and takes its document
lock around every call, except for the file write of a save, the copy of a compaction and the work
of edit jobs, which run without it and meet the session again afterwards. Job workers and recording
write chunks into the store while the session goes on. Several instances of the program share the
sessions directory; between them there are only the advisory locks.

Hard behaviours: a crash or a failed write between any two records; a save that writes while
edits, undo and housekeeping go on; the scan of the garbage collection and the replay of recovery
deciding from the same bytes with different code; a sync running against writers and evictions;
long sequences of undo, redo, drops and compactions before the journal is read again; two instances
between the steps of each other's scans, creations and deletions, and crashes between any of them.

### The document service (`src/src-tauri/src/document.rs`)

| Part | State | Operations | What makes it correct |
| --- | --- | --- | --- |
| Open document | the session and its store behind `doc`, `paste_busy`, `normalize_busy` | open, recover, close, cut, copy, paste, delete, undo, redo | one document; a replaced session is closed, or left for recovery if it holds a take |
| Clipboard | pieces bound to a session, or a file it was materialized to | copy, materialize when its session closes, rebind after a paste job | what was copied can be pasted, here and in the next document |
| Jobs | the store and the revision a job began on | paste of a foreign clip, normalize and bake | a result is applied to what the job read, or not at all |
| Housekeeping | rounds of drop, copy without the lock, switch | begin and finish a compaction | the new generation holds whatever became live meanwhile |
| Take | the session and chunk store the engine writes to | begin, commit, discard | recorded audio reaches a document or stays on disk |
| Engine publication | what the engine plays | told inside the lock by edits, outside by open and close | the engine plays the open document |

Commands look at the busy flags before they take the lock, jobs and housekeeping keep a store they
took earlier, an open tells the engine before and a close after the document changes hands: two
threads cross in every one of these windows.

### The engine and the rack

| Part | State | What makes it correct |
| --- | --- | --- |
| Sandbox transport (`crates/sandbox-ipc`) | shared memory: two sample rings, event rings, cursors, doorbells, lifecycle word, heartbeat | output is aligned whatever the plugin does; no lost wake-up; a dead or hung plugin is bypassed |
| Plugin host (`crates/plugin-host`) | sandboxes, scan results, block list, restart counters | a crash flags the module; restarts are bounded; nobody waits for a plugin for ever |
| Sandbox process (`crates/sandbox`) | one plugin instance, its audio thread | serves the channel until asked to stop |
| Recording (`crates/engine`, `src/src-tauri/src/recording.rs`) | armed take, ring of captured input, window of an aligned take | what was captured reaches the WAV and the take; late notes hit the right take |
| Transport (`transport.rs`, `control.rs`) | playhead, epoch, loop and selection, the stop it waits for, where the rack's input ended | once all reports are in, it agrees with the callback |
| Reader (`reader.rs`) | the stream being read: position, warm-up, loop, where it ends | packets of a start go on from one another, back only at a loop's end |
| Output callback (`output.rs`) | mode (waiting, pre-roll, playing, fading), the epoch it plays and the one commanded, fades, the rack's delay | what is heard is what was asked for and is never cut |
| Rack, control thread (`host.rs`) | slots with their mirrors, the layout it has sent, swaps in flight, running loads | every instance has one owner; a load that comes late is freed, not played |
| Rack, audio thread (`live.rs`, `slot.rs`) | the chain, instances fading in and out, the outbox | a swap never frees on the audio thread; the chain ends up as the list of slots |

The control thread sends a start first to the reader (a channel) and then to the output callback
(a ring); packets go from the reader to the callback and reports back to the control thread, each
through its own ring. An epoch tells what belongs together. Each side learns of a start, a seek, a
stop or an end at another time, and the user goes on meanwhile.

Host audio thread, plugin audio thread and control thread of a sandbox talk through shared memory
and doorbells only. The document service, jobs and the user interface talk by calls and events.

### Not modelled at all

File formats, signal processing and the module library are sequential numeric code. Foreign ABIs,
fixtures, the interface, vendored code and scripts are outside the project. The complete list, with
a reason each, is under `components` in `PROJECT.json`; what is hard to test, line by line, is under
`hazards`, with the properties that cover it or the reason why none does. Section 4 adds the places
where the code is known not to do what is said of it.

## 2. Modules

```
UndoLog  <---implements---  History  --EXTENDS-->  HistoryOps
   ^                                                  ^
   +-------implements---  Session  --EXTENDS-->  Journal
ChunkStore      SandboxChannel      Document      Rack      Playback      SessionDirs
HistoryProofs --EXTENDS--> History, JournalProofs
SessionProofs --EXTENDS--> Session, JournalProofs
JournalProofs --EXTENDS--> Journal;  --INSTANCE--> FoldProofs
ChunkStoreProofs --EXTENDS--> ChunkStore
SessionDirsProofs --EXTENDS--> SessionDirs
SandboxChannelProofs --EXTENDS--> SandboxChannel
DocumentProofs --EXTENDS--> Document
MCHistory, MCSession, MCChunkStore, MCSandboxChannel, MCDocument, MCRack,
MCPlayback, MCSessionDirs: the instances for TLC
```

**UndoLog** is the abstract promise: documents form one line, undo and redo walk along it, an edit
replaces what lies ahead, and only the old end may be cut.

**HistoryOps** has the calls of `History` as operators on a record with the fields of the struct;
**History** makes a state machine of them. A snapshot's piece table is the set of chunks it refers
to, an edit is the chunks and markers it takes out and puts in. `LineOf` and `PositionOf` are the
refinement mapping: the undo stack's snapshots, the current one, and the redo stack's in reverse.

**Journal** has the record kinds, replay (`recovery.rs`) and the summary scan (`gc.rs`), folds over
the records. Both are there in full because a property compares them.

**Session** composes them with takes, the user's file and the disk. One action is one call under
the document lock. What the code does in several observable steps is several actions:
`BeginSave`, `WriteFile` (without the lock), `MarkSaved`; `CancelTake`, then one `CommitPending`
per marker. `Writes` and `WriteFails` are the two outcomes of `Journal::append`: after a failure the
records may still be in the file (`stray`), because the cut-off is neither checked nor synced, and a
crash makes a prefix of them readable. `Crash` loses memory and may damage chunks; `Recover`
replays what is readable, cuts before damaged chunks and offers an open take; `CollectGarbage`
deletes what `Clean` finds clean. The variable `ghost` belongs to the properties: it records what
the journal cannot tell (that a saved record was lost, that the floor moved).

**SessionDirs** has the instances of the program around one sessions directory. `dir` is what is on
disk: where a session is (`here`, or moved aside as a `tomb`), which of its files exist, the generation
in `meta.json`, and of each journal only what classification reads (closed, unsaved, an open take). Each
instance has a scan and a command of the user, both with a program counter, because other instances act
between their steps: `MakeDir`, `LockNew`, `WriteMeta`, `StartJournal` are a creation; `ScanDir` (take the
lock), `Classify` (and give it up), `MoveAside`, `RemoveTomb` are a scan; `Empty` removes one file of a
deletion in place. `InDialog` is the mutex `session_dirs`, which belongs to one instance. `BeginCompact`,
`NewJournal`, `SwitchMeta`, `RemoveOld` and `CompactFails` are the switch of generations step by step.
`Crash` drops the memory and the locks of an instance. The ghosts are `work` (sessions with changes that
nobody saved or gave up), `dead` (closed, found clean, or being deleted) and `raced` (opened by somebody
although it was closed or its deletion was decided).

**ChunkStore** has writers, readers and syncers as threads with a program counter. A step is what
one thread does under one of the locks, or one access to a mapping outside them. Bytes are
`viewed` (in a mapping), `started` (flushed, write-back begun) or `durable` (a sync_data began
after that); this is the contract of FlushViewOfFile and FlushFileBuffers, the weakest of the
platforms the code names.

**SandboxChannel** has the host's audio thread (`HostEnd::process`), the plugin's
(`PluginEnd::service_with_events`) and the control thread (`Monitor`, and the watchdog's
`Sandbox::record`). Every load and store another thread can tell apart is a step, each sample on
its own. A sample is its stream position, so that alignment is an equation between positions; a
chunk that was torn while it was read writes no position at all. The doorbell is `seq` (whether it
moved since the waiter's sample), the count of waiters, and whether the waiter is parked.

**Document** has the threads around the document lock. One action is what one thread does while it
holds the lock, or between two times it holds it: a paste job is `BeginPaste`, `PasteImports`,
`FinishPaste` and `RebindClipboard`, an open is `BeginOpen`, `OpenShow` and `OpenInstall`. `early`
is a command that looked at the busy flags before a job set one and waits for the lock. A piece of a
snapshot is a chunk's id together with the audio it was made for; a store says what audio each id
holds now. Comparing the two is what the properties are about: a compaction copies by id, a job
writes to the store it took, a clipboard is bound to a session, and each can make an id mean
something else. `CommitTake` and `CommitTakeFails` or `CommitTakeStuck` are the ends of a recording that
made a document of its own, `CommitTake` and `CommitOpFails` those of one into the open document; a
replacement session may not come about (`Stuck`), and closing a take may fail (`ClosesTake`). The ghosts are
`owed` (sessions with the audio of a take no document has), `givenUp` (the same, where the take was closed in
the document that stays open) and `slips` (the overlaps the code lets happen, section 4): a behaviour is
followed up to the first one whose harm is known.

**Rack** has the control thread (`Calls`, `Tick`), the audio thread and the loaders. A call changes
the slots, builds a chain if fewer than `MaxSwaps` are in flight and pushes what the ring takes; a
tick takes retired chains, events and finished loads in the order of the code, runs the restarts
that are due and flushes. `Pump` is the start of a callback with the commands it handles, `Run` the
rest of it, in which a fade may end and a module may fail or ask for a restart. A chain's slot keeps
the live instance (`keep`), is new (`fresh`), takes the old one over to crossfade (`replace`), or
drops what has faded out (`drop`), as `build_chain` plans and `apply_swap` carries out. An instance
is a number and one parameter's value; the host's mirror of it is `val`. `Teardown` frees what the
shutdown frees. The ghosts are `lost` (slots whose `ReplaceDone` went with a retired chain) and
`moved` (slots whose replacement took over a queued change of the old instance).

**Playback** has the control thread (`User`, `Pushes`, `Tick`), the reader thread and the output
callback. A call changes the transport `t` and mails the reader at once; the command for the callback
is `late` until `Pushes`, so the reader may be several packets ahead of the callback.
`ReaderHandles` takes one command, `ReaderDrained` finds none left, and `ReaderFills` puts one packet into the
ring; what comes in after that look waits until the fill is over. `Frame` is one frame of
a callback with all it does before it: the commands, the end of a fade behind the rack, the look for
a prebuffer, some frames of pre-roll and then a frame through the rack, whose sound is its delay
(`rack.line`). Each stage is an operator on a record of the callback's state, in the order of
`process`. A sample is the position it was read at, its epoch and its document, so that what is heard
can be compared with what was asked for. A fade counts its steps. `Pause` reads the extrapolated
position, which is left open. The ghosts are `asked` (what each epoch was to play),
`heard`, `out` (the last frame, with both of its gains), `sought` (a seek while stopped) and `thrown`
(epochs whose first packets the callback dropped before it had their start, section 4).

## 3. Runs

| Run | Question | Bounds, and why they are enough |
| --- | --- | --- |
| `history` | Do stamps, seqs and stacks stay coherent, and is it an UndoLog? | three edits, six snapshots, two chunks, one marker: two entries on each side of the current one, a branch after undo, a drop with redo entries left |
| `session_edits` | Can a session be misjudged, or damaged audio come back, without takes? | two edits of two chunks, six records, one failed write, one crash that damages one chunk or both, one compaction: each can fall between any two calls, and a recovery may cut before one damaged chunk and overlook the other |
| `session_takes` | And with recording? Is it an UndoLog? | edits of markers, a take that brings a chunk in, an import, one failure, one crash; a second take needs only its id, which `NextTakeIsFresh` covers |
| `session_dirs` | What can two instances do to each other's sessions? | two instances, one session, one compaction, one crash with its restart: each step of a scan, a creation, a recovery, a close, a discard, a deletion by a move or in place, and a compaction meets each step of another's, and either may die in between; sessions meet only in the order of a scan |
| `chunk_store` | Is published written, synced durable, in use mapped? | two segments with memory for one, so that every mapping evicts; two writers, two syncers (each needed to see a mark taken over), a reader, one reopening; chunks of three in a segment of ten, aligned to two, so that slots do not divide the segment |
| `sandbox_rings` | Is output aligned while cursors race? | blocks of two in rings of four (the smallest ring the protocol allows), eight positions: each ring wraps, and the plugin may be overrun, resynchronise and be overrun again; one event, either kind, anywhere |
| `sandbox_faults` | Does nobody wait for ever? | one sample per block and two positions, with a crash, a hang, a failed control request and a shutdown at any point; one chunk per service call, so that a call ends with input left |
| `document` | Do edits, jobs, the clipboard, compactions, takes, an open and a close leave the document, the recorded audio and the engine right? | two sessions, six kinds of threads of which two at a time run beside the commands, one undo step, one compaction, two chunks in a store: each thread meets every other one at each of its steps |
| `rack` | Has every instance one owner, and does the chain follow the list? | two slots, two swaps in flight, rings of two, two calls or failures, from six stored racks: the ring and the swap limit are full, a call waits for both, and a second replacement meets the first one's crossfade |
| `playback` | Is what is heard what was asked for, whole and in order, and do the three threads agree in the end? | documents of three and six samples, packets of two, a ring of two packets, prebuffer, latency and fade of two, a pre-roll of one frame per frame, three calls in any order: a start crosses a fade, a pre-roll, a drain or an end, a loop is shorter than the read-ahead, a document's end comes before the prebuffer is full, and the output is closed and opened between |
| `session_dropped`, `document_alias` | see section 4 | the smallest instance that shows the disagreement |

The runs of Session, Document, Rack and Playback say `CHECK_DEADLOCK FALSE`: their bounds end every behaviour,
and a rack that was shut down stops. Deadlock is checked in the others, but the monitor of
SandboxChannel, the other users of memory in ChunkStore and a scan of SessionDirs can always take a
step, so it says little
there; that no thread of SandboxChannel is stuck is what its liveness properties are for.
`chunk_store` uses symmetry, over writers and over
syncers, and `session_dirs` over instances; no definition or property names one of them.

Larger instances stand beside the runs: `MCDocumentTakes.cfg` has the Document without paste jobs,
but with two sample rates and two undo steps. `MCSessionDirsMoved.cfg` has two crashes, directories that can always be moved, and the liveness
property `DeletionFinishes`; `MCSessionDirsAlone.cfg` has one instance, three crashes and `WorkIsKept`
without an exception, `MCSessionDirsBoth.cfg` a second session beside it (thirteen million states). The type invariants are proved,
but for Rack's, which `MCRackTypes.cfg` checks, and Playback's, which has none (its properties bound its
counters); `CurrentIsNewest` of History is proved only.

**Session properties.** `JournalHoldsMemory`: replay gives memory, stamps included, whenever the
crash comes. `ScansAgree`: the two readers of the journal agree on every journal, resurfaced records
included. `JournaledChunksDurable`: no record, not even a stray one, names a chunk a power loss may
take. `CleanIsSaved` and `GcKeepsWork`: what counts as saved is in the file, and what is deleted
held no work. `TakeMarkersAreFree`, `NextTakeIsFresh`, `TakeMarkersAreKept`: ids never meet an open
take's, and markers stay. `RecoveredAudioVerified`: a document in use has no damaged chunk but for those
that the recovery overlooked, since it looks at the chunks of the journal's last state and not at those of the
state before the cut (`ghost.overlooked`; see `MCSessionRot` in section 4). `CleanIsSaved` and `GcKeepsWork` hold
until that happens. `ImplementsUndoLog`: crash and recovery bring back the line
and the position.

**SessionDirs properties.** `WorkIsKept`: unsaved work is on disk, the next start finds it and recovery
can load it. `OnlyRacesLoseWork`: with two instances one overlap only takes it away, a session that
somebody opens after it was closed or its deletion was decided. `OfferedLoads`: no crash, of a creation, a
compaction or a deletion that can move the directory, leaves a session that is offered and then refused.
`DeletionFinishes`: what was closed or found clean is gone in the end, over crashes and whoever else
deletes it, unless its directory could not be moved. Only `OnlyRacesLoseWork` and `OfferedLoads` belong to
a listed run: with deletions in place the liveness check of two instances takes too long for one.

**ChunkStore properties.** `SyncedIsDurable`, `UsedSegmentsStayMapped`, `PublishedIsWritten`,
`SlotsAreSeparate`; all four are proved as well.

**SandboxChannel properties.** `OutputIsAligned`: whenever the host reads a sample, wet or dry, it
is the one of the position one latency earlier. `ChunksAreWhole`: the re-read cursor rejects every
chunk the host may have written into. `EventsOnTime`: a reset applies at the first sample of a chunk,
and an event is late only if its position was skipped. `NoLostWakeups`: a parked thread whose
condition holds wakes without its deadline. `InputIsServed`: published input is processed or skipped
while the plugin serves. `FaultsAreBypassed`: a dead or hung plugin ends in the bypass.

**Document properties.** `HistoryResolves`: every piece of every undo and redo step is in the current
store, whatever was committed while a compaction copied. `OnlySlipsLoseAudio`: and it plays the audio
it was made for, but for two overlaps, a job that writes into a store a compaction has left and a
clipboard bound to a session that is not open. `CopiedAudioSurvives`: what was copied is what a paste
gives, in this document or a later one. `EngineFollowsDocument`: once no thread stands between the
engine and the lock, the engine plays the open document. `UncommittedTakesSurvive`: the audio of a
take that reached no document is never deleted with a session, whatever became of its commit, its document
and the replacement, but for `givenUp`. `NormalizeLosesNothing`: a normalize
rewrites exactly what it read, and one undo gives that back.

**Rack properties.** `InstancesHaveOneOwner`: until it is freed every instance is in one place, after
that in none; none is forgotten. `ChainFollowsModel`: when nothing is on its way, the chain is the
host's list, with the newest instance of each slot and the mirror's value, nothing fading, and
every failure known. `OutgoingFadesOut`: an instance that is crossfaded out leaves the chain only when
the crossfade is over. `TypeOK` (`MCRackTypes.cfg`) includes the limits of the rings: the return ring takes every
retired chain, so the audio thread never has to free one.

**Playback properties.** `HeardInOrder`: what a start asks for is heard from its position on, sample by
sample, of the right document, back only from a loop's end to its start, and nothing of an older start
comes after it. `NothingIsCut`: no audible sample is followed by anything but the next one, at most one
step of each fade quieter, unless the stream ends or runs dry. `ResumesInPlace`: a start that does not
reset the rack goes on where the rack's input ended. `TransportFollowsOutput`: when everything has
arrived, the transport and the callback agree on what plays, and the control thread waits for no stop.
`NobodyWaitsForever`: while the transport plays, the reader can add a packet or the callback's next
frame goes on; it says of each state what a liveness property would say of behaviours (below).

**Fairness.** SandboxChannel and SessionDirs state it. SandboxChannel has weak fairness of each of the three threads
(`HostStep`, `PlugStep`, `MonStep`). The threads are scheduled by the operating system and the
watchdog polls every 10 ms (`crates/plugin-host/src/watchdog.rs:22`), so a thread that can go on
does. None is assumed for deadlines (`HostTimeout`, `PlugTimeout`), for calls of the editor, for
attaching, crashes, hangs or control requests: the liveness properties hold although no wait ever
times out. A plugin that hangs is a step to `stuck`, which has no way on. SessionDirs has weak fairness of `Start` (the user starts the program again), `Scan` and
`Command` (what an instance has begun goes on; both are loops without waits, `lib.rs:82` runs the scan
before the window opens); none of anything the user asks for. Session, History,
ChunkStore, Document and Rack promise nothing about when the user or a thread acts, so their
properties are safety. In Playback the device calls back as long as the stream is open and the reader
wakes every 5 ms, so a start is heard in the end; but the callback acts in every state, mostly without
a change, and a liveness property would ask TLC whether `Frame` is enabled in each of them, which it
cannot do in reasonable time. `NobodyWaitsForever` says of each single state that a step is possible.

**Mutants.** Every property has a mutant of the code that breaks it under its own configuration;
they stand next to the definition they change, with the bug in one line of comment, and are listed
under `mutants`.

## 4. Where the code and its comments disagree

Two of these are runs that check what the repository says and find it violated.

- `session_dropped` (`history.rs:314`): after housekeeping dropped every undo entry of a document
  that was never saved, `is_dirty` is false although the document differs from the saved state.
  `current_seq` of an empty stack is 0, and so is `saved_seq`. The garbage collection asks the same
  question, so the crashed session counts as clean.
- `document_alias` (`budget.rs:390`): the new generation goes on with the ids the old store has
  given out by then. A job that took the old store before the switch still writes there and gets the
  same ids; its commit finds them in the new store, where they are other audio.

Further configurations stand beside them, each for one property that TLC finds violated:

- `MCRackReplace.cfg` (`slot.rs:374`): `take_over` of a slot without an instance posts its `ReplaceDone`
  to the outbox of the new chain. A second swap in the same callback retires that chain with its
  outbox, so the host waits for ever and holds back every later replacement of the slot.
- `MCSessionDirsRace.cfg` (`gc.rs:119`): the scan gives a clean session's lock up before it deletes the
  directory. A second instance that starts while the first creates a session may find the new directory
  before it is locked, classify it as clean, and delete it after its creator has locked it and begun to
  record. `session_dirs` is a mutex of one process.
- `MCSessionDirsInPlace.cfg` (`gc.rs:276`): a deletion in place removes `meta.json` before the journals. When
  it is interrupted there, the next start looks for generation 0; after a compaction the close record is in
  `journal.1`, and takes that are left make the closed session recoverable, although `recover` refuses it. A
  discarded session, which has no close record, is offered again in the same way.
- `MCSessionCancel.cfg` (`session.rs:696`): the end of a cancelled take is journaled before its
  markers are committed one by one; a crash or an error in between loses the others.
- `MCSessionTails.cfg` (`budget.rs:428`): a compaction does not carry over that a take's WAV is longer
  than its committed audio, so the garbage collection no longer keeps the tail.
- `MCSessionRot.cfg` (`recovery.rs:404`): "the newest state whose audio is intact" (line 393) is what recovery
  goes back to. The shorter history before the cut may refer to another damaged chunk, which the journal's last
  state did not and which was not verified (`RecoveredAudioIntact`).
- `MCSandboxUnfed.cfg` (`monitor.rs:130`): the hang clock runs from the attach, also while the plugin
  activates and gets no input, where `sandbox.rs:25` and ADR-008 say "while fed".
- `MCDocumentClipboard.cfg` (`document.rs:331-335`): a bound clipboard is said to belong to the open
  document. A paste job rebinds it after its lock, and by then another document may be open.
- `MCDocumentGivenUp.cfg` (`document.rs:3032-3040`): when no attempt to commit a record operation succeeds, its
  take is closed and, as the comment says (lines 2974-2975), "its WAV stays in the session". The document stays
  open, and its close deletes the session, and so the recording that no document has (`EveryTakeSurvives`).
  `commit_take` leaves such a session for recovery instead.
- `MCRackRemoved.cfg` (`host.rs:1358-1360`): a removed slot is to be dropped once it has faded out. A
  slot that is a stand-in when its removal is handled begins no fade, so its `Removed` never comes and
  it stays in the layout.
- `MCRackState.cfg` (`host.rs:1749-1752`): after `replace_state` the new instance is to play what the
  mirror took over. A change that was still queued for the old instance moves to the new one
  (`take_over`) and wins.
- `MCPlaybackSeek.cfg` (`transport.rs:264`): SPEC-003, line 144, has a seek while stopped just relocate the
  playhead. After a pause the callback's report of its stop is still to come, and then puts the playhead
  where the fade ended.
- `MCPlaybackThrown.cfg` (`output.rs:415`, `output.rs:569`): `rt.rs:75-76` says that `pos` is the first sample
  heard. The reader may fill the ring before the callback has its start, and a callback that runs in
  between drops the packets of an epoch it does not know: the start then begins at a later sample.
- `MCPlaybackRack.cfg` (`transport.rs:293`): a new document clears the position at which the rack's input
  ended, so that the next start resets the rack. The report of the stop before it puts that position back,
  and a start at the same position of the new document keeps the rack's memory of the old one.

Seen while modelling, without a configuration:

- Housekeeping reads the clipboard once for all its rounds (SPEC-008, lines 201-202, has it read for
  each); `slips` calls this overlap `scan`.
- An open and a recovery look for a recording only at their start (`overtaken`), and the engine is told
  outside the lock (`crossed`).
- Undo, normalize and recording are not refused while a paste job runs (SPEC-008 sections 2.2 and
  2.6.1, and ADR-003, lines 305-306, say they are).
- An import sets the floor again with the sidecar's markers and ignores an error of that
  (`document.rs:2132`): the document then opens clean with the markers of the WAV, and the next save
  writes them over the sidecar's.
- A `SlotFailed` or a parameter report of an old instance is taken for the new one's
  (`host.rs:1799-1868`), and a restart that fails marks a slot that still plays as failed.
- `teardown` of the rack does not read the finished loads (`host.rs:2502-2524`): they are dropped without
  `deactivate`. `InstancesHaveOneOwner` says so.

And `crates/project/src/lib.rs:33` says that a chunk becomes readable only after
its bytes are in the mapping *and flushed*; `store/mod.rs:477` publishes after the copy, and durability
comes with the sync. Nothing depends on the stronger reading, because the session syncs before it
journals (`JournaledChunksDurable`).

## 5. Proofs

`HistoryProofs`, `SessionProofs`, `ChunkStoreProofs`, `SessionDirsProofs`, `SandboxChannelProofs` and
`DocumentProofs` prove the properties named under `theorems` for all values of the constants; `JournalProofs`
and `FoldProofs` have the lemmas on which the first two rest. They start from the named assumptions
of the modules only: sizes and bounds are numbers, the alignment divides the segment, chunk lengths fit
in a segment, the value that stands for no holder is not an instance, a session or a holder, a sample
ring holds two blocks, the latency is at most a block and fits in the stream, an import makes a chunk.
`SessionImplementsUndoLog` also assumes that the disk damages no chunk; why is said with it.

**HistoryProofs** proves `TypeOK`, `SeqsNameDocuments`, `MarkerEntriesKeepSamples`, `CurrentIsNewest`
and `RevisionsIdentifyContent`. There is one lemma on what each operator returns (`CommitEffect`,
`UndoneEffect`, `DroppedEffect`, ..., in `JournalProofs`) and one per action on what it keeps. `SeqsNameDocuments` becomes
inductive with `next_seq >= 1`. `MarkerEntriesKeepSamples` is inductive next to `TypeOK`: an
undo moves an entry between the stacks with the two ends swapped, and both ends had the same samples.
`RevisionsIdentifyContent` is an action property; it follows from `MarkerEntriesKeepSamples` (a step
over an entry that does not touch audio restores the same samples, so keeping `audio_rev` is right)
and `CurrentIsNewest` (a fresh number is larger than every old one).

It also proves `ImplementsUndoLog`. `LineProperties` says what `LineOf` is position by
position, and one lemma per call compares the line and the position before and after: an edit cuts
after the current document and appends, undo and redo leave the line equal (the entry that moves
carries the document that was current, and restamping keeps what a snapshot holds), a drop is the
line from `n + 1` on, marking saved and allocating a marker id are stutters. Only `TypeOK` is needed.

**FoldProofs** says what `FoldLeft` computes, for any operator: the base on an empty sequence, and on a
longer one the operator applied to the fold of the rest and the last element. The library's induction
theorems cannot be used for it, so the induction is by a least counterexample (`UpTo`), which exists
because finite sets are well-founded (`LeastNumber`). The replay, the notes before a checkpoint and the scan
are three instances of it (in `JournalProofs`).

**JournalProofs** is about operators only, whatever history and journal they are applied to. Of a history it
says what each call returns, what it does to the line (`Walk`, a step of UndoLog or none) and to the seqs
along it: they grow (`Ordered`), so that one names at most one document, and what a seq named it names after
the call (`Keeps`), but for the floor's 0 once entries were dropped. Of the journal it says, kind of record by
kind of record, when a record fits after a journal and what replay and scan make of it, and that one call is
what the records of one call replay to (`CallWalks`, `CallAhead`).

**SessionProofs** proves `ScansAgree`, `JournaledChunksDurable`, `JournalHoldsMemory`, `TakeMarkersAreFree`,
`NextTakeIsFresh` and `TakeMarkersAreKept` with `SessionInv`. None of them is inductive, because each speaks of
the journal as it stands, while a crash may turn any prefix of what a failed append left into part of it
and a recovery may cut it at any record. So `DiskInv` speaks of every one of those journals: from `log` on,
with any number of the stray records (`Follows`), every prefix is `Fine`. That means that it is `Sound`: it
replays to its end, to a state of the right shape, in which marker ids are below `next_marker_id` (so that an
undo never brings one back that was handed out again) and only the newest open take may have a WAV or
markers; and the scan of the garbage collection has the same seqs, saved seq and takes (`Agree`). The rest of
the invariant ties memory to the replay of `log` (`MemoryIs`), take ids to what the journal has seen
(`FreshInv`), and the markers and chunks of the take being recorded to the history and the store
(`TakeInv`). `MemoryIs` is
`JournalHoldsMemory` with one addition, that a take which is open in the journal only has no markers; it is
needed because a recovery may offer that take. The proof goes from records over calls to steps. For each
kind of record one lemma says when it `Fits` after a journal, keeping replay and scan
together. For each call one lemma says that the records it writes fit one after the other and what they replay
to, with the cases of an undo drop or a checkpoint of a compaction, which starts the replay anew. For each action
there are then two cases, the append that succeeds (`AfterWrites`) and the one that fails and leaves a prefix
(`AfterFailure`). TLC checked `SessionInv` first, on instances of 1.1 million states.

Four more invariants beside `SessionInv` give the refinement of UndoLog, `RecoveredAudioVerified`, `CleanIsSaved` and
`GcKeepsWork`. They are proved over kinds of steps: nearly every action is `Ordinary`, that is, it appends the records of
one call or, when that fails, leaves a prefix of them, and brings in no audio but what the document has, what is not journaled
yet and the take's; a floor, the steps of a save, a compaction, a crash, a recovery and a deletion are looked at on
their own (`NextKinds`).

- `LogInv`: the journal starts with a floor that names its chunks, all its prefixes replay to sane histories
  (seqs grow), the stray records are those of one call, a close record stands last only in a session that is closing, and until a
  compaction the scan knows every short take.
- `HistInv`: the history is sane, and while the session is down the journal is the history that memory held, or
  `Ahead` of it by one call, or a floor in the place of one nothing was done with. So a crash and a recovery together
  are at most one step along the line. With `LogInv` this is `SessionImplementsUndoLog`, for `MaxBad = 0`, the
  instance of the run: what a recovery cuts off before a damaged chunk may be any number of steps.
- `AudioInv`: no chunk that is not journaled is damaged, ids are not given out twice, and a damaged chunk in a
  history or a take that is in use was overlooked. The state before a cut has only chunks the journal knows, and
  those of them that the last state has were verified: `Recoverable` refuses a state with one that is damaged.
  What else is damaged in it was overlooked, by definition. From then on calls bring in chunks that
  the document has or that were never in a journal when a crash came. So `SessionRecoveredAudioVerified` holds
  for any number of damaged chunks and crashes.
- `SavedInv`: unless a written file is not recorded yet or the floor moved, the saved seq names the document in the
  file. It is inductive only with the same said of a running save, whose captured seq must still name the
  document it writes when it is recorded, whatever was edited, undone or dropped in between (`SaveStands`); and a
  save may outlive its session, which is then dropped and recovered under it (the code compares session ids). If
  that recovery were cut, the captured seq would be given out again; `SaveIntact` says that a session dropped
  during a save has no damaged chunk. It has none unless an earlier recovery overlooked one, so what is
  inductive is `SavedUnlessOverlooked`. Without the exception TLC finds `CleanIsSaved` violated after fourteen steps
  (two damaged chunks, one failed write), one more harm of what `MCSessionRot.cfg` shows.

`CleanIsSaved` follows because the current document stands on the line under the current seq. For `GcKeepsWork` the scan's verdict
has to be carried over to the history (`CleanSays`: not closed, so the seqs on top are equal, no windowed take has
a WAV, no take is short), and from the replay to memory by `MemoryIs`.

**ChunkStoreProofs** proves `StoreInv`, the inductive invariant
`IInv == TypeOK /\ SlotInv /\ ReaderInv /\ WrittenInv /\ HeldInv /\ ViewedInv /\ SyncInv`, and from it
every invariant of the run. `SyncedIsDurable` alone says nothing about a sync in progress, so it is
not inductive; `SyncInv` adds what such a sync still owes: each chunk it covers is durable or
started, or else in a segment on its list. For that to be established when a sync begins, every
viewed chunk must lie in a segment that is marked, or be about to be marked by its writer, or be on
another sync's list (`Covered` in `ViewedInv`); for it to last, segments on a list must stay mapped
(`HeldInv`), since an eviction would take the view away. `SlotInv` bounds every slot by the allocation
cursor, so that a new one is apart from all. The steps are proved one conjunct at a time, one case
per action.

**SessionDirsProofs** proves `OnlyRacesLoseWork` and `OfferedLoads` with `DirsInv`, whose conjuncts each
speak of one instance, of two, or of one session. `WorkAt` and `FilesAt` are the properties themselves.
They need to know who else can be at work on a session: a lock has one holder (`LockAt`), so who
has a session open, creates or recovers it is alone with it (`AloneAt` for the creation, which has no
lock yet; lemma `OwnerAlone`), an open session has the files of its generation, and those of the
next one from the moment its journal is complete (`OpenAt`), and a session whose deletion was decided has no work
and no holder but a scan (`DeleteAt`). The ghost `raced` is what makes `DeleteAt` inductive: the lock
is given up before the deletion, and who opens the session in between is excepted, as in the property. A directory
in creation holds `meta.json` at most (`CreateAt`), which is why a crash in it leaves nothing to offer.
Frame lemmas say what each conjunct depends on; `RestStep`, `DeletionStep`, `HolderStep` and `OwnerStep` are the four
kinds of steps (nobody takes anything up; something that is going away is removed; the holder of a session
acts on it; a command that is alone with its session goes on), and the lemma of each action shows that it
is one of them. `DirsInv` was checked by TLC on two instances with one session, and on one with two.

**SandboxChannelProofs** proves `OutputIsAligned`, `ChunksAreWhole` and `EventsOnTime` with `ChannelInv`
and `EventInv`. The properties look at the samples when they are used; the invariant says for every
position what its slot holds from when to when. `InInv`: of the input, the ring holds the last
`RingCapacity` positions before `Stored`, which in the middle of a call is ahead of `in_write_pos` by up to
a block. So a sample the plugin finds overwritten (`torn`) means that the host is more than `Window` ahead
of the chunk, which is `TornInv`, and the second load of `in_write_pos` sees it; this is where the window is
a block smaller than the ring. `OutInv` says the same of the output, from `out_valid_from` on. What
`wet_ready` accepted, in two loads with the plugin running in between, is right when the second one is
done and stays right until it is read (`ReadInv`): the plugin overwrites positions a whole ring before the
one it computes, which is not beyond `in_write_pos`, and the host reads at most two blocks behind
`in_write_pos`. That is why the ring must hold two blocks, and the proof needs no more (the code takes
eight). `SlotsApart` is the arithmetic of the slots. `EventInv` says that the events in the ring are in
order, that only those a resynchronisation skipped are behind the plugin, and that the chunk being read
ends at its first reset; that `Due` is a prefix of the ring and that the set of resets has a first one is
proved from well-foundedness of finite sets (`LeastNumber`, `PrefixIsInterval`). Both invariants were
checked by TLC on two blocks of two and streams of six or seven.

**DocumentProofs** proves all six properties of the run `document` with `DocInv`, for any number of sessions,
undo steps, compactions and threads at work at once. `HistInv` is `HistoryResolves`, inductive next to the types: a commit
takes only pieces that the store has, a compaction keeps what any step names when it switches, and
nobody else takes a chunk out of the open document's store (`DocumentGrows`). The audio needs more. A paste of a piece that
was cut, an undo, or the end of a job brings a piece back that the current store need not hold, so
`AudioInv` speaks of every piece that somebody still names (`Claimed`: the document and its steps,
the clipboard, the jobs and the take): its id is one the store has given out, and if the store has
the chunk it is the audio the piece was made for. This lasts because ids are given out in order and go on after a switch
(`IdInv`, `NextId`); it is lost with `late` (the job's chunk gets an id the new store gives out again) and
with `foreign` (an id of another session), which is why the properties except these two and no more. `ClipInv` adds, without `scan`, that the store has what the clipboard
names. `FateInv`, `TakeInv` and `UseInv` tell the sessions apart: an opened or recorded session is one
nobody has used, the session of a take is the open one or left for recovery, and what is left stays
left; a session of `owed` is left, or is open with the take in it, so that its close leaves it. `NormInv` says that a revision which equals the job's stands for what the job read; that holds
because `NextRev` differs from the job's revision (four revisions are enough for the three that are
remembered, `NextRevIsNew`). `EngineInv` follows an open and a close between the engine and the lock. `KindOfStep` shows
once that each of the 39 actions is one of a few kinds (`Edited`, `Turned`, `Replaced`, a job that ends, no
change) or one of those that are looked at on their own; every conjunct is then proved over these kinds.
The conjuncts of `DocInv` were checked by TLC in the instance of the run.

Only model-checked: of Rack and Playback the invariants `InstancesHaveOneOwner`, `ChainFollowsModel`,
`TransportFollowsOutput` and `NobodyWaitsForever` and the action properties of their runs, whose inductive invariants speak of
every queue between the threads at once and are not written; and all liveness, which is out of the prover's reach (of
SandboxChannel `NoLostWakeups`, `InputIsServed` and `FaultsAreBypassed`, of SessionDirs `DeletionFinishes`).

## 6. Abstractions and limits

**History, Session.** Samples, positions and lengths in the piece table, labels, clocks and
attachments are left out; `rev` and `audio_rev` are kept. State records (rack, view) are not modelled;
locks, the steps of a deletion and two instances are in SessionDirs. A compaction is one step here; what happens while its copy runs without the lock is in
Document. A damaged chunk is damaged by a crash and found by verification; a
record is readable or not. When recovery or the floor of an
import fails the session is dropped, as in the code; the second floor, with a sidecar's markers, is left out. "Open as new
document" is `RecoverDiscard` followed by whatever comes next. Bounds: `MaxSeq` edits, `MaxRev`
snapshots, `MaxLog` records, `MaxFail` failed writes, `MaxCrash`, `MaxBad` damaged chunks; one loose
chunk of a job, one chunk per take, one compaction, saves that change something (each marked `bound:`
where it stands). Housekeeping decides by memory and disk space when to drop undo entries (`budget.rs:119`); here it
may at any time.

**SessionDirs.** A crash is that of a process, not a loss of power: what was written stays (Session has the
journal's torn tails). A compaction that fails while it copies leaves the new generation's files, one that fails
at the switch removes them. An instance has one document at a time: that a recovery or an open closes the
document before it is left to Document, and so is "open as new document". The user of an instance does one
thing at a time, but a scan may run beside the deletion after a close. A tombstone can always be removed, and
a directory can be moved unless `CanMove` is false; files of a deletion in place may resist. The lock file
is not one of the files (a lock goes with the process), and `find_already_open`, which takes locks for a
moment to see whether they are held, is left out. When the directory sync fails after `meta.json` was
replaced, the reopening of the journal succeeds. A damaged journal, which counts as recoverable, is in
Session. Bounds: `MaxGen` compactions of a session, `MaxCrashes`.

**ChunkStore.** A chunk is named by its offset. The least recently used order of evictions is left
open: any set of segments that may be evicted. A full disk is a write that does not happen. Creating a
segment is atomic, as it is under the allocation lock. The chunks a sync covers are fixed when it takes
the marks, a stronger promise than at its call. A mapping may fail after its evictions. After a failed sync the operating system is taken to
keep the dirty pages. The failure of the flush at an eviction, `set_memory_budget`, the peaks file,
CRC contents, fixed ids (compaction) and the replacement of non-finite samples are not modelled.

**SandboxChannel.** Memory is sequentially consistent: the fences of the code are taken to do their
job, and a missing one would not be found. Time is left open: a wait may end at any moment by its
deadline (which also stands for the limit of 64 rounds), and the hang timeout may pass while the
plugin's own code runs, only then. The counter of a bell is a flag, so its wrap after 2^32 rings is
left out. Loads in a row that no store can separate in effect are one step (`bypass` and `state`;
shutdown and input after a wait; the second check of `wet_ready`). `in_read_pos`, which only repeats
the plugin's cursor, the output events, telemetry, counters, the crossfade and the validation of the
header are left out. A call of `process` with more than a block is several chunks. The silence before
the first position counts as positions `0..L-1`. Not modelled: a second activation in the same process
(the `stop` flag without a shutdown request), a plugin that hangs while its audio thread stops, and
`retiring`. `Troubles`, `MaxPos` and `MaxEvents` are bounds. The code's rings hold eight blocks
(`RING_BLOCKS`); `RingHoldsTwoBlocks` is what the protocol needs.

**Document.** Journals, files and crashes are left to Session. A selection is one piece; positions,
markers, the sidecar, peaks and disk space are left out. What becomes of a chunk that no
document reads any more does not matter. Housekeeping may drop any number of undo steps and begin at any
time; its look at the clipboard and the begin of its first copy are one step, which any other thread's
step in between can be moved across. Revisions are compared and never ordered, so `NextRev` is the least
that nobody remembers. The jobs' registry and progress are not modelled; cancelling a job is one of the
ways in which it is abandoned. After the switch of a generation both stores are usable or the switch did
not happen; its steps on disk are in SessionDirs. Undo of a
bake also puts the rack's old state back after the lock; the rack is not part of Document. Bounds: `MaxSid`
sessions, `MaxSteps` undo and redo steps, `MaxGen` compactions of a session, `MaxChunk` chunks of a store,
`MaxAtOnce` threads besides the commands. The constraint `NoSlipYet` follows a behaviour up to the first
overlap, or take given up, that section 4 describes.

**Rack.** An instance has one parameter and a number; sound, latencies with their delay lines, bypass, A/B,
editors, notices, telemetry and parameter reports are left out, and with A/B the swaps it holds back. The
event ring never overflows (the code keeps what does not fit in `pending_events`). A fade may end in any callback. A loaded
preset has one slot. Loads that are still running at the shutdown, `recover_missing`, the offline
renderer and the registry are not modelled. Bounds: `MaxOps` calls, failures and restart requests
together; the capacities are constants of the code, and the run takes the smallest at which
each is reached. `RackBounds` states the one relation the code relies on, `MaxSwaps <= ReturnCap`.

**Playback.** A callback is one frame; the code works on blocks, whose frames it takes one after the
other but for the commands, which it reads at the start of a block, and the end of the document, which it
reports at the end of one. The document has the device's rate, so there is no resampling and no change of
rate reopens the output. The rack delays and remembers its last input; its latency does not change.
Samples are not mixed: a gain is a number of steps. The rings for commands and reports never overflow
(their capacities are far above what a callback leaves), the packet ring is bounded by the read-ahead, as
in the code. Input monitoring (with which the code does not pre-roll or reset the rack), record runs,
calibration and the reports of the position being heard are left out; of the last, `HeardNow` keeps that it is a
position of the document. The frames of a pre-roll that a callback may spend are a budget of the block in the code and one
of each frame here: the pre-roll is as long, but not cut up in the same way. A document that is taken away is one of length 0. Bounds: `MaxOps` calls of the user and changes
of the device, `Lens` and `Regions`.

## 7. Plan

Done: UndoLog, HistoryOps, History, Journal, Session, SessionDirs, ChunkStore, SandboxChannel, Document,
Rack, Playback; the proofs of History, Session, ChunkStore, SessionDirs, SandboxChannel and
Document.

Next, most important first:

1. **Recording**: the record operation of the engine (arm, pre-roll, window, stop, device loss, late
   notes) against the takes of Document.
2. **PluginHost**: watchdog, restart limit, crash counter and block list, `retiring`; composes with
   the monitor of SandboxChannel and the restarts of Rack. The output events of the channel.
3. **Playback** with input monitoring through the rack, and the record run that shares its callback.

Theorems to come: with `FoldProofs`, what the folds over Rack's rings and chains compute, and from it
`InstancesHaveOneOwner`; for Playback an invariant that ties the reports and commands under way to the transport, and from
it `TransportFollowsOutput`.
