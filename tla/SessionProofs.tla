---------------------------- MODULE SessionProofs ----------------------------
(***************************************************************************)
(* Proofs about the session, for any journal, number of takes, failed      *)
(* appends, crashes and recoveries.                                        *)
(*                                                                         *)
(* First SessionInv: replaying the journal gives what memory holds, the    *)
(* scan of the garbage collection agrees with the replay, journaled chunks *)
(* survive, and takes keep their ids and markers.  Then what a step moves: *)
(* most are Ordinary (they append the records of one call), the others are *)
(* looked at one by one.  Over these kinds the other invariants are kept:  *)
(* LogInv (the records of the journal), HistInv (the line of documents),   *)
(* AudioInv (damaged chunks) and SavedInv (what the file holds).           *)
(***************************************************************************)
EXTENDS Session, JournalProofs

-----------------------------------------------------------------------------
(* The inductive invariant. *)

Started == phase \in {"running", "choice"}

\* Memory hs, tk, J is what the replayed state r gives, and a take that r holds
\* open and memory does not has no WAV and no markers.
MemoryIs(r, hs, tk, J, w) ==
  /\ SameHistory(r.hist, hs)
  /\ r.ids = J
  /\ tk # NoOpen => /\ tk.id \in r.open
                    /\ (tk.id \in r.windowed) <=> tk.window
                    /\ r.markers[tk.id] = tk.marks
  /\ \A t \in r.open : t = tk.id \/ (w[t] = "none" /\ r.markers[t] = {})

GhostOK == "resurfaced" \in DOMAIN ghost /\ ghost.resurfaced \in BOOLEAN

\* The journal, however much of the stray records becomes part of it.
DiskInv ==
  /\ Follows(log, stray, wav)
  /\ IdsIn(log) \cup IdsIn(stray) \subseteq durable

\* Take ids above all that were used.
FreshInv ==
  /\ State(log).max_take < nextTake
  /\ \A t \in TakeId : t >= nextTake => wav[t] = "none"

\* A take that is being recorded.
TakeInv ==
  Recording => /\ wav[take.id] # "none"
               /\ \A m \in take.marks : m < h.next_marker_id
               /\ take.ids \subseteq chunks

SessionInv ==
  /\ TypeOK /\ fails \in Nat /\ GhostOK
  /\ DiskInv
  /\ phase # "gone" /\ ~ghost.resurfaced =>
       MemoryIs(State(log), h, take, journaled, wav)
  /\ Started => ~ghost.resurfaced /\ FreshInv
  /\ phase = "running" => TakeInv
  /\ phase = "choice" => Recording
  /\ pend # {} => phase = "running" /\ ~Recording
  /\ ~Started => stray = <<>>
  /\ TakeMarkersAreFree

-----------------------------------------------------------------------------
(* The journal after a call. *)

\* An append that succeeds.
LEMMA AfterWrites ==
  ASSUME NEW recs, Follows(log, recs, wav'),
         IdsIn(log) \cup IdsIn(recs) \subseteq durable', Writes(recs)
  PROVE  DiskInv' /\ log' = log \o recs /\ stray' = <<>> /\ fails' = fails
<1>1. log' = log \o recs /\ stray' = <<>> /\ fails' = fails
  BY DEF Writes
<1>2. Follows(log', stray', wav') /\ IdsIn(log') \subseteq durable'
  BY <1>1, FollowsAll
<1>3. IdsIn(stray') = {}
  BY <1>1, PlainNone
<1> QED BY <1>1, <1>2, <1>3 DEF DiskInv

\* An append that fails, and may leave its records behind.
LEMMA AfterFailure ==
  ASSUME NEW recs, Follows(log, recs, wav'),
         IdsIn(log) \cup IdsIn(recs) \subseteq durable', fails \in Nat, WriteFails(recs)
  PROVE  DiskInv' /\ log' = log /\ fails' \in Nat /\ fails' # fails
<1>1. log' = log /\ stray' \in {<<>>, recs} /\ fails' = fails + 1
  BY DEF WriteFails
<1>2. Follows(log, <<>>, wav') /\ IdsIn(<<>>) = {}
  BY FollowsParts, FollowsNone, PlainNone
<1>3. CASE stray' = <<>>
  BY <1>1, <1>2, <1>3 DEF DiskInv
<1>4. CASE stray' = recs
  BY <1>1, <1>4 DEF DiskInv
<1> QED BY <1>1, <1>3, <1>4

\* The process ends: a part of the stray records becomes readable.
LEMMA AfterEnd ==
  ASSUME DiskInv, GhostOK, Ends, wav' = wav, durable' = durable
  PROVE  /\ DiskInv' /\ phase' = "down" /\ stray' = <<>> /\ GhostOK'
         /\ ~ghost'.resurfaced => log' = log /\ ~ghost.resurfaced
         /\ (torn \in BOOLEAN => torn' \in BOOLEAN)
<1>1. PICK k \in 0..Len(stray) :
        /\ log' = log \o SubSeq(stray, 1, k)
        /\ stray' = <<>>
        /\ torn' \in IF k < Len(stray) THEN {torn, TRUE} ELSE {torn}
        /\ ghost' = [ghost EXCEPT !.resurfaced = @ \/ k > 0]
  BY DEF Ends
<1>2. Follows(log, stray, wav)
  BY DEF DiskInv
<1>3. /\ Follows(log', <<>>, wav) /\ IdsIn(log') \subseteq IdsIn(log) \cup IdsIn(stray)
      /\ k = 0 => log' = log
  BY <1>1, <1>2, FollowsEnd
<1>4. DiskInv'
  BY <1>1, <1>3, PlainNone DEF DiskInv
<1>5. ghost'.resurfaced = (ghost.resurfaced \/ k > 0) /\ "resurfaced" \in DOMAIN ghost'
  BY <1>1 DEF GhostOK
<1>6. ~ghost'.resurfaced => log' = log /\ ~ghost.resurfaced
  <2>1. k \in Nat
    BY <1>1, <1>2, FollowsParts
  <2>2. CASE k > 0
    <3>1. ghost'.resurfaced = TRUE
      BY <1>5, <2>2
    <3> QED BY <3>1
  <2>3. CASE ~(k > 0)
    <3>1. ghost'.resurfaced = ghost.resurfaced
      BY <1>5, <2>3 DEF GhostOK
    <3>2. log' = log
      BY <1>3, <2>1, <2>3
    <3> QED BY <3>1, <3>2
  <2> QED BY <2>2, <2>3
<1>7. phase' = "down" /\ GhostOK'
  BY <1>5 DEF Ends, GhostOK
<1> QED BY <1>1, <1>4, <1>6, <1>7

\* An append fails in a call that drops the session.
LEMMA AfterFailedEnd ==
  ASSUME NEW recs, Follows(log, recs, wav'),
         IdsIn(log) \cup IdsIn(recs) \subseteq durable', fails \in Nat, GhostOK,
         NEW g, "resurfaced" \in DOMAIN g, g.resurfaced = ghost.resurfaced,
         FailsAndEnds(recs, g)
  PROVE  /\ DiskInv' /\ phase' = "down" /\ stray' = <<>> /\ GhostOK' /\ fails' \in Nat
         /\ ~ghost'.resurfaced => log' = log /\ ~ghost.resurfaced
         /\ (torn \in BOOLEAN => torn' \in BOOLEAN)
<1>1. PICK k \in 0..Len(recs) :
        /\ log' = log \o SubSeq(recs, 1, k)
        /\ torn' \in {torn, torn \/ k < Len(recs)}
        /\ ghost' = [g EXCEPT !.resurfaced = @ \/ k > 0]
  BY DEF FailsAndEnds
<1>2. phase' = "down" /\ stray' = <<>> /\ fails' = fails + 1
  BY DEF FailsAndEnds
<1>3. /\ Follows(log', <<>>, wav') /\ IdsIn(log') \subseteq IdsIn(log) \cup IdsIn(recs)
      /\ k = 0 => log' = log
  BY <1>1, FollowsEnd
<1>4. DiskInv'
  BY <1>2, <1>3, PlainNone DEF DiskInv
<1>5. ghost'.resurfaced = (ghost.resurfaced \/ k > 0) /\ "resurfaced" \in DOMAIN ghost'
  <2>1. ghost'.resurfaced = (g.resurfaced \/ k > 0) /\ "resurfaced" \in DOMAIN ghost'
    BY <1>1
  <2> QED BY <2>1
<1>6. ~ghost'.resurfaced => log' = log /\ ~ghost.resurfaced
  <2>1. k \in Nat
    BY <1>1, FollowsParts
  <2>2. CASE k > 0
    <3>1. ghost'.resurfaced = TRUE
      BY <1>5, <2>2
    <3> QED BY <3>1
  <2>3. CASE ~(k > 0)
    <3>1. ghost'.resurfaced = ghost.resurfaced
      BY <1>5, <2>3 DEF GhostOK
    <3>2. log' = log
      BY <1>3, <2>1, <2>3
    <3> QED BY <3>1, <3>2
  <2> QED BY <2>2, <2>3
<1>7. GhostOK'
  BY <1>5 DEF GhostOK
<1>8. torn \in BOOLEAN => torn' \in BOOLEAN
  BY <1>1
<1> QED BY <1>2, <1>4, <1>6, <1>7, <1>8

-----------------------------------------------------------------------------
(* What the invariant says, and what it takes. *)

\* The types of the variables, spelled out.
LEMMA TypeParts ==
  ASSUME TypeOK
  PROVE  /\ h \in HistoryState /\ take \in TakeState \cup {NoOpen}
         /\ pend \in SUBSET MarkerId /\ nextTake \in Nat
         /\ journaled \in SUBSET Chunk /\ chunks \in SUBSET Chunk
         /\ journaled \subseteq chunks /\ durable \subseteq chunks
         /\ wav \in [TakeId -> {"none", "empty", "audio"}]
         /\ Recording => /\ take \in TakeState /\ take.id \in TakeId
                         /\ take.marks \in SUBSET MarkerId /\ take.ids \in SUBSET Chunk
                         /\ take.window \in BOOLEAN /\ take.short \in BOOLEAN
         /\ ~Recording => take.id \notin TakeId
<1>1. MaxTake \in Nat
  BY MaxTakeIsNat
<1>2. nextTake \in Nat
  BY <1>1 DEF TypeOK
<1>3. ~Recording => take.id \notin TakeId
  BY DEF Recording, NoOpen, NoTake, TakeId
<1> QED BY <1>2, <1>3 DEF TypeOK, TakeState, Recording

\* Everything about a session in memory.
LEMMA StartedParts ==
  ASSUME SessionInv, Started
  PROVE  /\ TypeOK /\ fails \in Nat /\ GhostOK /\ ghost.resurfaced = FALSE /\ DiskInv
         /\ Follows(log, stray, wav) /\ Fine(log, wav)
         /\ IdsIn(log) \subseteq durable /\ IdsIn(log) = journaled
         /\ Standing(State(log), Summary(log), wav)
         /\ SameHistory(State(log).hist, h)
         /\ State(log).ids = journaled
         /\ MemoryIs(State(log), h, take, journaled, wav)
         /\ FreshInv
         /\ State(log).hist \in HistoryState /\ State(log).open \in SUBSET TakeId
         /\ State(log).markers \in [TakeId -> SUBSET MarkerId]
<1>1. /\ TypeOK /\ fails \in Nat /\ GhostOK /\ DiskInv /\ FreshInv /\ ghost.resurfaced = FALSE
      /\ MemoryIs(State(log), h, take, journaled, wav)
  BY DEF SessionInv, Started, GhostOK
<1>2. Follows(log, stray, wav) /\ IdsIn(log) \subseteq durable
  BY <1>1 DEF DiskInv
<1>3. Fine(log, wav)
  BY <1>2, FollowsParts
<1>4. Standing(State(log), Summary(log), wav) /\ State(log).ids = IdsIn(log)
  BY <1>3, FineSound
<1>5. SameHistory(State(log).hist, h) /\ State(log).ids = journaled
  BY <1>1 DEF MemoryIs
<1>6. /\ State(log).hist \in HistoryState /\ State(log).open \in SUBSET TakeId
      /\ State(log).markers \in [TakeId -> SUBSET MarkerId]
  BY <1>4, StandingParts
<1> QED BY <1>1, <1>2, <1>3, <1>4, <1>5, <1>6

\* The markers of a take in memory are those of the journal, so they are free.
LEMMA MarkersFree ==
  ASSUME NEW r, NEW s, NEW w, Standing(r, s, w), NEW hs, NEW tk, NEW J, NEW v,
         MemoryIs(r, hs, tk, J, v), tk # NoOpen
  PROVE  tk.marks \cap hs.current.markers = {}
<1>1. tk.id \in r.open /\ r.markers[tk.id] = tk.marks /\ r.hist.current = hs.current
  BY DEF MemoryIs, SameHistory
<1>2. \A u \in r.open : r.markers[u] \cap r.hist.current.markers = {}
  BY StandingParts
<1> QED BY <1>1, <1>2

\* A session that is in memory and stays there.
LEMMA StaysStarted ==
  ASSUME TypeOK', fails' \in Nat, GhostOK', ghost'.resurfaced = FALSE, DiskInv', Started',
         MemoryIs(State(log'), h', take', journaled', wav'), FreshInv',
         phase' = "running" => TakeInv', phase' = "choice" => take' # NoOpen,
         pend' # {} => phase' = "running" /\ take' = NoOpen
  PROVE  SessionInv'
<1>1. Fine(log', wav')
  BY FollowsParts DEF DiskInv
<1>2. Standing(State(log'), Summary(log'), wav')
  BY <1>1, FineSound
<1>3. take' # NoOpen => take'.marks \cap h'.current.markers = {}
  BY <1>2, MarkersFree
<1>4. TakeMarkersAreFree'
  BY <1>3 DEF TakeMarkersAreFree, Recording
<1> QED BY <1>4 DEF SessionInv, Recording

\* A session that goes out of memory.
LEMMA GoesDown ==
  ASSUME SessionInv, TypeOK', fails' \in Nat, GhostOK', DiskInv', phase' = "down",
         ~ghost'.resurfaced => MemoryIs(State(log'), h', take', journaled', wav'),
         pend' = {}, stray' = <<>>, TakeMarkersAreFree'
  PROVE  SessionInv'
BY DEF SessionInv, Started

\* A step that leaves the journal, the takes and the history alone.
LEMMA StaysQuiet ==
  ASSUME SessionInv, TypeOK', UNCHANGED <<phase, h, take, pend, nextTake, journaled>>,
         UNCHANGED <<log, stray, fails, wav>>, GhostOK', ghost'.resurfaced = ghost.resurfaced,
         chunks \subseteq chunks', durable \subseteq durable'
  PROVE  SessionInv'
<1>1. DiskInv'
  BY DEF SessionInv, DiskInv
<1>2. TakeMarkersAreFree'
  BY DEF SessionInv, TakeMarkersAreFree, Recording
<1>3. FreshInv <=> FreshInv'
  BY DEF FreshInv
<1>4. TakeInv => TakeInv'
  BY DEF TakeInv, Recording
<1> QED BY <1>1, <1>2, <1>3, <1>4 DEF SessionInv, Started, Recording

\* The records of a call are written.
LEMMA Wrote ==
  ASSUME SessionInv, Started, phase' = "running", TypeOK',
         NEW recs, Writes(recs), Follows(log, recs, wav'),
         durable \subseteq durable', IdsIn(recs) \subseteq durable',
         GhostOK', ghost'.resurfaced = ghost.resurfaced,
         MemoryIs(State(log \o recs), h', take', journaled', wav'),
         State(log \o recs).max_take < nextTake',
         \A t \in TakeId : t >= nextTake' => wav'[t] = "none",
         TakeInv', pend' # {} => take' = NoOpen
  PROVE  SessionInv'
<1>1. fails \in Nat /\ ghost.resurfaced = FALSE /\ IdsIn(log) \subseteq durable
  BY StartedParts
<1>2. DiskInv' /\ log' = log \o recs /\ fails' = fails
  <2>1. IdsIn(log) \cup IdsIn(recs) \subseteq durable'
    BY <1>1
  <2> QED BY <2>1, AfterWrites
<1>3. MemoryIs(State(log'), h', take', journaled', wav') /\ FreshInv'
  BY <1>2 DEF FreshInv
<1>4. Started'
  BY DEF Started
<1>5. phase' # "choice"
  OBVIOUS
<1> QED BY <1>1, <1>2, <1>3, <1>4, <1>5, StaysStarted

\* They are not, and the session goes on.
LEMMA Failed ==
  ASSUME SessionInv, phase = "running", phase' = "running", TypeOK',
         NEW recs, WriteFails(recs), Follows(log, recs, wav),
         durable \subseteq durable', IdsIn(recs) \subseteq durable',
         GhostOK', ghost'.resurfaced = ghost.resurfaced,
         MemoryIs(State(log), h', take, journaled, wav),
         UNCHANGED <<take, wav, nextTake, journaled>>, chunks \subseteq chunks',
         h.next_marker_id <= h'.next_marker_id, pend' \in {pend, {}}
  PROVE  SessionInv'
<1>0. Started /\ Started'
  BY DEF Started
<1>1. /\ fails \in Nat /\ ghost.resurfaced = FALSE /\ IdsIn(log) \subseteq durable
      /\ FreshInv /\ TypeOK
  BY <1>0, StartedParts
<1>2. DiskInv' /\ log' = log /\ fails' \in Nat
  <2>1. IdsIn(log) \cup IdsIn(recs) \subseteq durable'
    BY <1>1
  <2> QED BY <1>1, <2>1, AfterFailure
<1>3. MemoryIs(State(log'), h', take', journaled', wav') /\ FreshInv'
  BY <1>1, <1>2 DEF FreshInv
<1>4. TakeInv'
  <2> SUFFICES ASSUME Recording'
               PROVE  /\ wav'[take'.id] # "none"
                      /\ \A m \in take'.marks : m < h'.next_marker_id
                      /\ take'.ids \subseteq chunks'
    BY DEF TakeInv
  <2>1. Recording /\ TakeInv
    BY DEF SessionInv, Recording
  <2>2. \A m \in take.marks : m \in Int
    BY <1>1, <2>1, TypeParts DEF MarkerId
  <2>3. h.next_marker_id \in Int /\ h'.next_marker_id \in Int
    <3>1. h \in HistoryState /\ h' \in HistoryState
      BY <1>1 DEF TypeOK
    <3> QED BY <3>1, HistoryParts
  <2> QED BY <2>1, <2>2, <2>3 DEF TakeInv
<1>5. pend' # {} => take' = NoOpen
  BY DEF SessionInv, Recording
<1> QED BY <1>0, <1>1, <1>2, <1>3, <1>4, <1>5, StaysStarted

\* Other bytes past the end of the journal are there or not.
LEMMA TornIs ==
  ASSUME torn \in BOOLEAN, NEW recs, Writes(recs) \/ WriteFails(recs)
  PROVE  torn' \in BOOLEAN
BY DEF Writes, WriteFails

\* A call that appends one record and then changes the history.
LEMMA StepKeeps ==
  ASSUME SessionInv, Idle, NEW x \in Record, x.type # "checkpoint",
         Fits(State(log), Summary(log), x, wav), IdsOf(x) = {},
         NEW hs \in HistoryState, hs.next_marker_id = h.next_marker_id,
         MemoryIs(Applied(State(log), x), hs, take, journaled, wav),
         Applied(State(log), x).max_take = State(log).max_take,
         \/ Writes(<<x>>) /\ h' = hs
         \/ WriteFails(<<x>>) /\ UNCHANGED h,
         UNCHANGED <<phase, take, pend, nextTake, journaled, disk>>,
         save' \in {save, NoSave}, GhostOK', ghost'.resurfaced = ghost.resurfaced
  PROVE  SessionInv'
<1>0. Started /\ phase = "running" /\ phase' = "running" /\ pend = {} /\ pend' = {}
  BY DEF Idle, Started
<1>1. /\ TypeOK /\ Fine(log, wav) /\ FreshInv
      /\ MemoryIs(State(log), h, take, journaled, wav)
  BY <1>0, StartedParts
<1>2. UNCHANGED <<take, nextTake, journaled, chunks, next, durable, bad, wav, file>>
  BY DEF disk
<1>3. TypeOK'
  <2>1. torn' \in BOOLEAN
    BY <1>1, TornIs DEF TypeOK
  <2>2. h' \in HistoryState
    BY <1>1 DEF TypeOK
  <2> QED BY <1>0, <1>1, <1>2, <2>1, <2>2 DEF TypeOK
<1>4. /\ Follows(log, <<x>>, wav) /\ State(log \o <<x>>) = Applied(State(log), x)
      /\ IdsIn(<<x>>) = {}
  BY <1>1, OneFollows
<1>5. TakeInv
  BY <1>0 DEF SessionInv
<1>6. CASE Writes(<<x>>) /\ h' = hs
  <2>1. TakeInv'
    BY <1>2, <1>5, <1>6 DEF TakeInv, Recording
  <2>2. MemoryIs(State(log \o <<x>>), h', take', journaled', wav')
    BY <1>2, <1>4, <1>6
  <2>3. /\ State(log \o <<x>>).max_take < nextTake'
        /\ \A t \in TakeId : t >= nextTake' => wav'[t] = "none"
    BY <1>1, <1>2, <1>4 DEF FreshInv
  <2>4. /\ Follows(log, <<x>>, wav') /\ durable \subseteq durable'
        /\ IdsIn(<<x>>) \subseteq durable' /\ (pend' # {} => take' = NoOpen)
    BY <1>0, <1>2, <1>4
  <2> DEFINE recs == <<x>>
  <2> HIDE DEF recs
  <2>5. Writes(recs)
    BY <1>6 DEF recs
  <2>6. /\ MemoryIs(State(log \o recs), h', take', journaled', wav')
        /\ State(log \o recs).max_take < nextTake'
        /\ Follows(log, recs, wav') /\ IdsIn(recs) \subseteq durable'
    BY <2>2, <2>3, <2>4 DEF recs
  <2> QED BY <1>0, <1>3, <2>1, <2>3, <2>4, <2>5, <2>6, Wrote
<1>7. CASE WriteFails(<<x>>) /\ h' = h
  <2>1. h.next_marker_id <= h'.next_marker_id
    BY <1>1, <1>7, HistoryParts DEF TypeOK
  <2>2. MemoryIs(State(log), h', take, journaled, wav)
    BY <1>1, <1>7
  <2>3. /\ durable \subseteq durable' /\ chunks \subseteq chunks' /\ pend' \in {pend, {}}
        /\ UNCHANGED <<take, wav, nextTake, journaled>>
    BY <1>0, <1>2
  <2> DEFINE recs == <<x>>
  <2> HIDE DEF recs
  <2>4. WriteFails(recs) /\ Follows(log, recs, wav) /\ IdsIn(recs) \subseteq durable'
    BY <1>4, <1>7 DEF recs
  <2> QED BY <1>0, <1>3, <2>1, <2>2, <2>3, <2>4, Failed
<1> QED BY <1>6, <1>7

\* While no take is recorded, an open one of the journal has no WAV and no markers.
LEMMA NoMarksOpen ==
  ASSUME SessionInv, Started, ~Recording
  PROVE  \A t \in State(log).open : wav[t] = "none" /\ State(log).markers[t] = {}
<1>1. /\ TypeOK /\ MemoryIs(State(log), h, take, journaled, wav)
      /\ State(log).open \in SUBSET TakeId
  BY StartedParts
<1>2. take.id \notin TakeId
  BY <1>1, TypeParts
<1> QED BY <1>1, <1>2 DEF MemoryIs

\* Another history over the same takes.
LEMMA MemoryOf ==
  ASSUME NEW r, NEW hs, NEW tk, NEW J, NEW w, MemoryIs(r, hs, tk, J, w),
         NEW a, NEW b, SameHistory(a, b),
         NEW r1, r1.hist = a, r1.ids = r.ids, r1.open = r.open, r1.windowed = r.windowed,
         r1.markers = r.markers
  PROVE  MemoryIs(r1, b, tk, J, w)
BY DEF MemoryIs

\* Session::undo.
LEMMA UndoKeeps ==
  ASSUME SessionInv, Undo
  PROVE  SessionInv'
<1> DEFINE r == State(log)
           q == Top(h.undo).seq
           x == UndoRec(q)
<1>1. Idle /\ ~Recording /\ h.undo # <<>> /\ Step(x, Undone(h)) /\ ghost' = ghost
  BY DEF Undo
<1>2. Started
  BY <1>1 DEF Idle, Started
<1>3. /\ TypeOK /\ GhostOK /\ Standing(r, Summary(log), wav) /\ SameHistory(r.hist, h)
      /\ MemoryIs(r, h, take, journaled, wav) /\ r.hist \in HistoryState
  BY <1>2, StartedParts
<1>4. r.hist.undo = h.undo /\ h \in HistoryState
  BY <1>3 DEF SameHistory, TypeOK
<1>5. \A t \in r.open : r.markers[t] = {}
  BY <1>1, <1>2, NoMarksOpen
<1>6. Fits(r, Summary(log), x, wav) /\ q \in Nat
  <2> HIDE DEF r
  <2>1. r.hist.undo # <<>>
    BY <1>1, <1>4
  <2>2. /\ Fits(r, Summary(log), UndoRec(Top(r.hist.undo).seq), wav)
        /\ Top(r.hist.undo).seq \in Nat
    BY <1>3, <1>5, <2>1, UndoFits
  <2> QED BY <1>4, <2>2
<1>7. x \in Record /\ x.type # "checkpoint" /\ IdsOf(x) = {}
  BY <1>6, RecordsAre DEF UndoRec, IdsOf
<1>8. Undone(h) \in HistoryState /\ Undone(h).next_marker_id = h.next_marker_id
  BY <1>1, <1>4, UndoneType DEF Undone, HistoryState
<1> HIDE DEF r
<1>9. Applied(r, x) = [hist |-> Undone(r.hist), ids |-> r.ids, open |-> r.open,
               windowed |-> r.windowed, markers |-> r.markers, max_take |-> r.max_take]
  <2>1. r \in ReplayState
    BY <1>3, StandingParts
  <2> QED BY <2>1, AppliedHistory
<1>10. /\ MemoryIs(Applied(r, x), Undone(h), take, journaled, wav)
       /\ Applied(r, x).max_take = r.max_take
  <2>1. SameHistory(Undone(r.hist), Undone(h))
    BY <1>3, <1>4, SameSteps
  <2> HIDE DEF x
  <2> QED BY <1>3, <1>9, <2>1, MemoryOf
<1> HIDE DEF x
<1>11. /\ \/ Writes(<<x>>) /\ h' = Undone(h)
          \/ WriteFails(<<x>>) /\ UNCHANGED h
       /\ UNCHANGED <<phase, take, pend, nextTake, journaled, disk>> /\ save' = save
       /\ GhostOK' /\ ghost'.resurfaced = ghost.resurfaced
  BY <1>1, <1>3 DEF Step, GhostOK
<1>12. save' \in {save, NoSave}
  BY <1>11
<1> QED BY <1>1, <1>6, <1>7, <1>8, <1>10, <1>11, <1>12, StepKeeps DEF r

\* Session::redo.
LEMMA RedoKeeps ==
  ASSUME SessionInv, Redo
  PROVE  SessionInv'
<1> DEFINE r == State(log)
           q == Top(h.redo).seq
           x == RedoRec(q)
<1>1. Idle /\ ~Recording /\ h.redo # <<>> /\ Step(x, Redone(h)) /\ ghost' = ghost
  BY DEF Redo
<1>2. Started
  BY <1>1 DEF Idle, Started
<1>3. /\ TypeOK /\ GhostOK /\ Standing(r, Summary(log), wav) /\ SameHistory(r.hist, h)
      /\ MemoryIs(r, h, take, journaled, wav) /\ r.hist \in HistoryState
  BY <1>2, StartedParts
<1>4. r.hist.redo = h.redo /\ h \in HistoryState
  BY <1>3 DEF SameHistory, TypeOK
<1>5. \A t \in r.open : r.markers[t] = {}
  BY <1>1, <1>2, NoMarksOpen
<1>6. Fits(r, Summary(log), x, wav) /\ q \in Nat
  <2> HIDE DEF r
  <2>1. r.hist.redo # <<>>
    BY <1>1, <1>4
  <2>2. /\ Fits(r, Summary(log), RedoRec(Top(r.hist.redo).seq), wav)
        /\ Top(r.hist.redo).seq \in Nat
    BY <1>3, <1>5, <2>1, RedoFits
  <2> QED BY <1>4, <2>2
<1>7. x \in Record /\ x.type # "checkpoint" /\ IdsOf(x) = {}
  BY <1>6, RecordsAre DEF RedoRec, IdsOf
<1>8. Redone(h) \in HistoryState /\ Redone(h).next_marker_id = h.next_marker_id
  BY <1>1, <1>4, RedoneType DEF Redone, HistoryState
<1> HIDE DEF r
<1>9. Applied(r, x) = [hist |-> Redone(r.hist), ids |-> r.ids, open |-> r.open,
               windowed |-> r.windowed, markers |-> r.markers, max_take |-> r.max_take]
  <2>1. r \in ReplayState
    BY <1>3, StandingParts
  <2> QED BY <2>1, AppliedHistory
<1>10. /\ MemoryIs(Applied(r, x), Redone(h), take, journaled, wav)
       /\ Applied(r, x).max_take = r.max_take
  <2>1. SameHistory(Redone(r.hist), Redone(h))
    BY <1>3, <1>4, SameSteps
  <2> HIDE DEF x
  <2> QED BY <1>3, <1>9, <2>1, MemoryOf
<1> HIDE DEF x
<1>11. /\ \/ Writes(<<x>>) /\ h' = Redone(h)
          \/ WriteFails(<<x>>) /\ UNCHANGED h
       /\ UNCHANGED <<phase, take, pend, nextTake, journaled, disk>> /\ save' = save
       /\ GhostOK' /\ ghost'.resurfaced = ghost.resurfaced
  BY <1>1, <1>3 DEF Step, GhostOK
<1>12. save' \in {save, NoSave}
  BY <1>11
<1> QED BY <1>1, <1>6, <1>7, <1>8, <1>10, <1>11, <1>12, StepKeeps DEF r

\* Session::drop_oldest_undo.
LEMMA DropKeeps ==
  ASSUME SessionInv, NEW n, DropOldestUndo(n)
  PROVE  SessionInv'
<1> DEFINE r  == State(log)
           hs == DroppedOldest(h, n)
           x  == DropUndo(n)
<1>1. Idle /\ n \in 1..Len(h.undo) /\ Step(x, hs) /\ ghost' = [ghost EXCEPT !.floorMoved = TRUE]
  BY DEF DropOldestUndo
<1>2. Started
  BY <1>1 DEF Idle, Started
<1>3. /\ TypeOK /\ GhostOK /\ Standing(r, Summary(log), wav) /\ SameHistory(r.hist, h)
      /\ MemoryIs(r, h, take, journaled, wav) /\ r.hist \in HistoryState
  BY <1>2, StartedParts
<1>4. r.hist.undo = h.undo /\ h \in HistoryState
  BY <1>3 DEF SameHistory, TypeOK
<1>5. n \in Nat
  BY <1>1, <1>4, StackShape
<1> HIDE DEF r
<1>6. Fits(r, Summary(log), x, wav) /\ Applied(r, x).hist = DroppedOldest(r.hist, n)
  BY <1>1, <1>3, <1>4, DropFits
<1>7. x \in Record /\ x.type # "checkpoint" /\ IdsOf(x) = {}
  BY <1>5, RecordsAre DEF DropUndo, IdsOf
<1>8. hs \in HistoryState /\ hs.next_marker_id = h.next_marker_id
  BY <1>1, <1>4, DroppedType DEF DroppedOldest, HistoryState
<1>9. Applied(r, x) = [hist |-> DroppedOldest(r.hist, Least(n, Len(r.hist.undo))),
               ids |-> r.ids, open |-> r.open,
               windowed |-> r.windowed, markers |-> r.markers, max_take |-> r.max_take]
  <2>1. r \in ReplayState
    BY <1>3, StandingParts
  <2> QED BY <2>1, AppliedHistory
<1>10. /\ MemoryIs(Applied(r, x), hs, take, journaled, wav)
       /\ Applied(r, x).max_take = r.max_take
  <2>1. SameHistory(DroppedOldest(r.hist, n), hs)
    BY <1>3, <1>4, SameSteps
  <2> HIDE DEF x, hs
  <2> QED BY <1>3, <1>6, <1>9, <2>1, MemoryOf
<1> HIDE DEF x, hs
<1>11. /\ \/ Writes(<<x>>) /\ h' = hs
          \/ WriteFails(<<x>>) /\ UNCHANGED h
       /\ UNCHANGED <<phase, take, pend, nextTake, journaled, disk>> /\ save' = save
  BY <1>1 DEF Step
<1>12. GhostOK' /\ ghost'.resurfaced = ghost.resurfaced
  BY <1>1, <1>3 DEF GhostOK
<1>13. save' \in {save, NoSave}
  BY <1>11
<1> QED BY <1>1, <1>6, <1>7, <1>8, <1>10, <1>11, <1>12, <1>13, StepKeeps DEF r

\* The end of finish_save.
LEMMA MarkSavedKeeps ==
  ASSUME SessionInv, MarkSaved
  PROVE  SessionInv'
<1> DEFINE r  == State(log)
           q  == save.seq
           hs == MarkedSavedAt(h, q)
           x  == Saved(q)
<1>1. /\ Idle /\ save.state = "written" /\ save' = NoSave
      /\ \/ Writes(<<x>>) /\ h' = hs /\ ghost' = [ghost EXCEPT !.unmarked = FALSE]
         \/ WriteFails(<<x>>) /\ h' = h /\ ghost' = ghost
      /\ UNCHANGED <<phase, take, pend, nextTake, journaled, disk>>
  BY DEF MarkSaved, SavedSeq
<1>2. Started
  BY <1>1 DEF Idle, Started
<1>3. /\ TypeOK /\ GhostOK /\ Standing(r, Summary(log), wav) /\ SameHistory(r.hist, h)
      /\ MemoryIs(r, h, take, journaled, wav) /\ r.hist \in HistoryState
  BY <1>2, StartedParts
<1>4. h \in HistoryState /\ q \in Nat
  BY <1>1, <1>3 DEF TypeOK, NoSave
<1> HIDE DEF r
<1>6. Fits(r, Summary(log), x, wav)
  BY <1>3, <1>4, SavedFits
<1>7. x \in Record /\ x.type # "checkpoint" /\ IdsOf(x) = {}
  BY <1>4, RecordsAre DEF Saved, IdsOf
<1>8. hs \in HistoryState /\ hs.next_marker_id = h.next_marker_id
  BY <1>4, MarkedSavedType DEF MarkedSavedAt, HistoryState
<1>9. Applied(r, x) = [hist |-> MarkedSavedAt(r.hist, q), ids |-> r.ids, open |-> r.open,
               windowed |-> r.windowed, markers |-> r.markers, max_take |-> r.max_take]
  <2>1. r \in ReplayState
    BY <1>3, StandingParts
  <2> QED BY <2>1, AppliedHistory
<1>10. /\ MemoryIs(Applied(r, x), hs, take, journaled, wav)
       /\ Applied(r, x).max_take = r.max_take
  <2>1. SameHistory(MarkedSavedAt(r.hist, q), hs)
    BY <1>3, <1>4, SameSteps
  <2> HIDE DEF x, hs, q
  <2> QED BY <1>3, <1>9, <2>1, MemoryOf
<1> HIDE DEF x, hs
<1>11. GhostOK' /\ ghost'.resurfaced = ghost.resurfaced
  BY <1>1, <1>3 DEF GhostOK
<1>12. /\ \/ Writes(<<x>>) /\ h' = hs
          \/ WriteFails(<<x>>) /\ UNCHANGED h
       /\ save' \in {save, NoSave}
  BY <1>1
<1> QED BY <1>1, <1>6, <1>7, <1>8, <1>10, <1>11, <1>12, StepKeeps DEF r

\* The worker of an edit job writes into the store.
LEMMA WriteChunkKeeps ==
  ASSUME SessionInv, WriteChunk
  PROVE  SessionInv'
<1>1. TypeOK /\ GhostOK
  BY DEF SessionInv
<1>2. /\ next \in Chunk /\ chunks' = chunks \cup {next}
      /\ UNCHANGED <<phase, h, take, pend, nextTake, journaled, save>>
      /\ UNCHANGED <<log, stray, torn, fails>> /\ UNCHANGED <<durable, bad, wav, file, ghost>>
  BY DEF WriteChunk, memory, journal
<1>3. TypeOK'
  BY <1>1, <1>2 DEF TypeOK
<1>4. GhostOK'
  BY <1>1, <1>2 DEF GhostOK
<1> QED BY <1>2, <1>3, <1>4, StaysQuiet

\* The begin of finish_save.
LEMMA BeginSaveKeeps ==
  ASSUME SessionInv, BeginSave
  PROVE  SessionInv'
<1>1. TypeOK /\ GhostOK
  BY DEF SessionInv
<1>2. /\ save' = [state |-> "writing", seq |-> CurrentSeq(h), doc |-> Content(h.current)]
      /\ UNCHANGED <<phase, h, take, pend, nextTake, journaled>>
      /\ UNCHANGED <<log, stray, torn, fails>>
      /\ UNCHANGED <<chunks, next, durable, bad, wav, file, ghost>>
  BY DEF BeginSave, disk, journal
<1>3. h \in HistoryState
  BY <1>1 DEF TypeOK
<1>4. Content(h.current) \in Document
  BY <1>3, HistoryParts DEF Content, Document, Snapshot
<1>5. CurrentSeq(h) \in Nat
  <2>1. CASE h.undo = <<>>
    BY <2>1 DEF CurrentSeq
  <2>2. CASE h.undo # <<>>
    <3>1. Top(h.undo) \in Entry
      BY <1>3, <2>2, StackShape, PopType
    <3> QED BY <2>2, <3>1 DEF CurrentSeq, Top, Entry
  <2> QED BY <2>1, <2>2
<1>6. save' \in [state : {"writing", "written"}, seq : Nat, doc : Document]
  BY <1>2, <1>4, <1>5
<1>7. TypeOK'
  BY <1>1, <1>2, <1>6 DEF TypeOK
<1>8. GhostOK'
  BY <1>1, <1>2 DEF GhostOK
<1> QED BY <1>2, <1>7, <1>8, StaysQuiet

\* The file is written without the lock.
LEMMA WriteFileKeeps ==
  ASSUME SessionInv, WriteFile
  PROVE  SessionInv'
<1>1. TypeOK /\ GhostOK
  BY DEF SessionInv
<1>2. /\ save.state = "writing" /\ file' = save.doc
      /\ save' = [save EXCEPT !.state = "written"]
      /\ ghost' = [ghost EXCEPT !.unmarked = TRUE]
      /\ UNCHANGED <<phase, h, take, pend, nextTake, journaled>>
      /\ UNCHANGED <<log, stray, torn, fails>>
      /\ UNCHANGED <<chunks, next, durable, bad, wav>>
  BY DEF WriteFile, journal
<1>3. save \in [state : {"writing", "written"}, seq : Nat, doc : Document]
  BY <1>1, <1>2 DEF TypeOK, NoSave
<1>4. /\ save' \in [state : {"writing", "written"}, seq : Nat, doc : Document]
      /\ file' \in Document
  BY <1>2, <1>3
<1>5. TypeOK'
  BY <1>1, <1>2, <1>4 DEF TypeOK
<1>6. GhostOK' /\ ghost'.resurfaced = ghost.resurfaced
  BY <1>1, <1>2 DEF GhostOK
<1> QED BY <1>2, <1>5, <1>6, StaysQuiet

\* The records of an edit, and what the journal replays to with them.
LEMMA CommitWrites ==
  ASSUME SessionInv, Started, NEW e \in EditOps, NEW t \in TakeId \cup {NoTake},
         NEW sh \in BOOLEAN, NEW hs \in HistoryState, SameHistory(State(log).hist, hs),
         h.next_seq = hs.next_seq, Prepares(hs, e), e.ins \subseteq chunks,
         \A u \in State(log).open : u # t => State(log).markers[u] \cap e.madd = {}
  PROVE  LET new  == e.ins \ journaled
             recs == (IF new = {} THEN <<>> ELSE <<Chunks(new)>>)
                       \o <<Edit(h.next_seq, e, t, sh)>>
             D    == IF new = {} THEN durable ELSE chunks
         IN  /\ Follows(log, recs, wav)
             /\ State(log \o recs) = Edited(State(log), journaled \cup new, e, t)
             /\ IdsIn(recs) \subseteq D
             /\ durable \subseteq D /\ D \subseteq chunks
             /\ journaled \cup new \subseteq chunks /\ new \in SUBSET Chunk
<1> DEFINE r    == State(log)
           new  == e.ins \ journaled
           recs == (IF new = {} THEN <<>> ELSE <<Chunks(new)>>)
                     \o <<Edit(h.next_seq, e, t, sh)>>
           D    == IF new = {} THEN durable ELSE chunks
<1>1. /\ TypeOK /\ Fine(log, wav) /\ IdsIn(log) \subseteq durable /\ IdsIn(log) = journaled
      /\ r.ids = journaled /\ r.hist \in HistoryState
  BY StartedParts
<1>2. /\ journaled \subseteq chunks /\ durable \subseteq chunks /\ chunks \in SUBSET Chunk
  BY <1>1, TypeParts
<1>3. Prepares(r.hist, e)
  BY <1>1, SameCommit
<1>4. r.hist.next_seq = h.next_seq
  BY DEF SameHistory
<1>5. /\ Follows(log, recs, wav)
      /\ State(log \o recs) = Edited(r, r.ids \cup new, e, t)
      /\ IdsIn(recs) = e.ins
  <2> DEFINE I  == e.ins \ State(log).ids
             xs == (IF I = {} THEN <<>> ELSE <<Chunks(I)>>)
                     \o <<Edit(State(log).hist.next_seq, e, t, sh)>>
  <2>1. /\ Fine(log, wav) /\ Prepares(State(log).hist, e)
        /\ e \in EditOps /\ t \in TakeId \cup {NoTake} /\ sh \in BOOLEAN
        /\ \A u \in State(log).open : u # t => State(log).markers[u] \cap e.madd = {}
    BY <1>1, <1>3
  <2>2. Commits(log, xs, wav, e, t)
    BY ONLY <2>1, CommitFollows
  <2>3. I = new /\ xs = recs
    BY <1>1, <1>4
  <2>4. I = e.ins \ State(log).ids
    OBVIOUS
  <2> HIDE DEF recs, new, xs, I
  <2> QED BY <2>2, <2>3, <2>4 DEF Commits
<1>6. IdsIn(recs) \subseteq D
  BY <1>1, <1>5
<1>7. durable \subseteq D /\ D \subseteq chunks /\ journaled \cup new \subseteq chunks
      /\ new \in SUBSET Chunk
  BY <1>2
<1> QED BY <1>1, <1>5, <1>6, <1>7

\* The take a commit closes, or the one that stays open over it.
LEMMA EditedMemory ==
  ASSUME NEW r, NEW hs, NEW tk, NEW J, NEW w, MemoryIs(r, hs, tk, J, w),
         r.markers \in [TakeId -> SUBSET MarkerId], r.open \in SUBSET TakeId,
         NEW e, NEW t, NEW K, NEW b, SameHistory(Commit(r.hist, e), b),
         NEW tk2, \/ t = NoTake /\ tk2 = tk
                  \/ t = tk.id /\ t \in TakeId /\ tk2 = NoOpen
  PROVE  MemoryIs(Edited(r, K, e, t), b, tk2, K, w)
<1> DEFINE r2 == Edited(r, K, e, t)
<1>1. /\ tk # NoOpen => /\ tk.id \in r.open
                        /\ (tk.id \in r.windowed) <=> tk.window
                        /\ r.markers[tk.id] = tk.marks
      /\ \A u \in r.open : u = tk.id \/ (w[u] = "none" /\ r.markers[u] = {})
  BY DEF MemoryIs
<1>2. r2.hist = Commit(r.hist, e) /\ r2.ids = K
  BY DEF Edited
<1>3. CASE t = NoTake /\ tk2 = tk
  <2>1. r2.open = r.open /\ r2.windowed = r.windowed /\ r2.markers = r.markers
    BY <1>3 DEF Edited
  <2> HIDE DEF r2
  <2>2. SameHistory(r2.hist, b) /\ r2.ids = K
    BY <1>2
  <2>3. tk2 # NoOpen => /\ tk2.id \in r2.open
                        /\ (tk2.id \in r2.windowed) <=> tk2.window
                        /\ r2.markers[tk2.id] = tk2.marks
    BY <1>1, <1>3, <2>1
  <2>4. \A u \in r2.open : u = tk2.id \/ (w[u] = "none" /\ r2.markers[u] = {})
    BY <1>1, <1>3, <2>1
  <2>5. MemoryIs(r2, b, tk2, K, w)
    BY <2>2, <2>3, <2>4 DEF MemoryIs
  <2> QED BY <2>5 DEF r2
<1>4. CASE t = tk.id /\ t \in TakeId /\ tk2 = NoOpen
  <2>0. t # NoTake
    BY <1>4 DEF TakeId, NoTake
  <2>1. r2.open = r.open \ {t} /\ r2.markers = [r.markers EXCEPT ![t] = {}]
    BY <2>0 DEF Edited
  <2> HIDE DEF r2
  <2>2. \A u \in r2.open : w[u] = "none" /\ r2.markers[u] = {}
    BY <1>1, <1>4, <2>1
  <2>3. SameHistory(r2.hist, b) /\ r2.ids = K
    BY <1>2
  <2>4. MemoryIs(r2, b, tk2, K, w)
    BY <1>4, <2>2, <2>3 DEF MemoryIs
  <2> QED BY <2>4 DEF r2
<1> QED BY <1>3, <1>4 DEF r2

\* A commit whose append succeeds ...
LEMMA CommitKeeps ==
  ASSUME SessionInv, phase = "running", phase' = "running",
         NEW e \in EditOps, NEW t \in TakeId \cup {NoTake},
         NEW sh \in BOOLEAN, NEW hs \in HistoryState, SameHistory(State(log).hist, hs),
         h.next_seq = hs.next_seq, h.next_marker_id <= hs.next_marker_id,
         Prepares(hs, e), e.ins \subseteq chunks,
         \A u \in State(log).open : u # t => State(log).markers[u] \cap e.madd = {},
         CommitRecords(h.next_seq, e, t, sh), h' = Commit(hs, e),
         \/ t = NoTake /\ take' = take
         \/ t = take.id /\ t \in TakeId /\ take' = NoOpen,
         pend' \subseteq pend,
         UNCHANGED <<nextTake, save, chunks, next, bad, wav, file>>,
         GhostOK', ghost'.resurfaced = ghost.resurfaced
  PROVE  SessionInv'
<1> DEFINE r    == State(log)
           new  == e.ins \ journaled
           recs == (IF new = {} THEN <<>> ELSE <<Chunks(new)>>)
                     \o <<Edit(h.next_seq, e, t, sh)>>
           D    == IF new = {} THEN durable ELSE chunks
<1>0. Started
  BY DEF Started
<1>1. /\ TypeOK /\ FreshInv /\ MemoryIs(r, h, take, journaled, wav) /\ r.hist \in HistoryState
      /\ r.markers \in [TakeId -> SUBSET MarkerId] /\ r.open \in SUBSET TakeId
  BY <1>0, StartedParts
<1>2. /\ Follows(log, recs, wav)
      /\ State(log \o recs) = Edited(r, journaled \cup new, e, t)
      /\ IdsIn(recs) \subseteq D
      /\ durable \subseteq D /\ D \subseteq chunks
      /\ journaled \cup new \subseteq chunks /\ new \in SUBSET Chunk
  BY <1>0, CommitWrites
<1>3. Writes(recs) /\ durable' = D /\ journaled' = journaled \cup new
  BY DEF CommitRecords
<1> HIDE DEF recs, D, new, r
<1>4. SameHistory(Commit(r.hist, e), Commit(hs, e))
  BY <1>1, SameCommit DEF r
<1>5. MemoryIs(State(log \o recs), h', take', journaled', wav')
  <2>1. MemoryIs(Edited(r, journaled \cup new, e, t), h', take', journaled \cup new, wav)
    BY <1>1, <1>4, EditedMemory
  <2> QED BY <1>2, <1>3, <2>1
<1>6. h \in HistoryState /\ h' \in HistoryState /\ e.madd \in SUBSET MarkerId
  BY <1>1, CommitType DEF TypeOK, EditOps
<1>7. TypeOK'
  <2>1. torn' \in BOOLEAN
    BY <1>1, <1>3, TornIs DEF TypeOK
  <2>2. take' \in TakeState \cup {NoOpen}
    BY <1>1 DEF TypeOK
  <2>3. pend' \subseteq MarkerId
    BY <1>1 DEF TypeOK
  <2> QED BY <1>1, <1>2, <1>3, <1>6, <2>1, <2>2, <2>3 DEF TypeOK
<1>8. TakeInv'
  <2> SUFFICES ASSUME Recording'
               PROVE  /\ wav'[take'.id] # "none"
                      /\ \A m \in take'.marks : m < h'.next_marker_id
                      /\ take'.ids \subseteq chunks'
    BY DEF TakeInv
  <2>1. Recording /\ take' = take
    BY DEF Recording
  <2>2. TakeInv
    BY DEF SessionInv
  <2>3. \A m \in take.marks : m \in Int
    BY <1>1, <2>1, TypeParts DEF MarkerId
  <2>4. hs.next_marker_id <= h'.next_marker_id
    <3>1. h'.next_marker_id = IdAbove(hs.next_marker_id, e.madd)
      BY DEF Commit, HistoryState
    <3> QED BY <1>6, <3>1, HistoryParts, IdAboveType
  <2>5. h.next_marker_id \in Int /\ hs.next_marker_id \in Int /\ h'.next_marker_id \in Int
    BY <1>6, HistoryParts
  <2> QED BY <2>1, <2>2, <2>3, <2>4, <2>5 DEF TakeInv
<1>9. pend' # {} => take' = NoOpen
  <2> SUFFICES ASSUME pend' # {} PROVE take' = NoOpen
    OBVIOUS
  <2>1. ~Recording
    BY DEF SessionInv
  <2> QED BY <2>1 DEF Recording
<1>10. /\ State(log \o recs).max_take < nextTake'
       /\ \A u \in TakeId : u >= nextTake' => wav'[u] = "none"
  BY <1>1, <1>2 DEF FreshInv, Edited, r
<1>11. Follows(log, recs, wav') /\ durable \subseteq durable' /\ IdsIn(recs) \subseteq durable'
  BY <1>2, <1>3
<1> QED BY <1>0, <1>3, <1>5, <1>7, <1>8, <1>9, <1>10, <1>11, Wrote

\* ... and one whose append fails.
LEMMA CommitFailsKeeps ==
  ASSUME SessionInv, phase = "running", phase' = "running",
         NEW e \in EditOps, NEW t \in TakeId \cup {NoTake},
         NEW sh \in BOOLEAN, NEW hs \in HistoryState, SameHistory(State(log).hist, hs),
         h.next_seq = hs.next_seq, h.next_marker_id <= hs.next_marker_id,
         Prepares(hs, e), e.ins \subseteq chunks,
         \A u \in State(log).open : u # t => State(log).markers[u] \cap e.madd = {},
         CommitFails(h.next_seq, e, t, sh), h' = hs, take' = take,
         pend' \in {pend, {}},
         UNCHANGED <<nextTake, save, chunks, next, bad, wav, file>>,
         GhostOK', ghost'.resurfaced = ghost.resurfaced
  PROVE  SessionInv'
<1> DEFINE r    == State(log)
           new  == e.ins \ journaled
           recs == (IF new = {} THEN <<>> ELSE <<Chunks(new)>>)
                     \o <<Edit(h.next_seq, e, t, sh)>>
           D    == IF new = {} THEN durable ELSE chunks
<1>0. Started
  BY DEF Started
<1>1. /\ TypeOK /\ MemoryIs(r, h, take, journaled, wav)
  BY <1>0, StartedParts
<1>2. /\ Follows(log, recs, wav) /\ IdsIn(recs) \subseteq D
      /\ durable \subseteq D /\ D \subseteq chunks
  BY <1>0, CommitWrites
<1>3. WriteFails(recs) /\ durable' = D /\ journaled' = journaled
  BY DEF CommitFails
<1> HIDE DEF recs, D, new, r
<1>4. MemoryIs(State(log), h', take, journaled, wav)
  BY <1>1 DEF MemoryIs, r
<1>5. TypeOK'
  <2>1. torn' \in BOOLEAN
    BY <1>1, <1>3, TornIs DEF TypeOK
  <2>2. pend' \subseteq MarkerId
    BY <1>1 DEF TypeOK
  <2> QED BY <1>1, <1>2, <1>3, <2>1, <2>2 DEF TypeOK
<1>6. /\ durable \subseteq durable' /\ IdsIn(recs) \subseteq durable' /\ chunks \subseteq chunks'
      /\ UNCHANGED <<take, wav, nextTake, journaled>>
  BY <1>2, <1>3
<1> QED BY <1>2, <1>3, <1>4, <1>5, <1>6, Failed

\* Session::commit with the marker allocated before it.
LEMMA CommitEditKeeps ==
  ASSUME SessionInv, NEW e \in Edits, CommitEdit(e)
  PROVE  SessionInv'
<1> DEFINE r  == State(log)
           hs == IF e.madd = {} THEN h ELSE AllocatedMarker(h)
<1>1. /\ Idle /\ e.ins \subseteq Live(h) \cup (chunks \ journaled)
      /\ e.madd \subseteq {h.next_marker_id} /\ Prepares(hs, e)
      /\ \/ CommitRecords(h.next_seq, e, NoTake, FALSE) /\ h' = Commit(hs, e)
         \/ CommitFails(h.next_seq, e, NoTake, FALSE) /\ h' = hs
      /\ UNCHANGED <<phase, take, pend, nextTake, save, chunks, next, bad, wav,
                     file, crashes, ghost>>
  BY DEF CommitEdit, CanCommit
<1>2. Started /\ phase = "running" /\ phase' = "running" /\ pend = {} /\ e \in EditOps
  BY <1>1, EditsAreOps DEF Idle, Started
<1>3. /\ TypeOK /\ GhostOK /\ Standing(r, Summary(log), wav) /\ SameHistory(r.hist, h)
      /\ MemoryIs(r, h, take, journaled, wav) /\ r.hist \in HistoryState
      /\ r.ids = journaled /\ r.open \in SUBSET TakeId
  BY <1>2, StartedParts
<1>4. h \in HistoryState /\ journaled \subseteq chunks
  BY <1>3 DEF TypeOK
<1>5. /\ hs \in HistoryState /\ SameHistory(r.hist, hs) /\ h.next_seq = hs.next_seq
      /\ h.next_marker_id <= hs.next_marker_id
  <2>1. CASE e.madd = {}
    <3>1. h.next_marker_id \in Nat
      BY <1>4, HistoryParts
    <3> QED BY <1>3, <1>4, <2>1, <3>1
  <2>2. CASE e.madd # {}
    <3>1. AllocatedMarker(h) \in HistoryState /\ SameHistory(r.hist, AllocatedMarker(h))
      BY <1>3, <1>4, AllocatedType, SameSteps
    <3>2. /\ AllocatedMarker(h).next_seq = h.next_seq
          /\ AllocatedMarker(h).next_marker_id = h.next_marker_id + 1
      BY <1>4 DEF AllocatedMarker, HistoryState
    <3>3. h.next_marker_id \in Nat
      BY <1>4, HistoryParts
    <3>4. h.next_marker_id <= AllocatedMarker(h).next_marker_id
      BY <3>2, <3>3
    <3> QED BY <2>2, <3>1, <3>2, <3>4
  <2> QED BY <2>1, <2>2
<1>6. e.ins \subseteq chunks
  <2>1. Live(h) = Live(r.hist)
    BY <1>3, <1>4, SameIs
  <2>2. Live(r.hist) \subseteq r.ids
    BY <1>3, StandingParts
  <2> QED BY <1>1, <1>3, <1>4, <2>1, <2>2
<1>7. \A u \in r.open : u # NoTake => r.markers[u] \cap e.madd = {}
  <2> SUFFICES ASSUME NEW u \in r.open, h.next_marker_id \in r.markers[u]
               PROVE  FALSE
    BY <1>1
  <2>1. u = take.id /\ u \in TakeId
    BY <1>3 DEF MemoryIs
  <2>2. Recording
    BY <1>3, <2>1, TypeParts
  <2>3. r.markers[u] = take.marks
    BY <1>3, <2>1, <2>2 DEF MemoryIs, Recording
  <2>4. h.next_marker_id < h.next_marker_id
    BY <1>2, <2>2, <2>3 DEF SessionInv, TakeInv
  <2>5. h.next_marker_id \in Nat
    BY <1>4, HistoryParts
  <2> QED BY <2>4, <2>5
<1>8. GhostOK' /\ ghost'.resurfaced = ghost.resurfaced
  BY <1>1, <1>3 DEF GhostOK
<1>9. NoTake \in TakeId \cup {NoTake} /\ FALSE \in BOOLEAN
  OBVIOUS
<1>10. UNCHANGED <<nextTake, save, chunks, next, bad, wav, file>>
  BY <1>1
<1> HIDE DEF hs
<1>11. CASE CommitRecords(h.next_seq, e, NoTake, FALSE) /\ h' = Commit(hs, e)
  <2>1. pend' \subseteq pend /\ NoTake = NoTake /\ take' = take
    BY <1>1
  <2> QED BY <1>1, <1>2, <1>5, <1>6, <1>7, <1>8, <1>9, <1>10, <1>11, <2>1, CommitKeeps
<1>12. CASE CommitFails(h.next_seq, e, NoTake, FALSE) /\ h' = hs
  <2>1. pend' \in {pend, {}} /\ take' = take
    BY <1>1
  <2> QED BY <1>1, <1>2, <1>5, <1>6, <1>7, <1>8, <1>9, <1>10, <1>12, <2>1, CommitFailsKeeps
<1> QED BY <1>1, <1>11, <1>12

-----------------------------------------------------------------------------
(* The floor of an imported file. *)

Floors(L, recs, w, hs, I) ==
  /\ Follows(L, recs, w) /\ State(L \o recs) = FloorState(hs, I) /\ IdsIn(recs) = I

\* The records of set_floor.
LEMMA FloorFollows ==
  ASSUME NEW L, NEW w, Fine(L, w), Plain(L), NEW hs \in HistoryState, MarkersBelow(hs),
         NEW I \in SUBSET Chunk, Live(hs) \subseteq IdsIn(L) \cup I
  PROVE  LET x == Checkpoint(hs, IdsIn(L) \cup I) IN
         /\ I = {} => Floors(L, <<x>>, w, hs, IdsIn(L))
         /\ Floors(L, <<Chunks(I), x>>, w, hs, IdsIn(L) \cup I)
<1> DEFINE J == IdsIn(L)
           x == Checkpoint(hs, J \cup I)
           y == Chunks(I)
           M == Append(L, y)
<1>1. L \in Seq(Record) /\ L \in JournalRecords /\ J \in SUBSET Chunk
  <2>1. State(L).ids = J /\ State(L).ids \in SUBSET Chunk
    BY FineSound, StandingParts
  <2> QED BY <2>1 DEF Fine, JournalRecords
<1>2. y \in ChunksRecord /\ y \in Record /\ y.type # "checkpoint" /\ y.ids = I
  BY DEF ChunksRecord, Record, Chunks
<1>3. Fine(M, w)
  <2>1. Fits(State(L), Summary(L), y, w)
    BY FineSound, ChunksFit
  <2> HIDE DEF y, M
  <2> QED BY <1>2, <2>1, FineAppend DEF M
<1>4. Plain(M) /\ IdsIn(M) = J \cup I
  <2> HIDE DEF y, M
  <2> QED BY <1>2, PlainAppend DEF M
<1>5. x \in Record /\ J \cup I \in SUBSET Chunk /\ IdsOf(x) = J \cup I
  BY <1>1, RecordsAre DEF IdsOf, Checkpoint
<1> HIDE DEF y, M
<1>6. Fine(Append(M, x), w) /\ State(Append(M, x)) = FloorState(hs, J \cup I)
  <2>1. Sound(Append(M, x), w) /\ State(Append(M, x)) = FloorState(hs, J \cup I)
    BY <1>4, <1>5, SoundFloor
  <2> HIDE DEF x
  <2> QED BY <1>3, <1>5, <2>1, FineLonger
<1>7. Floors(L, <<y, x>>, w, hs, J \cup I)
  <2> HIDE DEF x
  <2>1. Follows(L, <<y, x>>, w)
    BY <1>2, <1>3, <1>5, <1>6, FollowsTwo DEF M
  <2>2. L \o <<y, x>> = Append(M, x)
    BY <1>1, <1>2, <1>5, TwoIs DEF M
  <2>3. IdsIn(<<y, x>>) = IdsOf(y) \cup IdsOf(x)
    BY <1>2, <1>5, PairIs
  <2>4. IdsOf(y) = I
    BY <1>2 DEF IdsOf, ChunksRecord
  <2> QED BY <1>5, <1>6, <2>1, <2>2, <2>3, <2>4 DEF Floors
<1>8. ASSUME I = {}
      PROVE  Floors(L, <<x>>, w, hs, J)
  <2>0. J \cup I = J
    BY <1>8
  <2>1. Sound(Append(L, x), w) /\ State(Append(L, x)) = FloorState(hs, J)
    BY <1>1, <2>0, SoundFloor
  <2> HIDE DEF x
  <2>2. Fine(Append(L, x), w)
    BY <1>5, <2>1, FineLonger
  <2>3. Follows(L, <<x>>, w)
    BY <1>5, <2>2, FollowsOne
  <2>4. L \o <<x>> = Append(L, x) /\ IdsIn(<<x>>) = IdsOf(x)
    BY <1>1, <1>5, OneIs
  <2> QED BY <1>5, <2>0, <2>1, <2>3, <2>4 DEF Floors
<1> QED BY <1>7, <1>8 DEF y

\* Session::set_floor.
LEMMA SetFloorKeeps ==
  ASSUME SessionInv, NEW p \in SUBSET Chunk, NEW M \in CueSets, SetFloor(p, M)
  PROVE  SessionInv'
<1> DEFINE hs   == Rebased(h, p, M)
           new  == p \ journaled
           J    == journaled \cup new
           x    == Checkpoint(hs, J)
           recs == (IF new = {} THEN <<>> ELSE <<Chunks(new)>>) \o <<x>>
           g    == [ghost EXCEPT !.closing = TRUE, !.unmarked = TRUE]
<1>1. /\ Idle /\ ~Recording /\ Len(log) = 1 /\ p \subseteq chunks
      /\ \/ /\ Writes(recs) /\ h' = hs /\ journaled' = J
            /\ phase' = phase /\ ghost' = ghost
         \/ FailsAndEnds(recs, g) /\ h' = h /\ journaled' = journaled
         \/ /\ phase' = "gone" /\ fails' = fails + 1 /\ stray' = <<>>
            /\ UNCHANGED <<h, journaled, log, torn, ghost>>
      /\ durable' = (IF new = {} THEN durable ELSE chunks) /\ file' = Content(hs.current)
      /\ UNCHANGED <<take, pend, nextTake, save, chunks, next, bad, wav, crashes>>
  BY DEF SetFloor
<1>2. Started /\ phase = "running" /\ pend = {} /\ pend' = {}
  BY <1>1 DEF Idle, Started
<1>3. /\ TypeOK /\ GhostOK /\ FreshInv /\ Fine(log, wav) /\ IdsIn(log) = journaled
      /\ MemoryIs(State(log), h, take, journaled, wav) /\ log \in JournalRecords
      /\ journaled \subseteq durable
  BY <1>2, StartedParts DEF Fine
<1>4. h \in HistoryState /\ journaled \subseteq chunks /\ durable \subseteq chunks
      /\ chunks \subseteq Chunk /\ nextTake \in Nat /\ nextTake > 0
  BY <1>3, MaxTakeIsNat DEF TypeOK
<1>5. M \in SUBSET MarkerId
  BY CuesAreMarkers
<1>6. hs \in HistoryState /\ MarkersBelow(hs) /\ Live(hs) = p
  <2>1. Contents(hs) = {[pieces |-> p, markers |-> M]}
    BY <1>4, OtherContents
  <2>2. hs \in HistoryState
    BY <1>4, <1>5, RebasedType
  <2>3. hs.next_marker_id = IdAbove(h.next_marker_id, M)
    BY DEF Rebased
  <2>4. h.next_marker_id \in Nat
    BY <1>4, HistoryParts
  <2>5. \A m \in M : m < hs.next_marker_id
    <3>1. \A m \in M : IdAbove(h.next_marker_id, M) > m
      BY <1>5, <2>4, IdAboveType
    <3>2. IdAbove(h.next_marker_id, M) \in Nat /\ \A m \in M : m \in Nat
      BY <1>5, <2>4, IdAboveType DEF MarkerId
    <3> QED BY <2>3, <3>1, <3>2
  <2> HIDE DEF hs
  <2>6. MarkersBelow(hs)
    BY <2>1, <2>5 DEF MarkersBelow
  <2>7. Live(hs) = UNION {d.pieces : d \in Contents(hs)}
    BY <2>2, LiveIsContents
  <2>8. Live(hs) = p
    BY <2>1, <2>7
  <2> QED BY <2>2, <2>6, <2>8
<1>7. new \in SUBSET Chunk /\ p \subseteq J /\ J \subseteq chunks
  BY <1>1, <1>4
<1> HIDE DEF hs
<1>8. Floors(log, recs, wav, hs, J)
  <2>1. Plain(log)
    BY <1>1, <1>3, ShortIsPlain
  <2>2. Live(hs) \subseteq IdsIn(log) \cup new
    BY <1>3, <1>6
  <2> HIDE DEF new
  <2>3. /\ new = {} => Floors(log, <<Checkpoint(hs, IdsIn(log) \cup new)>>, wav, hs, IdsIn(log))
        /\ Floors(log, <<Chunks(new), Checkpoint(hs, IdsIn(log) \cup new)>>, wav, hs,
                  IdsIn(log) \cup new)
    BY <1>3, <1>6, <1>7, <2>1, <2>2, FloorFollows
  <2>4. /\ new = {} => Floors(log, <<x>>, wav, hs, J)
        /\ Floors(log, <<Chunks(new), x>>, wav, hs, J)
    BY <1>3, <2>3
  <2> DEFINE E == {x, Chunks(new)}
  <2>5. CASE new = {}
    <3>1. <<>> \in Seq(E) /\ x \in E
      OBVIOUS
    <3> HIDE DEF E, x
    <3>2. <<>> \o <<x>> = <<x>>
      <4>1. <<>> \o <<x>> = Append(<<>>, x)
        BY <3>1, OneIs
      <4> QED BY <4>1
    <3> QED BY <2>4, <2>5, <3>2
  <2>6. CASE new # {}
    <3>1. Chunks(new) \in E /\ x \in E
      OBVIOUS
    <3> HIDE DEF E, x
    <3>2. <<Chunks(new)>> \o <<x>> = <<Chunks(new), x>>
      BY <3>1, PairIs
    <3> QED BY <2>4, <2>6, <3>2
  <2> QED BY <2>5, <2>6
<1> HIDE DEF recs, J
<1>9. Follows(log, recs, wav) /\ State(log \o recs) = FloorState(hs, J) /\ IdsIn(recs) = J
  BY <1>8 DEF Floors
<1>10. TakeInv
  BY <1>2 DEF SessionInv
<1>11. "resurfaced" \in DOMAIN g /\ g.resurfaced = ghost.resurfaced
  BY <1>3 DEF GhostOK
<1> HIDE DEF g
<1>12. /\ durable \subseteq durable' /\ IdsIn(recs) \subseteq durable' /\ wav' = wav
       /\ file' \in Document
  <2>1. file' \in Document
    BY <1>1, <1>6, HistoryParts DEF Content, Document, Snapshot
  <2>2. durable \subseteq durable' /\ J \subseteq durable'
    <3>1. CASE new = {}
      BY <1>1, <1>3, <3>1 DEF J
    <3>2. CASE new # {}
      BY <1>1, <1>4, <1>7, <3>2
    <3> QED BY <3>1, <3>2
  <2> QED BY <1>1, <1>9, <2>1, <2>2
<1>13. CASE /\ Writes(recs) /\ h' = hs /\ journaled' = J
            /\ phase' = phase /\ ghost' = ghost
  <2>1. TypeOK'
    <3>1. torn' \in BOOLEAN
      BY <1>3, <1>13, TornIs DEF TypeOK
    <3> QED BY <1>1, <1>3, <1>4, <1>6, <1>7, <1>12, <1>13, <3>1 DEF TypeOK
  <2>2. MemoryIs(State(log \o recs), h', take', journaled', wav')
    <3>1. SameHistory(hs, hs)
      BY <1>6, SameSelf
    <3> QED BY <1>1, <1>9, <1>13, <3>1 DEF MemoryIs, FloorState, Recording
  <2>3. State(log \o recs).max_take < nextTake'
        /\ \A t \in TakeId : t >= nextTake' => wav'[t] = "none"
    BY <1>1, <1>3, <1>4, <1>9 DEF FloorState, FreshInv
  <2>4. TakeInv'
    BY <1>1 DEF TakeInv, Recording
  <2>5. GhostOK' /\ ghost'.resurfaced = ghost.resurfaced
    BY <1>3, <1>13 DEF GhostOK
  <2> QED BY <1>2, <1>9, <1>12, <1>13, <2>1, <2>2, <2>3, <2>4, <2>5, Wrote
<1>14. TakeMarkersAreFree'
  BY <1>1 DEF TakeMarkersAreFree, Recording
<1>15. CASE FailsAndEnds(recs, g) /\ h' = h /\ journaled' = journaled
  <2>1. /\ Follows(log, recs, wav') /\ IdsIn(log) \cup IdsIn(recs) \subseteq durable'
    BY <1>1, <1>3, <1>4, <1>9, <1>12
  <2>2. /\ DiskInv' /\ phase' = "down" /\ stray' = <<>> /\ GhostOK' /\ fails' \in Nat
        /\ ~ghost'.resurfaced => log' = log
        /\ torn' \in BOOLEAN
    BY <1>3, <1>11, <1>15, <2>1, StartedParts, <1>2, AfterFailedEnd DEF TypeOK
  <2>3. TypeOK'
    BY <1>1, <1>3, <1>4, <1>12, <1>15, <2>2 DEF TypeOK
  <2>4. ~ghost'.resurfaced => MemoryIs(State(log'), h', take', journaled', wav')
    BY <1>1, <1>3, <1>15, <2>2
  <2> QED BY <1>2, <1>14, <2>2, <2>3, <2>4, GoesDown
<1>16. CASE /\ phase' = "gone" /\ fails' = fails + 1 /\ stray' = <<>>
            /\ UNCHANGED <<h, journaled, log, torn, ghost>>
  <2>1. TypeOK'
    BY <1>1, <1>3, <1>4, <1>12, <1>16 DEF TypeOK
  <2>2. DiskInv'
    <3>1. IdsIn(log) \subseteq durable' /\ Follows(log, <<>>, wav)
      BY <1>1, <1>3, <1>4, FollowsNone
    <3> QED BY <1>12, <1>16, <3>1, PlainNone DEF DiskInv
  <2>3. GhostOK' /\ fails' \in Nat
    BY <1>2, <1>3, <1>16, StartedParts DEF GhostOK
  <2> QED BY <1>2, <1>14, <1>16, <2>1, <2>2, <2>3 DEF SessionInv, Started
<1> QED BY <1>1, <1>13, <1>15, <1>16

\* All calls about edits and saves.
LEMMA EditNextKeeps ==
  ASSUME SessionInv, EditNext
  PROVE  SessionInv'
<1>1. CASE WriteChunk
  BY <1>1, WriteChunkKeeps
<1>2. ASSUME NEW p \in SUBSET Chunk, NEW M \in CueSets, SetFloor(p, M)
      PROVE  SessionInv'
  BY <1>2, SetFloorKeeps
<1>3. ASSUME NEW e \in Edits, CommitEdit(e)
      PROVE  SessionInv'
  BY <1>3, CommitEditKeeps
<1>4. CASE Undo
  BY <1>4, UndoKeeps
<1>5. CASE Redo
  BY <1>5, RedoKeeps
<1>6. ASSUME NEW n \in 1..MaxSeq, DropOldestUndo(n)
      PROVE  SessionInv'
  BY <1>6, DropKeeps
<1>7. CASE BeginSave
  BY <1>7, BeginSaveKeeps
<1>8. CASE WriteFile
  BY <1>8, WriteFileKeeps
<1>9. CASE MarkSaved
  BY <1>9, MarkSavedKeeps
<1> QED BY <1>1, <1>2, <1>3, <1>4, <1>5, <1>6, <1>7, <1>8, <1>9 DEF EditNext

\* A call that appends one record about a take.
LEMMA TakeStepKeeps ==
  ASSUME SessionInv, phase = "running", phase' = "running",
         NEW x \in Record, x.type # "checkpoint", IdsOf(x) = {},
         Fits(State(log), Summary(log), x, wav),
         Applied(State(log), x).max_take = State(log).max_take,
         Writes(<<x>>), \A t \in TakeId : wav[t] = "none" => wav'[t] = "none",
         MemoryIs(Applied(State(log), x), h', take', journaled, wav'),
         TypeOK', TakeInv', pend' # {} => take' = NoOpen,
         UNCHANGED <<nextTake, journaled, durable>>,
         GhostOK', ghost'.resurfaced = ghost.resurfaced
  PROVE  SessionInv'
<1>0. Started
  BY DEF Started
<1>1. Fine(log, wav) /\ FreshInv /\ TypeOK
  BY <1>0, StartedParts
<1>2. /\ Follows(log, <<x>>, wav) /\ State(log \o <<x>>) = Applied(State(log), x)
      /\ IdsIn(<<x>>) = {}
  BY <1>1, OneFollows
<1> DEFINE recs == <<x>>
<1> HIDE DEF recs
<1>3. Writes(recs)
  BY DEF recs
<1>4. /\ Follows(log, recs, wav) /\ State(log \o recs) = Applied(State(log), x)
      /\ IdsIn(recs) = {}
  BY <1>2 DEF recs
<1>5. Follows(log, recs, wav')
  BY <1>4, FollowsWav
<1>6. /\ MemoryIs(State(log \o recs), h', take', journaled', wav')
      /\ State(log \o recs).max_take < nextTake'
      /\ \A t \in TakeId : t >= nextTake' => wav'[t] = "none"
      /\ durable \subseteq durable' /\ IdsIn(recs) \subseteq durable'
  BY <1>1, <1>4 DEF FreshInv
<1> QED BY <1>0, <1>3, <1>5, <1>6, Wrote

\* Its append fails.
LEMMA TakeStepFails ==
  ASSUME SessionInv, phase = "running", phase' = "running",
         NEW x \in Record, x.type # "checkpoint", IdsOf(x) = {},
         Fits(State(log), Summary(log), x, wav),
         WriteFails(<<x>>),
         MemoryIs(State(log), h', take, journaled, wav),
         h.next_marker_id <= h'.next_marker_id,
         TypeOK', pend' = pend,
         UNCHANGED <<take, wav, nextTake, journaled, durable, chunks>>,
         GhostOK', ghost'.resurfaced = ghost.resurfaced
  PROVE  SessionInv'
<1>0. Started
  BY DEF Started
<1>1. Fine(log, wav)
  BY <1>0, StartedParts
<1>2. /\ Follows(log, <<x>>, wav) /\ IdsIn(<<x>>) = {}
  BY <1>1, OneFollows
<1> DEFINE recs == <<x>>
<1> HIDE DEF recs
<1>3. WriteFails(recs) /\ Follows(log, recs, wav) /\ IdsIn(recs) \subseteq durable'
  BY <1>2 DEF recs
<1>4. durable \subseteq durable' /\ chunks \subseteq chunks' /\ pend' \in {pend, {}}
      /\ UNCHANGED <<take, wav, nextTake, journaled>>
  OBVIOUS
<1> QED BY <1>3, <1>4, Failed

-----------------------------------------------------------------------------
(* The take in memory. *)

\* What the invariant says of a take that is being recorded.
LEMMA RecordingParts ==
  ASSUME SessionInv, phase = "running", Recording
  PROVE  /\ Standing(State(log), Summary(log), wav) /\ State(log) \in ReplayState
         /\ take \in TakeState /\ take.id \in TakeId /\ take.id \in State(log).open
         /\ take.id \in State(log).windowed <=> take.window
         /\ State(log).markers[take.id] = take.marks
         /\ \A u \in State(log).open : u <= take.id
         /\ \A u \in State(log).open :
              u # take.id => wav[u] = "none" /\ State(log).markers[u] = {}
         /\ wav[take.id] # "none" /\ take.ids \subseteq chunks
         /\ \A m \in take.marks : m < h.next_marker_id
         /\ take.marks \in SUBSET MarkerId /\ take.ids \in SUBSET Chunk
         /\ SameHistory(State(log).hist, h) /\ h \in HistoryState
<1> DEFINE r == State(log)
<1>0. Started
  BY DEF Started
<1>1. /\ TypeOK /\ Standing(r, Summary(log), wav) /\ SameHistory(r.hist, h)
      /\ MemoryIs(r, h, take, journaled, wav)
  BY <1>0, StartedParts
<1>2. /\ take \in TakeState /\ take.id \in TakeId /\ take.marks \in SUBSET MarkerId
      /\ take.ids \in SUBSET Chunk
  BY <1>1, TypeParts
<1> HIDE DEF r
<1>3. /\ take.id \in r.open /\ (take.id \in r.windowed <=> take.window)
      /\ r.markers[take.id] = take.marks
      /\ \A u \in r.open : u # take.id => wav[u] = "none" /\ r.markers[u] = {}
  BY <1>1 DEF MemoryIs, Recording
<1>4. /\ wav[take.id] # "none" /\ take.ids \subseteq chunks
      /\ \A m \in take.marks : m < h.next_marker_id
  BY DEF SessionInv, TakeInv
<1>5. TakesStand(r, wav) /\ r \in ReplayState
  BY <1>1, StandingParts
<1>6. \A u \in r.open : u <= take.id
  BY <1>3, <1>4, <1>5 DEF TakesStand
<1>7. h \in HistoryState
  BY <1>1 DEF TypeOK
<1> QED BY <1>1, <1>2, <1>3, <1>4, <1>5, <1>6, <1>7 DEF r

\* Session::note_take_window.
LEMMA NoteTakeWindowKeeps ==
  ASSUME SessionInv, NoteTakeWindow
  PROVE  SessionInv'
<1> DEFINE r == State(log)
           t == take.id
           x == TakeWindow(t)
<1>1. /\ phase = "running" /\ phase' = "running" /\ pend = {} /\ Recording
      /\ \/ Writes(<<x>>) /\ take' = [take EXCEPT !.window = TRUE]
         \/ WriteFails(<<x>>) /\ take' = take
      /\ UNCHANGED <<h, pend, nextTake, journaled, save, chunks, next, durable, bad, wav, file,
                     crashes, ghost>>
  BY DEF NoteTakeWindow, Idle, disk
<1>2. /\ Standing(r, Summary(log), wav) /\ r \in ReplayState
      /\ take \in TakeState /\ t \in TakeId /\ t \in r.open /\ r.markers[t] = take.marks
      /\ \A u \in r.open : u # t => wav[u] = "none" /\ r.markers[u] = {}
      /\ wav[t] # "none" /\ take.ids \subseteq chunks
      /\ \A m \in take.marks : m < h.next_marker_id
      /\ SameHistory(r.hist, h)
  BY <1>1, RecordingParts
<1>3. TypeOK /\ GhostOK /\ MemoryIs(r, h, take, journaled, wav)
  BY <1>1, StartedParts DEF SessionInv, Started
<1> HIDE DEF r
<1>4. Fits(r, Summary(log), x, wav)
  BY <1>2, WindowFits
<1>5. x \in Record /\ x.type # "checkpoint" /\ IdsOf(x) = {}
  BY <1>2, RecordsAre DEF TakeWindow, IdsOf
<1>6. Applied(r, x) =
              [hist |-> r.hist, ids |-> r.ids, open |-> r.open,
               windowed |-> r.windowed \cup ({t} \cap r.open), markers |-> r.markers,
               max_take |-> r.max_take]
  BY <1>2, AppliedTake
<1>7. take' \in TakeState
  BY <1>1, <1>2 DEF TakeState
<1> HIDE DEF x
<1>8. TypeOK'
  <2>1. torn' \in BOOLEAN
    BY <1>1, <1>3, TornIs DEF TypeOK
  <2> QED BY <1>1, <1>3, <1>7, <2>1 DEF TypeOK
<1>9. GhostOK' /\ ghost'.resurfaced = ghost.resurfaced
  BY <1>1, <1>3 DEF GhostOK
<1>10. CASE Writes(<<x>>) /\ take' = [take EXCEPT !.window = TRUE]
  <2>1. /\ take'.id = t /\ take'.window = TRUE /\ take'.marks = take.marks
        /\ take'.ids = take.ids /\ take' # NoOpen
    BY <1>2, <1>7, <1>10 DEF TakeState, Recording, NoOpen, NoTake, TakeId
  <2>2. MemoryIs(Applied(r, x), h', take', journaled, wav')
    <3>1. Applied(r, x).open = r.open /\ Applied(r, x).markers = r.markers
          /\ t \in Applied(r, x).windowed /\ Applied(r, x).hist = r.hist
          /\ Applied(r, x).ids = r.ids
      BY <1>2, <1>6
    <3>2. r.ids = journaled
      BY <1>3 DEF MemoryIs
    <3> QED BY <1>1, <1>2, <2>1, <3>1, <3>2 DEF MemoryIs
  <2>3. TakeInv'
    BY <1>1, <1>2, <2>1 DEF TakeInv, Recording
  <2>4. Applied(r, x).max_take = r.max_take
    BY <1>6
  <2>5. /\ \A u \in TakeId : wav[u] = "none" => wav'[u] = "none"
        /\ pend' # {} => take' = NoOpen
        /\ UNCHANGED <<nextTake, journaled, durable>>
    BY <1>1
  <2> QED BY <1>1, <1>4, <1>5, <1>8, <1>9, <1>10, <2>2, <2>3, <2>4, <2>5, TakeStepKeeps DEF r
<1>11. CASE WriteFails(<<x>>) /\ take' = take
  <2>1. h.next_marker_id <= h'.next_marker_id
    BY <1>1, <1>3, HistoryParts DEF TypeOK
  <2>2. MemoryIs(r, h', take, journaled, wav) /\ pend' = pend
        /\ UNCHANGED <<take, wav, nextTake, journaled, durable, chunks>>
    BY <1>1, <1>3, <1>11
  <2> QED BY <1>1, <1>4, <1>5, <1>8, <1>9, <1>11, <2>1, <2>2, TakeStepFails DEF r
<1> QED BY <1>1, <1>10, <1>11

\* Session::note_take_marker.
LEMMA NoteTakeMarkerKeeps ==
  ASSUME SessionInv, NoteTakeMarker
  PROVE  SessionInv'
<1> DEFINE r == State(log)
           t == take.id
           m == h.next_marker_id
           x == TakeMarker(t, m)
<1>1. /\ phase = "running" /\ phase' = "running" /\ pend = {} /\ Recording
      /\ m \in MarkerId /\ h' = AllocatedMarker(h)
      /\ \/ Writes(<<x>>) /\ take' = [take EXCEPT !.marks = @ \cup {m}]
         \/ WriteFails(<<x>>) /\ take' = take
      /\ UNCHANGED <<pend, nextTake, journaled, save, chunks, next, durable, bad, wav, file,
                     crashes, ghost>>
  BY DEF NoteTakeMarker, Idle, disk
<1>2. /\ Standing(r, Summary(log), wav) /\ r \in ReplayState
      /\ take \in TakeState /\ t \in TakeId /\ t \in r.open /\ r.markers[t] = take.marks
      /\ (t \in r.windowed <=> take.window) /\ \A u \in r.open : u <= t
      /\ \A u \in r.open : u # t => wav[u] = "none" /\ r.markers[u] = {}
      /\ wav[t] # "none" /\ take.ids \subseteq chunks
      /\ \A k \in take.marks : k < m
      /\ take.marks \in SUBSET MarkerId
      /\ SameHistory(r.hist, h) /\ h \in HistoryState
  BY <1>1, RecordingParts
<1>3. TypeOK /\ GhostOK /\ MemoryIs(r, h, take, journaled, wav)
  BY <1>1, StartedParts DEF SessionInv, Started
<1> HIDE DEF r
<1>4. /\ h' \in HistoryState /\ h'.next_marker_id = m + 1 /\ SameHistory(r.hist, h')
      /\ m \in Nat /\ r.hist \in HistoryState
  <2>1. r.hist \in HistoryState
    BY <1>2, StandingParts
  <2>2. SameHistory(r.hist, AllocatedMarker(h))
    BY <1>2, <2>1, SameSteps
  <2> QED BY <1>1, <1>2, <2>1, <2>2, AllocatedType, HistoryParts DEF AllocatedMarker, HistoryState
<1>5. m \notin r.hist.current.markers
  <2> SUFFICES ASSUME m \in r.hist.current.markers PROVE FALSE
    OBVIOUS
  <2>1. MarkersBelow(r.hist)
    BY <1>2, StandingParts
  <2>2. Content(r.hist.current) \in Contents(r.hist)
        /\ Content(r.hist.current).markers = r.hist.current.markers
    BY <1>4, HistoryParts, SnapshotParts DEF Contents
  <2>3. m < r.hist.next_marker_id
    BY <2>1, <2>2 DEF MarkersBelow
  <2>4. r.hist.next_marker_id <= m /\ r.hist.next_marker_id \in Nat
    BY <1>2, <1>4, HistoryParts DEF SameHistory
  <2> QED BY <1>4, <2>3, <2>4
<1> HIDE DEF m
<1>6. Fits(r, Summary(log), x, wav)
  BY <1>1, <1>2, <1>5, MarkerFits
<1>7. x \in Record /\ x.type # "checkpoint" /\ IdsOf(x) = {}
  BY <1>1, <1>2, RecordsAre DEF TakeMarker, IdsOf
<1>8. Applied(r, x) =
              [hist |-> r.hist, ids |-> r.ids, open |-> r.open,
               windowed |-> r.windowed,
               markers |-> [r.markers EXCEPT ![t] = @ \cup {m}],
               max_take |-> r.max_take]
  <2>1. r \in ReplayState /\ r.markers \in [TakeId -> SUBSET MarkerId]
        /\ m \in MarkerId /\ t \in TakeId
    BY <1>1, <1>2, ReplayParts
  <2> HIDE DEF t
  <2> DEFINE K == [r.markers EXCEPT ![t] = @ \cup {m}]
  <2>2. Applied(r, x) = [hist |-> r.hist, ids |-> r.ids, open |-> r.open,
                         windowed |-> r.windowed, markers |-> K, max_take |-> r.max_take]
    BY ONLY <2>1, AppliedTake
  <2> QED BY <2>2
<1>9. take' \in TakeState
  BY <1>1, <1>2 DEF TakeState
<1> HIDE DEF x
<1>10. TypeOK'
  <2>1. torn' \in BOOLEAN
    BY <1>1, <1>3, TornIs DEF TypeOK
  <2> QED BY <1>1, <1>3, <1>4, <1>9, <2>1 DEF TypeOK
<1>11. GhostOK' /\ ghost'.resurfaced = ghost.resurfaced
  BY <1>1, <1>3 DEF GhostOK
<1>12. CASE Writes(<<x>>) /\ take' = [take EXCEPT !.marks = @ \cup {m}]
  <2>1. /\ take'.id = t /\ take'.window = take.window /\ take'.marks = take.marks \cup {m}
        /\ take'.ids = take.ids
    BY <1>2, <1>12 DEF TakeState
  <2>2. MemoryIs(Applied(r, x), h', take', journaled, wav')
    <3>1. /\ Applied(r, x).open = r.open /\ Applied(r, x).windowed = r.windowed
          /\ Applied(r, x).hist = r.hist /\ Applied(r, x).ids = r.ids
          /\ Applied(r, x).markers = [r.markers EXCEPT ![t] = @ \cup {m}]
      BY <1>8
    <3>2. r.ids = journaled
      BY <1>3 DEF MemoryIs
    <3>3. r.markers \in [TakeId -> SUBSET MarkerId]
      BY <1>2, ReplayParts
    <3>4. Applied(r, x).markers[t] = take.marks \cup {m}
      BY <1>2, <3>1, <3>3
    <3>5. \A u \in r.open : u # t => wav[u] = "none" /\ Applied(r, x).markers[u] = {}
      <4>1. r.open \in SUBSET TakeId
        BY <1>2, ReplayParts
      <4> QED BY <1>2, <3>1, <3>3, <4>1
    <3>6. t \in Applied(r, x).windowed <=> take'.window
      BY <1>2, <2>1, <3>1
    <3>7. t \in Applied(r, x).open /\ SameHistory(Applied(r, x).hist, h')
          /\ Applied(r, x).ids = journaled
      BY <1>2, <1>4, <3>1, <3>2
    <3> QED BY <1>1, <2>1, <3>1, <3>4, <3>5, <3>6, <3>7 DEF MemoryIs
  <2>3. TakeInv'
    <3>1. \A k \in take'.marks : k < h'.next_marker_id
      <4>1. \A k \in take.marks : k \in Int
        BY <1>2 DEF MarkerId
      <4> QED BY <1>2, <1>4, <2>1, <4>1
    <3> QED BY <1>1, <1>2, <2>1, <3>1 DEF TakeInv
  <2>4. Applied(r, x).max_take = r.max_take
    BY <1>8
  <2>5. /\ \A u \in TakeId : wav[u] = "none" => wav'[u] = "none"
        /\ pend' # {} => take' = NoOpen
        /\ UNCHANGED <<nextTake, journaled, durable>>
    BY <1>1
  <2> QED BY <1>1, <1>6, <1>7, <1>10, <1>11, <1>12, <2>2, <2>3, <2>4, <2>5, TakeStepKeeps DEF r
<1>13. CASE WriteFails(<<x>>) /\ take' = take
  <2>1. h.next_marker_id <= h'.next_marker_id
    BY <1>4 DEF m
  <2>2. MemoryIs(r, h', take, journaled, wav) /\ pend' = pend
        /\ UNCHANGED <<take, wav, nextTake, journaled, durable, chunks>>
    BY <1>1, <1>3, <1>4, <1>13 DEF MemoryIs
  <2> QED BY <1>1, <1>6, <1>7, <1>10, <1>11, <1>13, <2>1, <2>2, TakeStepFails DEF r
<1> QED BY <1>1, <1>12, <1>13

\* The state after the record that closes take t.
LEMMA ClosedMemory ==
  ASSUME NEW r \in ReplayState, NEW hs, NEW tk, NEW J, NEW w, MemoryIs(r, hs, tk, J, w),
         NEW t \in TakeId, NEW r1, r1.hist = r.hist, r1.ids = r.ids, r1.open = r.open \ {t},
         r1.markers = [r.markers EXCEPT ![t] = {}],
         t = tk.id \/ tk = NoOpen,
         NEW v, \A u \in TakeId : w[u] = "none" => v[u] = "none"
  PROVE  MemoryIs(r1, hs, NoOpen, J, v)
<1>1. r.open \in SUBSET TakeId /\ r.markers \in [TakeId -> SUBSET MarkerId]
  BY ReplayParts
<1>2. \A u \in r.open : u = tk.id \/ (w[u] = "none" /\ r.markers[u] = {})
  BY DEF MemoryIs
<1>3. ASSUME NEW u \in r1.open
      PROVE  v[u] = "none" /\ r1.markers[u] = {}
  <2>1. u \in r.open /\ u # t /\ u \in TakeId
    BY <1>1, <1>3
  <2>2. w[u] = "none" /\ r.markers[u] = {}
    <3>1. CASE t = tk.id
      BY <1>2, <2>1, <3>1
    <3>2. CASE tk = NoOpen
      <4>1. u # tk.id
        BY <2>1, <3>2 DEF NoOpen, NoTake, TakeId
      <4> QED BY <1>2, <2>1, <4>1
    <3> QED BY <3>1, <3>2
  <2>3. v[u] = "none"
    BY <2>1, <2>2
  <2>4. r1.markers[u] = r.markers[u]
    BY <1>1, <2>1
  <2> QED BY <2>2, <2>3, <2>4
<1>4. SameHistory(r1.hist, hs) /\ r1.ids = J
  BY DEF MemoryIs
<1> QED BY <1>3, <1>4 DEF MemoryIs

\* Session::discard_take.
LEMMA DiscardTakeKeeps ==
  ASSUME SessionInv, DiscardTake
  PROVE  SessionInv'
<1> DEFINE r == State(log)
           t == take.id
           x == TakeDiscard(t)
<1>1. /\ phase = "running" /\ phase' = "running" /\ pend = {} /\ Recording
      /\ \/ Writes(<<x>>) /\ take' = NoOpen
         \/ WriteFails(<<x>>) /\ take' = take
      /\ UNCHANGED <<h, pend, nextTake, journaled, save, chunks, next, durable, bad, wav, file,
                     crashes, ghost>>
  BY DEF DiscardTake, Idle, disk
<1>2. Standing(r, Summary(log), wav) /\ r \in ReplayState /\ t \in TakeId
  BY <1>1, RecordingParts
<1>3. TypeOK /\ GhostOK /\ MemoryIs(r, h, take, journaled, wav)
  BY <1>1, StartedParts DEF SessionInv, Started
<1> HIDE DEF r
<1>4. x \in {TakeDiscard(t), TakeCancel(t)}
  OBVIOUS
<1>5. x \in Record /\ x.type # "checkpoint" /\ IdsOf(x) = {}
  BY <1>2, RecordsAre DEF TakeDiscard, IdsOf
<1> HIDE DEF x, t
<1>6. Fits(r, Summary(log), x, wav)
  BY <1>2, <1>4, ClosedFits
<1>7. Applied(r, x) =
              [hist |-> r.hist, ids |-> r.ids, open |-> r.open \ {t},
               windowed |-> r.windowed \ {t},
               markers |-> [r.markers EXCEPT ![t] = {}],
               max_take |-> r.max_take]
  BY <1>2, <1>4, AppliedTake
<1>8. TypeOK'
  <2>1. torn' \in BOOLEAN
    BY <1>1, <1>3, TornIs DEF TypeOK
  <2>2. take' \in TakeState \cup {NoOpen}
    BY <1>1, <1>3 DEF TypeOK
  <2> QED BY <1>1, <1>3, <2>1, <2>2 DEF TypeOK
<1>9. GhostOK' /\ ghost'.resurfaced = ghost.resurfaced
  BY <1>1, <1>3 DEF GhostOK
<1>10. CASE Writes(<<x>>) /\ take' = NoOpen
  <2>1. MemoryIs(Applied(r, x), h', take', journaled, wav')
    <3> DEFINE r1 == Applied(r, x)
    <3>1. /\ r1.hist = r.hist /\ r1.ids = r.ids /\ r1.open = r.open \ {t}
          /\ r1.markers = [r.markers EXCEPT ![t] = {}]
      BY <1>7
    <3>2. t = take.id
      BY DEF t
    <3> HIDE DEF r1
    <3>3. MemoryIs(r1, h, NoOpen, journaled, wav)
      BY <1>2, <1>3, <3>1, <3>2, ClosedMemory
    <3> QED BY <1>1, <1>10, <3>3 DEF r1
  <2>2. TakeInv'
    BY <1>10 DEF TakeInv, Recording
  <2>3. Applied(r, x).max_take = r.max_take
    BY <1>7
  <2>4. /\ \A u \in TakeId : wav[u] = "none" => wav'[u] = "none"
        /\ pend' # {} => take' = NoOpen
        /\ UNCHANGED <<nextTake, journaled, durable>>
    BY <1>1
  <2> QED BY <1>1, <1>5, <1>6, <1>8, <1>9, <1>10, <2>1, <2>2, <2>3, <2>4, TakeStepKeeps DEF r
<1>11. CASE WriteFails(<<x>>) /\ take' = take
  <2>1. h.next_marker_id <= h'.next_marker_id
    BY <1>1, <1>3, HistoryParts DEF TypeOK
  <2>2. MemoryIs(r, h', take, journaled, wav) /\ pend' = pend
        /\ UNCHANGED <<take, wav, nextTake, journaled, durable, chunks>>
    BY <1>1, <1>3, <1>11
  <2> QED BY <1>1, <1>5, <1>6, <1>8, <1>9, <1>11, <2>1, <2>2, TakeStepFails DEF r
<1> QED BY <1>1, <1>10, <1>11 DEF x, t

\* The first step of cancel_take.
LEMMA CancelTakeKeeps ==
  ASSUME SessionInv, CancelTake
  PROVE  SessionInv'
<1> DEFINE r == State(log)
           t == take.id
           x == TakeCancel(t)
<1>1. /\ phase = "running" /\ phase' = "running" /\ pend = {} /\ Recording
      /\ \/ /\ Writes(<<x>>) /\ take' = NoOpen /\ pend' = take.marks
            /\ wav' \in {wav, [wav EXCEPT ![t] = "none"]}
         \/ WriteFails(<<x>>) /\ take' = take /\ pend' = pend /\ wav' = wav
      /\ UNCHANGED <<h, nextTake, journaled, save, chunks, next, durable, bad, file,
                     crashes, ghost>>
  BY DEF CancelTake, Idle, Pending
<1>2. Standing(r, Summary(log), wav) /\ r \in ReplayState /\ t \in TakeId
      /\ take.marks \in SUBSET MarkerId
  BY <1>1, RecordingParts
<1>3. TypeOK /\ GhostOK /\ MemoryIs(r, h, take, journaled, wav)
  BY <1>1, StartedParts DEF SessionInv, Started
<1> HIDE DEF r
<1>4. x \in {TakeDiscard(t), TakeCancel(t)}
  OBVIOUS
<1>5. x \in Record /\ x.type # "checkpoint" /\ IdsOf(x) = {}
  BY <1>2, RecordsAre DEF TakeCancel, IdsOf
<1> HIDE DEF x, t
<1>6. Fits(r, Summary(log), x, wav)
  BY <1>2, <1>4, ClosedFits
<1>7. Applied(r, x) =
              [hist |-> r.hist, ids |-> r.ids, open |-> r.open \ {t},
               windowed |-> r.windowed \ {t},
               markers |-> [r.markers EXCEPT ![t] = {}],
               max_take |-> r.max_take]
  BY <1>2, <1>4, AppliedTake
<1>8. wav' \in [TakeId -> {"none", "empty", "audio"}]
      /\ \A u \in TakeId : wav[u] = "none" => wav'[u] = "none"
  <2>1. wav \in [TakeId -> {"none", "empty", "audio"}]
    BY <1>3 DEF TypeOK
  <2>2. CASE wav' = wav
    BY <2>1, <2>2
  <2>3. CASE wav' = [wav EXCEPT ![t] = "none"]
    BY <2>1, <2>3
  <2> QED BY <1>1, <2>2, <2>3 DEF t
<1>9. TypeOK'
  <2>1. torn' \in BOOLEAN
    BY <1>1, <1>3, TornIs DEF TypeOK, x, t
  <2>2. take' \in TakeState \cup {NoOpen} /\ pend' \in SUBSET MarkerId
    BY <1>1, <1>2, <1>3 DEF TypeOK
  <2> QED BY <1>1, <1>3, <1>8, <2>1, <2>2 DEF TypeOK
<1>10. GhostOK' /\ ghost'.resurfaced = ghost.resurfaced
  BY <1>1, <1>3 DEF GhostOK
<1>11. CASE Writes(<<x>>) /\ take' = NoOpen /\ pend' = take.marks
  <2>1. MemoryIs(Applied(r, x), h', take', journaled, wav')
    <3> DEFINE r1 == Applied(r, x)
    <3>1. /\ r1.hist = r.hist /\ r1.ids = r.ids /\ r1.open = r.open \ {t}
          /\ r1.markers = [r.markers EXCEPT ![t] = {}]
      BY <1>7
    <3>2. t = take.id
      BY DEF t
    <3> HIDE DEF r1
    <3>3. MemoryIs(r1, h, NoOpen, journaled, wav')
      BY <1>2, <1>3, <1>8, <3>1, <3>2, ClosedMemory
    <3> QED BY <1>1, <1>11, <3>3 DEF r1
  <2>2. TakeInv'
    BY <1>11 DEF TakeInv, Recording
  <2>3. Applied(r, x).max_take = r.max_take
    BY <1>7
  <2>4. (pend' # {} => take' = NoOpen) /\ UNCHANGED <<nextTake, journaled, durable>>
    BY <1>1, <1>11
  <2> QED BY <1>1, <1>5, <1>6, <1>8, <1>9, <1>10, <1>11, <2>1, <2>2, <2>3, <2>4,
             TakeStepKeeps DEF r
<1>12. CASE WriteFails(<<x>>) /\ take' = take /\ pend' = pend /\ wav' = wav
  <2>1. h.next_marker_id <= h'.next_marker_id
    BY <1>1, <1>3, HistoryParts DEF TypeOK
  <2>2. MemoryIs(r, h', take, journaled, wav) /\ pend' = pend
        /\ UNCHANGED <<take, wav, nextTake, journaled, durable, chunks>>
    BY <1>1, <1>3, <1>12
  <2> QED BY <1>1, <1>5, <1>6, <1>9, <1>10, <1>12, <2>1, <2>2, TakeStepFails DEF r
<1> QED BY <1>1, <1>11, <1>12 DEF x, t

\* A block of input goes into the WAV and, if it can, into the store.
LEMMA CaptureKeeps ==
  ASSUME SessionInv, Capture
  PROVE  SessionInv'
<1> DEFINE r == State(log)
           t == take.id
<1>1. /\ phase = "running" /\ phase' = "running" /\ Recording
      /\ wav' = [wav EXCEPT ![t] = "audio"]
      /\ \/ /\ next \in Chunk /\ take' = [take EXCEPT !.ids = @ \cup {next}]
            /\ chunks' = chunks \cup {next}
         \/ take' = [take EXCEPT !.short = TRUE] /\ chunks' = chunks
      /\ UNCHANGED <<h, pend, nextTake, journaled, save, durable, bad, file, crashes, ghost>>
      /\ UNCHANGED <<log, stray, torn, fails>>
  BY DEF Capture, journal
<1>2. /\ take \in TakeState /\ t \in TakeId
      /\ wav[t] # "none" /\ take.ids \subseteq chunks
      /\ \A m \in take.marks : m < h.next_marker_id
  BY <1>1, RecordingParts
<1>3. /\ TypeOK /\ fails \in Nat /\ GhostOK /\ ghost.resurfaced = FALSE /\ DiskInv
      /\ FreshInv /\ MemoryIs(r, h, take, journaled, wav) /\ r.open \in SUBSET TakeId
  BY <1>1, StartedParts DEF Started
<1> HIDE DEF r
<1>4. wav \in [TakeId -> {"none", "empty", "audio"}] /\ chunks \subseteq Chunk
      /\ durable \subseteq chunks /\ journaled \subseteq chunks
  BY <1>3 DEF TypeOK
<1>5. /\ wav' \in [TakeId -> {"none", "empty", "audio"}]
      /\ \A u \in TakeId : u # t => wav'[u] = wav[u]
      /\ \A u \in TakeId : wav[u] = "none" => wav'[u] = "none"
      /\ wav'[t] = "audio"
  BY <1>1, <1>2, <1>4
<1>6. /\ take' \in TakeState /\ take'.id = t /\ take'.window = take.window
      /\ take'.marks = take.marks /\ take'.ids \subseteq chunks' /\ chunks' \subseteq Chunk
      /\ chunks \subseteq chunks'
  <2>1. CASE /\ next \in Chunk /\ take' = [take EXCEPT !.ids = @ \cup {next}]
             /\ chunks' = chunks \cup {next}
    <3>1. take.ids \in SUBSET Chunk
      BY <1>2 DEF TakeState
    <3> QED BY <1>2, <1>4, <2>1, <3>1 DEF TakeState
  <2>2. CASE take' = [take EXCEPT !.short = TRUE] /\ chunks' = chunks
    BY <1>2, <1>4, <2>2 DEF TakeState
  <2> QED BY <1>1, <2>1, <2>2
<1>7. TypeOK'
  BY <1>1, <1>3, <1>4, <1>5, <1>6 DEF TypeOK
<1>8. DiskInv'
  <2>1. Follows(log, stray, wav')
    BY <1>3, <1>5, FollowsWav DEF DiskInv
  <2> QED BY <1>1, <1>3, <2>1 DEF DiskInv
<1>9. MemoryIs(State(log'), h', take', journaled', wav')
  <2>1. /\ t \in r.open /\ (t \in r.windowed <=> take.window)
        /\ r.markers[t] = take.marks /\ SameHistory(r.hist, h) /\ r.ids = journaled
        /\ \A u \in r.open : u = t \/ (wav[u] = "none" /\ r.markers[u] = {})
    BY <1>1, <1>3 DEF MemoryIs, Recording
  <2>2. \A u \in r.open : u = t \/ (wav'[u] = "none" /\ r.markers[u] = {})
    BY <1>3, <1>5, <2>1
  <2>3. MemoryIs(r, h', take', journaled', wav')
    BY <1>1, <1>6, <2>1, <2>2 DEF MemoryIs
  <2> QED BY <1>1, <2>3 DEF r
<1>10. FreshInv'
  <2>1. \A u \in TakeId : u >= nextTake => wav[u] = "none"
    BY <1>3 DEF FreshInv
  <2>2. \A u \in TakeId : u >= nextTake => wav'[u] = "none"
    BY <1>5, <2>1
  <2> QED BY <1>1, <1>3, <2>2 DEF FreshInv
<1>11. TakeInv'
  BY <1>1, <1>2, <1>5, <1>6 DEF TakeInv
<1>12. pend' # {} => take' = NoOpen
  BY <1>1 DEF SessionInv
<1>13. GhostOK' /\ ghost'.resurfaced = FALSE /\ fails' \in Nat /\ Started'
  BY <1>1, <1>3 DEF GhostOK, Started
<1>14. (phase' = "running" => TakeInv') /\ (phase' = "choice" => take' # NoOpen)
  BY <1>1, <1>11
<1> QED BY <1>1, <1>7, <1>8, <1>9, <1>10, <1>12, <1>13, <1>14, StaysStarted

\* Session::commit_take.
LEMMA CommitTakeKeeps ==
  ASSUME SessionInv, NEW del, CommitTake(del)
  PROVE  SessionInv'
<1> DEFINE r == State(log)
           t == take.id
           e == TakeEdit(del, take)
<1>1. /\ phase = "running" /\ phase' = "running" /\ pend = {} /\ Recording
      /\ del \subseteq h.current.pieces /\ Prepares(h, e)
      /\ \/ /\ CommitRecords(h.next_seq, e, t, take.short)
            /\ h' = Commit(h, e) /\ take' = NoOpen
            /\ ghost' = [ghost EXCEPT !.tails = IF take.short THEN @ \cup {take.id}
                                                              ELSE @]
         \/ /\ CommitFails(h.next_seq, e, t, take.short)
            /\ h' = h /\ take' = take /\ ghost' = ghost
      /\ UNCHANGED <<pend, nextTake, save, chunks, next, bad, wav, file>>
  BY DEF CommitTake, Idle, CanCommit
<1>2. /\ t \in TakeId /\ take.short \in BOOLEAN /\ SameHistory(r.hist, h) /\ h \in HistoryState
      /\ take.marks \in SUBSET MarkerId /\ take.ids \in SUBSET Chunk /\ take.ids \subseteq chunks
      /\ \A u \in r.open : u # t => r.markers[u] = {}
  BY <1>1, RecordingParts DEF TakeState
<1>3. GhostOK
  BY DEF SessionInv
<1>4. e \in EditOps /\ e.ins \subseteq chunks
  <2>1. h.current.pieces \in SUBSET Chunk
    BY <1>2, HistoryParts, SnapshotParts
  <2>2. del \in SUBSET Chunk
    BY <1>1, <2>1
  <2> QED BY <1>2, <2>2 DEF TakeEdit, EditOps
<1>5. h.next_seq = h.next_seq /\ h.next_marker_id <= h.next_marker_id
  BY <1>2, HistoryParts
<1>6. \A u \in r.open : u # t => r.markers[u] \cap e.madd = {}
  BY <1>2
<1>7. GhostOK' /\ ghost'.resurfaced = ghost.resurfaced
  BY <1>1, <1>3 DEF GhostOK
<1>8. t \in TakeId \cup {NoTake} /\ take.short \in BOOLEAN
  BY <1>2
<1>9. UNCHANGED <<nextTake, save, chunks, next, bad, wav, file>> /\ pend' \subseteq pend
      /\ pend' \in {pend, {}}
  BY <1>1
<1> DEFINE sh == take.short
<1> HIDE DEF e, sh
<1>10. CASE /\ CommitRecords(h.next_seq, e, t, sh)
            /\ h' = Commit(h, e) /\ take' = NoOpen
  <2>1. t = take.id /\ t \in TakeId /\ take' = NoOpen
    BY <1>2, <1>10
  <2>2. sh \in BOOLEAN
    BY <1>8 DEF sh
  <2> QED BY <1>1, <1>2, <1>4, <1>5, <1>6, <1>7, <1>8, <1>9, <1>10, <2>1, <2>2, CommitKeeps
<1>11. CASE /\ CommitFails(h.next_seq, e, t, sh)
            /\ h' = h /\ take' = take
  <2>2. sh \in BOOLEAN
    BY <1>8 DEF sh
  <2> QED BY <1>1, <1>2, <1>4, <1>5, <1>6, <1>7, <1>8, <1>9, <1>11, <2>2, CommitFailsKeeps
<1> QED BY <1>1, <1>10, <1>11 DEF sh

\* The later steps of cancel_take.
LEMMA CommitPendingKeeps ==
  ASSUME SessionInv, CommitPending
  PROVE  SessionInv'
<1> DEFINE r == State(log)
           m == CHOOSE k \in pend : \A j \in pend : k <= j
           e == [del |-> {}, ins |-> {}, mdel |-> {}, madd |-> {m}]
<1>1. /\ phase = "running" /\ phase' = "running" /\ pend # {} /\ Prepares(h, e)
      /\ \/ /\ CommitRecords(h.next_seq, e, NoTake, FALSE)
            /\ h' = Commit(h, e) /\ pend' = pend \ {m}
         \/ /\ CommitFails(h.next_seq, e, NoTake, FALSE)
            /\ h' = h /\ pend' = {}
      /\ UNCHANGED <<take, nextTake, save, chunks, next, bad, wav, file, ghost>>
  BY DEF CommitPending, CanCommit
<1>2. Started /\ ~Recording
  BY <1>1 DEF SessionInv, Started
<1>3. /\ TypeOK /\ GhostOK /\ SameHistory(r.hist, h)
  BY <1>2, StartedParts
<1>4. h \in HistoryState /\ pend \in SUBSET MarkerId
  BY <1>3 DEF TypeOK
<1>5. m \in MarkerId
  <2>1. pend \in SUBSET Nat
    BY <1>4 DEF MarkerId
  <2>2. \E k \in pend : \A j \in pend : k <= j
    BY <1>1, <2>1, Steps!LeastNumber
  <2> QED BY <1>4, <2>2
<1> HIDE DEF m
<1>6. e \in EditOps /\ e.ins \subseteq chunks
  BY <1>5 DEF EditOps
<1>7. \A u \in r.open : u # NoTake => r.markers[u] \cap e.madd = {}
  BY <1>2, NoMarksOpen
<1>8. h.next_seq = h.next_seq /\ h.next_marker_id <= h.next_marker_id
  BY <1>4, HistoryParts
<1>9. GhostOK' /\ ghost'.resurfaced = ghost.resurfaced
  BY <1>1, <1>3 DEF GhostOK
<1>10. NoTake \in TakeId \cup {NoTake} /\ FALSE \in BOOLEAN
  OBVIOUS
<1>11. UNCHANGED <<nextTake, save, chunks, next, bad, wav, file>> /\ take' = take
  BY <1>1
<1> HIDE DEF e
<1>12. CASE /\ CommitRecords(h.next_seq, e, NoTake, FALSE)
            /\ h' = Commit(h, e) /\ pend' = pend \ {m}
  <2>1. NoTake = NoTake /\ take' = take /\ pend' \subseteq pend
    BY <1>1, <1>12
  <2> QED BY <1>1, <1>3, <1>4, <1>6, <1>7, <1>8, <1>9, <1>10, <1>11, <1>12, <2>1, CommitKeeps
<1>13. CASE /\ CommitFails(h.next_seq, e, NoTake, FALSE)
            /\ h' = h /\ pend' = {}
  <2>1. pend' \in {pend, {}}
    BY <1>13
  <2> QED BY <1>1, <1>3, <1>4, <1>6, <1>7, <1>8, <1>9, <1>10, <1>11, <1>13, <2>1,
             CommitFailsKeeps
<1> QED BY <1>1, <1>12, <1>13

-----------------------------------------------------------------------------
(* Beginning a take. *)

BeginsWell(L, w, x, d) ==
  /\ Follows(L, <<x>>, w) /\ Follows(L, <<x, d>>, w) /\ Follows(Append(L, x), <<d>>, w)
  /\ State(L \o <<x>>) = Applied(State(L), x)
  /\ State(Append(L, x)) = Applied(State(L), x)
  /\ State(L \o <<x, d>>) = Applied(Applied(State(L), x), d)
  /\ IdsIn(<<x>>) = {} /\ IdsIn(<<d>>) = {} /\ IdsIn(<<x, d>>) = {}
  /\ IdsIn(Append(L, x)) = IdsIn(L)

\* The records of begin_take: the begin, and the discard of a take without a WAV file.
LEMMA BeginFollows ==
  ASSUME NEW L, NEW w, Fine(L, w), NEW t \in TakeId, NEW al \in BOOLEAN,
         State(L).max_take < t,
         \A u \in State(L).open : w[u] = "none" /\ State(L).markers[u] = {}
  PROVE  BeginsWell(L, w, TakeBegin(t, al), TakeDiscard(t))
<1> DEFINE r == State(L)
           s == Summary(L)
           x == TakeBegin(t, al)
           d == TakeDiscard(t)
<1>1. Standing(r, s, w) /\ L \in Seq(Record)
  BY FineSound DEF Fine, JournalRecords
<1>2. t > r.max_take
  <2>1. r.max_take \in 0..MaxTake
    BY <1>1, StandingParts
  <2>2. r.max_take < t
    OBVIOUS
  <2> HIDE DEF r
  <2>3. r.max_take \in Int /\ t \in Int
    BY <2>1, MaxTakeIsNat DEF TakeId
  <2> QED BY <2>2, <2>3
<1>3. /\ x \in Record /\ x.type # "checkpoint" /\ IdsOf(x) = {}
      /\ d \in Record /\ d.type # "checkpoint" /\ IdsOf(d) = {}
      /\ d \in {TakeDiscard(t), TakeCancel(t)}
  BY RecordsAre DEF TakeBegin, TakeDiscard, IdsOf
<1>4. Fits(r, s, x, w)
  <2> HIDE DEF r, s, x
  <2> QED BY <1>1, <1>2, BeginFits DEF r, x
<1> HIDE DEF x, d
<1>5. Fits(Applied(r, x), Summarized(s, x), d, w)
  <2>1. Standing(Applied(r, x), Summarized(s, x), w)
    BY <1>4, FitsStands
  <2> QED BY <1>3, <2>1, ClosedFits
<1>6. Fine(Append(L, x), w) /\ State(Append(L, x)) = Applied(r, x)
  BY <1>3, <1>4, FineAppend
<1>7. Follows(L, <<x>>, w) /\ State(L \o <<x>>) = Applied(r, x)
  BY <1>3, <1>4, OneFollows
<1>8. /\ Follows(L, <<x, d>>, w) /\ Follows(Append(L, x), <<d>>, w)
      /\ State(L \o <<x, d>>) = Applied(Applied(r, x), d)
  BY <1>3, <1>4, <1>5, TwoFollow
<1>9. IdsIn(<<x>>) = {} /\ IdsIn(<<d>>) = {}
  <2>1. <<x>> \in Seq(Record) /\ DOMAIN <<x>> = {1} /\ <<x>>[1] = x
        /\ DOMAIN <<d>> = {1} /\ <<d>>[1] = d
    BY <1>3
  <2> QED BY <1>3, <2>1 DEF IdsIn
<1>10. IdsIn(<<x, d>>) = {}
  <2>1. DOMAIN <<x, d>> = {1, 2} /\ <<x, d>>[1] = x /\ <<x, d>>[2] = d
    OBVIOUS
  <2> QED BY <1>3, <2>1 DEF IdsIn
<1>11. IdsIn(Append(L, x)) = IdsIn(L)
  <2>1. IdsIn(Append(L, x)) = IdsIn(L) \cup IdsOf(x)
    <3>1. L \in Seq(Record) /\ x \in Record
      BY <1>1, <1>3
    <3> QED BY ONLY <3>1, InOfAppend
  <2> QED BY <1>3, <2>1
<1> QED BY <1>6, <1>7, <1>8, <1>9, <1>10, <1>11 DEF BeginsWell, x, d

\* The states after take_begin and after the record that takes it back.
LEMMA BegunState ==
  ASSUME NEW r \in ReplayState, NEW t \in TakeId, NEW al \in BOOLEAN, r.max_take < t,
         \A u \in r.open : u <= r.max_take, \A u \in TakeId : u \notin r.open => r.markers[u] = {}
  PROVE  LET r1 == Applied(r, TakeBegin(t, al))
             r2 == Applied(r1, TakeDiscard(t))
         IN  /\ r1.hist = r.hist /\ r1.ids = r.ids /\ r1.open = r.open \cup {t}
             /\ r1.markers = r.markers /\ r1.max_take = t /\ r1.markers[t] = {}
             /\ t \in r1.windowed <=> ~al
             /\ r2.hist = r.hist /\ r2.ids = r.ids /\ r2.open = r.open
             /\ r2.max_take = t /\ \A u \in r.open : r2.markers[u] = r.markers[u]
             /\ t \notin r.open
<1> DEFINE r1 == Applied(r, TakeBegin(t, al))
           r2 == Applied(r1, TakeDiscard(t))
           W  == IF al THEN r.windowed \ {t} ELSE r.windowed \cup {t}
<1>1. /\ r.open \in SUBSET TakeId /\ r.windowed \in SUBSET TakeId
      /\ r.markers \in [TakeId -> SUBSET MarkerId]
      /\ r.max_take \in Int /\ t \in Int /\ \A u \in r.open : u \in Int
      /\ t \in 0..MaxTake /\ r.hist \in HistoryState /\ r.ids \in SUBSET Chunk
  BY ReplayParts, MaxTakeIsNat DEF TakeId
<1>2. t \notin r.open
  BY <1>1
<1>3. r1 = [hist |-> r.hist, ids |-> r.ids, open |-> r.open \cup {t},
            windowed |-> W, markers |-> r.markers,
            max_take |-> IF t > r.max_take THEN t ELSE r.max_take]
  BY AppliedTake
<1>4. (IF t > r.max_take THEN t ELSE r.max_take) = t
  BY <1>1
<1>5. t \in W <=> ~al
  OBVIOUS
<1> HIDE DEF W, r1
<1>6. /\ r1.hist = r.hist /\ r1.ids = r.ids /\ r1.open = r.open \cup {t}
      /\ r1.windowed = W /\ r1.markers = r.markers /\ r1.max_take = t
  BY <1>3, <1>4
<1>7. r1 \in ReplayState
  <2>1. W \in SUBSET TakeId
    BY <1>1 DEF W
  <2> QED BY <1>1, <1>3, <1>4, <2>1 DEF ReplayState
<1>8. r2 = [hist |-> r1.hist, ids |-> r1.ids, open |-> r1.open \ {t},
            windowed |-> r1.windowed \ {t},
            markers |-> [r1.markers EXCEPT ![t] = {}],
            max_take |-> r1.max_take]
  <2>1. TakeDiscard(t) \in {TakeDiscard(t), TakeCancel(t)}
    OBVIOUS
  <2> DEFINE d == TakeDiscard(t)
  <2> HIDE DEF d
  <2>2. d \in {TakeDiscard(t), TakeCancel(t)}
    BY <2>1 DEF d
  <2>3. Applied(r1, d) = [hist |-> r1.hist, ids |-> r1.ids, open |-> r1.open \ {t},
            windowed |-> r1.windowed \ {t},
            markers |-> [r1.markers EXCEPT ![t] = {}],
            max_take |-> r1.max_take]
    BY <1>7, <2>2, AppliedTake
  <2> QED BY <2>3 DEF d
<1> HIDE DEF r2
<1>9. /\ r2.hist = r.hist /\ r2.ids = r.ids /\ r2.max_take = t
      /\ r2.open = (r.open \cup {t}) \ {t} /\ r2.markers = [r.markers EXCEPT ![t] = {}]
  BY <1>6, <1>8
<1>10. r2.open = r.open
  BY <1>2, <1>9
<1>11. \A u \in r.open : r2.markers[u] = r.markers[u]
  BY <1>1, <1>2, <1>9
<1>12. r1.markers[t] = {}
  BY <1>2, <1>6
<1> QED BY <1>2, <1>5, <1>6, <1>9, <1>10, <1>11, <1>12 DEF r1, r2

\* Session::begin_take.
LEMMA BeginTakeKeeps ==
  ASSUME SessionInv, NEW al \in BOOLEAN, BeginTake(al)
  PROVE  SessionInv'
<1> DEFINE r  == State(log)
           t  == nextTake
           x  == TakeBegin(t, al)
           d  == TakeDiscard(t)
           r1 == Applied(r, x)
           r2 == Applied(r1, d)
           w0 == [wav EXCEPT ![t] = "empty"]
<1>1. /\ phase = "running" /\ phase' = "running" /\ pend = {} /\ pend' = {} /\ ~Recording
      /\ t \in TakeId
      /\ UNCHANGED <<h, journaled, save, chunks, next, durable, bad, file, crashes, ghost>>
  BY DEF BeginTake, Idle
<1>2. \/ Writes(<<x>>) /\ take' = NewTake(t, al) /\ wav' = w0 /\ nextTake' = t + 1
      \/ Writes(<<x, d>>) /\ nextTake' = t + 1 /\ take' = take /\ wav' = wav
      \/ /\ log' = Append(log, x) /\ stray' \in {<<>>, <<d>>}
         /\ torn' \in {FALSE, torn \/ stray # <<>>}
         /\ fails' = fails + 1 /\ nextTake' = t + 1 /\ take' = take /\ wav' = wav
      \/ WriteFails(<<x>>) /\ take' = take /\ wav' = wav /\ nextTake' = t
  BY DEF BeginTake
<1>3. Started /\ take = NoOpen
  BY <1>1 DEF Started, Recording
<1>4. /\ TypeOK /\ fails \in Nat /\ GhostOK /\ ghost.resurfaced = FALSE
      /\ Fine(log, wav) /\ FreshInv /\ IdsIn(log) \subseteq durable
      /\ Standing(r, Summary(log), wav) /\ MemoryIs(r, h, take, journaled, wav)
  BY <1>3, StartedParts
<1>5. /\ r \in ReplayState /\ r.open \in SUBSET TakeId /\ r.max_take \in 0..MaxTake
      /\ \A u \in r.open : u <= r.max_take
      /\ \A u \in TakeId : u \notin r.open => r.markers[u] = {}
  BY <1>4, StandingParts
<1>6. /\ \A u \in r.open : wav[u] = "none" /\ r.markers[u] = {}
  BY <1>1, <1>3, NoMarksOpen
<1>7. r.max_take < t /\ \A u \in TakeId : u >= t => wav[u] = "none"
  BY <1>4 DEF FreshInv
<1>8. /\ wav \in [TakeId -> {"none", "empty", "audio"}] /\ h \in HistoryState
      /\ t \in Int /\ MaxTake \in Nat /\ t >= 1 /\ t <= MaxTake
      /\ \A u \in TakeId : u \in Int
  BY <1>1, <1>4, MaxTakeIsNat DEF TypeOK, TakeId
<1>9. BeginsWell(log, wav, x, d)
  BY <1>1, <1>4, <1>6, <1>7, BeginFollows
<1>10. /\ r1.hist = r.hist /\ r1.ids = r.ids /\ r1.open = r.open \cup {t}
       /\ r1.markers = r.markers /\ r1.max_take = t /\ r1.markers[t] = {}
       /\ (t \in r1.windowed <=> ~al)
       /\ r2.hist = r.hist /\ r2.ids = r.ids /\ r2.open = r.open
       /\ r2.max_take = t /\ \A u \in r.open : r2.markers[u] = r.markers[u]
       /\ t \notin r.open
  <2> HIDE DEF r
  <2> QED BY <1>1, <1>5, <1>7, BegunState
<1>11. SameHistory(r.hist, h) /\ r.ids = journaled
  BY <1>4 DEF MemoryIs
<1>12. GhostOK' /\ ghost'.resurfaced = ghost.resurfaced /\ h.next_marker_id <= h'.next_marker_id
  BY <1>1, <1>4, <1>8, HistoryParts DEF GhostOK
<1>13. t + 1 \in 1..(MaxTake + 1)
  BY <1>8
<1> HIDE DEF r1, r2, x, d, w0
<1>20. CASE Writes(<<x>>) /\ take' = NewTake(t, al) /\ wav' = w0 /\ nextTake' = t + 1
  <2>1. /\ w0 \in [TakeId -> {"none", "empty", "audio"}] /\ w0[t] = "empty"
        /\ \A u \in TakeId : u # t => w0[u] = wav[u]
    BY <1>1, <1>8 DEF w0
  <2>2. Fine(log, w0)
    <3>1. \A u \in BegunIn(log) : u <= r.max_take
      BY <1>4, FineSound DEF Sound, r
    <3>2. BegunIn(log) \subseteq TakeId
      <4>1. \A i \in DOMAIN log : log[i] \in Record
        BY <1>4, LenProperties, ElementOfSeq DEF Fine, JournalRecords
      <4>2. \A y \in Record : BegunBy(y) \subseteq TakeId
        BY DEF Record, CheckpointRecord, ChunksRecord, EditRecord, SeqRecord, CountRecord,
               BeginRecord, TakeRecord, MarkerRecord, Close, BegunBy
      <4> QED BY <4>1, <4>2 DEF BegunIn
    <3>3. \A u \in BegunIn(log) : u # t
      <4>1. r.max_take \in Int
        BY <1>5, <1>8
      <4> QED BY <1>7, <1>8, <3>1, <3>2, <4>1
    <3>4. \A u \in BegunIn(log) : wav[u] = "none" => w0[u] = "none"
      BY <2>1, <3>2, <3>3
    <3> QED BY <1>4, <3>4, FineWav
  <2>3. \A u \in r.open : w0[u] = "none" /\ r.markers[u] = {}
    BY <1>5, <1>6, <1>10, <2>1
  <2>4. BeginsWell(log, w0, x, d)
    BY <1>1, <1>7, <2>2, <2>3, BeginFollows DEF x, d, r
  <2> DEFINE recs == <<x>>
  <2> HIDE DEF recs, r
  <2>5. /\ Writes(recs) /\ Follows(log, recs, wav') /\ State(log \o recs) = r1
        /\ IdsIn(recs) = {}
    BY <1>20, <2>4 DEF BeginsWell, recs, r1, r
  <2>6. /\ take'.id = t /\ take'.window = ~al /\ take'.marks = {} /\ take'.ids = {}
        /\ take' \in TakeState
    BY <1>1, <1>20 DEF NewTake, TakeState
  <2>7. TypeOK'
    <3>1. torn' \in BOOLEAN
      BY <1>4, <2>5, TornIs DEF TypeOK
    <3> QED BY <1>1, <1>4, <1>8, <1>13, <1>20, <2>1, <2>6, <3>1 DEF TypeOK
  <2>8. MemoryIs(State(log \o recs), h', take', journaled', wav')
    <3>1. \A u \in r1.open : u = t \/ (w0[u] = "none" /\ r1.markers[u] = {})
      BY <1>10, <2>3
    <3>2. t \in r1.open /\ (t \in r1.windowed <=> take'.window) /\ r1.markers[t] = take'.marks
      BY <1>10, <2>6
    <3>3. MemoryIs(r1, h, take', journaled, w0)
      BY <1>10, <1>11, <2>6, <3>1, <3>2 DEF MemoryIs
    <3> QED BY <1>1, <1>20, <2>5, <3>3
  <2>9. State(log \o recs).max_take < nextTake'
        /\ \A u \in TakeId : u >= nextTake' => wav'[u] = "none"
    <3>1. \A u \in TakeId : u >= t + 1 => u # t /\ u >= t
      BY <1>8
    <3> QED BY <1>7, <1>8, <1>10, <1>20, <2>1, <2>5, <3>1
  <2>10. TakeInv'
    BY <1>20, <2>1, <2>6 DEF TakeInv
  <2>11. durable \subseteq durable' /\ IdsIn(recs) \subseteq durable'
         /\ (pend' # {} => take' = NoOpen)
    BY <1>1, <2>5
  <2> QED BY <1>1, <1>3, <1>12, <2>5, <2>7, <2>8, <2>9, <2>10, <2>11, Wrote
<1>21. CASE Writes(<<x, d>>) /\ nextTake' = t + 1 /\ take' = take /\ wav' = wav
  <2> DEFINE recs == <<x, d>>
  <2> HIDE DEF recs
  <2>5. /\ Writes(recs) /\ Follows(log, recs, wav') /\ State(log \o recs) = r2
        /\ IdsIn(recs) = {}
    BY <1>9, <1>21 DEF BeginsWell, recs, r1, r2
  <2>7. TypeOK'
    <3>1. torn' \in BOOLEAN
      BY <1>4, <2>5, TornIs DEF TypeOK
    <3> QED BY <1>1, <1>4, <1>13, <1>21, <3>1 DEF TypeOK
  <2>8. MemoryIs(State(log \o recs), h', take', journaled', wav')
    <3>1. \A u \in r2.open : wav[u] = "none" /\ r2.markers[u] = {}
      BY <1>6, <1>10
    <3>3. MemoryIs(r2, h, NoOpen, journaled, wav)
      BY <1>10, <1>11, <3>1 DEF MemoryIs
    <3> QED BY <1>1, <1>3, <1>21, <2>5, <3>3
  <2>9. State(log \o recs).max_take < nextTake'
        /\ \A u \in TakeId : u >= nextTake' => wav'[u] = "none"
    BY <1>7, <1>8, <1>10, <1>21, <2>5
  <2>10. TakeInv'
    BY <1>3, <1>21 DEF TakeInv, Recording
  <2>11. durable \subseteq durable' /\ IdsIn(recs) \subseteq durable'
         /\ (pend' # {} => take' = NoOpen)
    BY <1>1, <2>5
  <2> QED BY <1>1, <1>3, <1>12, <2>5, <2>7, <2>8, <2>9, <2>10, <2>11, Wrote
<1>22. CASE /\ log' = Append(log, x) /\ stray' \in {<<>>, <<d>>}
            /\ torn' \in {FALSE, torn \/ stray # <<>>}
            /\ fails' = fails + 1 /\ nextTake' = t + 1 /\ take' = take /\ wav' = wav
  <2>1. /\ Follows(Append(log, x), <<d>>, wav) /\ State(Append(log, x)) = r1
        /\ IdsIn(<<d>>) = {} /\ IdsIn(Append(log, x)) = IdsIn(log)
    BY <1>9 DEF BeginsWell, r1
  <2>2. DiskInv'
    <3>1. Follows(log', stray', wav')
      <4>1. Follows(Append(log, x), <<>>, wav)
        BY <2>1, FollowsParts, FollowsNone
      <4> QED BY <1>22, <2>1, <4>1
    <3>2. IdsIn(log') \cup IdsIn(stray') \subseteq durable'
      BY <1>1, <1>4, <1>22, <2>1, PlainNone
    <3> QED BY <3>1, <3>2 DEF DiskInv
  <2>3. TypeOK'
    BY <1>1, <1>4, <1>13, <1>22 DEF TypeOK
  <2>4. MemoryIs(State(log'), h', take', journaled', wav')
    <3>1. \A u \in r1.open : wav[u] = "none" /\ r1.markers[u] = {}
      <4>1. wav[t] = "none"
        BY <1>1, <1>7, <1>8
      <4> QED BY <1>6, <1>10, <4>1
    <3>3. MemoryIs(r1, h, NoOpen, journaled, wav)
      BY <1>10, <1>11, <3>1 DEF MemoryIs
    <3> QED BY <1>1, <1>3, <1>22, <2>1, <3>3
  <2>5. FreshInv'
    <3>1. State(log').max_take < nextTake'
      BY <1>8, <1>10, <1>22, <2>1
    <3>2. \A u \in TakeId : u >= nextTake' => wav'[u] = "none"
      BY <1>7, <1>8, <1>22
    <3> QED BY <3>1, <3>2 DEF FreshInv
  <2>6. TakeInv'
    BY <1>3, <1>22 DEF TakeInv, Recording
  <2>7. fails' \in Nat /\ Started' /\ ghost'.resurfaced = FALSE
        /\ (phase' = "choice" => take' # NoOpen) /\ (pend' # {} => phase' = "running" /\ take' = NoOpen)
    BY <1>1, <1>4, <1>12, <1>22 DEF Started
  <2> QED BY <1>12, <2>2, <2>3, <2>4, <2>5, <2>6, <2>7, StaysStarted
<1>23. CASE WriteFails(<<x>>) /\ take' = take /\ wav' = wav /\ nextTake' = t
  <2> DEFINE recs == <<x>>
  <2> HIDE DEF recs
  <2>5. /\ WriteFails(recs) /\ Follows(log, recs, wav) /\ IdsIn(recs) = {}
    BY <1>9, <1>23 DEF BeginsWell, recs
  <2>7. TypeOK'
    <3>1. torn' \in BOOLEAN
      BY <1>4, <2>5, TornIs DEF TypeOK
    <3> QED BY <1>1, <1>4, <1>23, <3>1 DEF TypeOK
  <2>8. /\ MemoryIs(State(log), h', take, journaled, wav)
        /\ durable \subseteq durable' /\ IdsIn(recs) \subseteq durable' /\ chunks \subseteq chunks'
        /\ pend' \in {pend, {}} /\ UNCHANGED <<take, wav, nextTake, journaled>>
    BY <1>1, <1>4, <1>23, <2>5
  <2> QED BY <1>1, <1>12, <2>5, <2>7, <2>8, Failed
<1> QED BY <1>2, <1>20, <1>21, <1>22, <1>23

\* All calls about takes.
LEMMA TakeNextKeeps ==
  ASSUME SessionInv, TakeNext
  PROVE  SessionInv'
<1>1. ASSUME NEW aligned \in BOOLEAN, BeginTake(aligned)
      PROVE  SessionInv'
  BY <1>1, BeginTakeKeeps
<1>2. CASE NoteTakeWindow
  BY <1>2, NoteTakeWindowKeeps
<1>3. CASE NoteTakeMarker
  BY <1>3, NoteTakeMarkerKeeps
<1>4. CASE Capture
  BY <1>4, CaptureKeeps
<1>5. ASSUME NEW del \in SUBSET Chunk, CommitTake(del)
      PROVE  SessionInv'
  BY <1>5, CommitTakeKeeps
<1>6. CASE DiscardTake
  BY <1>6, DiscardTakeKeeps
<1>7. CASE CancelTake
  BY <1>7, CancelTakeKeeps
<1>8. CASE CommitPending
  BY <1>8, CommitPendingKeeps
<1> QED BY <1>1, <1>2, <1>3, <1>4, <1>5, <1>6, <1>7, <1>8 DEF TakeNext

\* A new generation starts with a checkpoint of memory and its live chunks.
LEMMA CompactKeeps ==
  ASSUME SessionInv, Compact
  PROVE  SessionInv'
<1> DEFINE I == Live(h)
           L == <<Checkpoint(h, I)>>
<1>1. /\ phase = "running" /\ phase' = "running" /\ pend = {} /\ pend' = {} /\ ~Recording
      /\ log' = L /\ stray' = <<>> /\ torn' = FALSE
      /\ chunks' = I /\ durable' = I /\ journaled' = I
      /\ ghost' = [ghost EXCEPT !.compacted = TRUE]
      /\ UNCHANGED <<h, take, nextTake, save, bad, wav, file, fails>>
  BY DEF Compact, Idle
<1>2. Started
  BY <1>1 DEF Started
<1>3. /\ TypeOK /\ fails \in Nat /\ GhostOK /\ ghost.resurfaced = FALSE /\ FreshInv
      /\ Standing(State(log), Summary(log), wav) /\ SameHistory(State(log).hist, h)
      /\ State(log).hist \in HistoryState
  BY <1>2, StartedParts
<1>4. h \in HistoryState /\ nextTake > 0 /\ nextTake \in Nat
  BY <1>3, MaxTakeIsNat DEF TypeOK
<1>5. MarkersBelow(h) /\ I \in SUBSET Chunk
  <2>1. MarkersBelow(State(log).hist) /\ Live(State(log).hist) \subseteq State(log).ids
        /\ State(log).ids \in SUBSET Chunk
    BY <1>3, StandingParts, ReplayParts
  <2>2. Live(State(log).hist) = I /\ MarkersBelow(h)
    BY <1>3, <1>4, <2>1, SameIs
  <2> QED BY <2>1, <2>2
<1> HIDE DEF I
<1>6. Fine(L, wav) /\ State(L) = FloorState(h, I) /\ IdsIn(L) = I
  <2>1. Live(h) \subseteq I
    BY DEF I
  <2> QED BY <1>4, <1>5, <2>1, FineFloor
<1> HIDE DEF L
<1>7. TypeOK'
  BY <1>1, <1>3, <1>5 DEF TypeOK
<1>8. DiskInv'
  <2>1. Follows(L, <<>>, wav)
    BY <1>6, FollowsNone
  <2> QED BY <1>1, <1>6, <2>1, PlainNone DEF DiskInv
<1>9. MemoryIs(State(log'), h', take', journaled', wav')
  <2>1. SameHistory(h, h)
    BY <1>4, SameSelf
  <2> QED BY <1>1, <1>6, <2>1 DEF MemoryIs, FloorState, Recording
<1>10. FreshInv'
  BY <1>1, <1>3, <1>4, <1>6 DEF FreshInv, FloorState
<1>11. TakeInv'
  BY <1>1 DEF TakeInv, Recording
<1>12. GhostOK' /\ ghost'.resurfaced = FALSE
  BY <1>1, <1>3 DEF GhostOK
<1>13. Started' /\ (phase' = "choice" => take' # NoOpen) /\ fails' \in Nat
       /\ (pend' # {} => phase' = "running" /\ take' = NoOpen)
  BY <1>1, <1>3 DEF Started
<1> QED BY <1>7, <1>8, <1>9, <1>10, <1>11, <1>12, <1>13, StaysStarted

\* Session::close, also when its record cannot be written.
LEMMA CloseSessionKeeps ==
  ASSUME SessionInv, CloseSession
  PROVE  SessionInv'
<1> DEFINE r == State(log)
<1>1. /\ phase = "running" /\ phase' = "down" /\ pend = {} /\ pend' = {} /\ ~Recording
      /\ \/ Writes(<<Close>>)
         \/ /\ fails' = fails + 1 /\ log' \in {log, Append(log, Close)}
            /\ stray' = <<>> /\ torn' \in BOOLEAN
      /\ ghost' = [ghost EXCEPT !.closing = TRUE]
      /\ UNCHANGED <<h, take, nextTake, journaled, save, chunks, durable, bad, wav, file>>
  BY DEF CloseSession, Idle, memory, disk
<1>2. Started
  BY <1>1 DEF Started
<1>3. /\ TypeOK /\ fails \in Nat /\ GhostOK /\ ghost.resurfaced = FALSE /\ Fine(log, wav)
      /\ Standing(r, Summary(log), wav) /\ MemoryIs(r, h, take, journaled, wav)
      /\ IdsIn(log) \subseteq durable
  BY <1>2, StartedParts
<1> HIDE DEF r
<1> DEFINE x == Close
           recs == <<x>>
<1>4. x \in Record /\ x.type # "checkpoint" /\ IdsOf(x) = {} /\ Fits(r, Summary(log), x, wav)
  BY <1>3, CloseFits, RecordsAre DEF Close, IdsOf
<1>5. Applied(r, x) = r
  <2>1. r \in ReplayState
    BY <1>3, StandingParts
  <2> QED BY <2>1, AppliedTake
<1> HIDE DEF x
<1>6. /\ Follows(log, recs, wav) /\ State(log \o recs) = r /\ IdsIn(recs) = {}
      /\ log \o recs = Append(log, x)
  BY <1>3, <1>4, <1>5, OneFollows DEF r
<1> HIDE DEF recs
<1>7. DiskInv' /\ stray' = <<>> /\ torn' \in BOOLEAN /\ fails' \in Nat /\ State(log') = r
  <2>1. CASE Writes(recs)
    <3>1. IdsIn(log) \cup IdsIn(recs) \subseteq durable' /\ Follows(log, recs, wav')
      BY <1>1, <1>3, <1>6
    <3>2. DiskInv' /\ log' = log \o recs /\ stray' = <<>> /\ fails' = fails
      BY <2>1, <3>1, AfterWrites
    <3>3. torn' \in BOOLEAN
      BY <1>3, <2>1, TornIs DEF TypeOK
    <3> QED BY <1>3, <1>6, <3>2, <3>3
  <2>2. CASE /\ fails' = fails + 1 /\ log' \in {log, Append(log, x)}
             /\ stray' = <<>> /\ torn' \in BOOLEAN
    <3>1. log' = log \/ log' = log \o recs
      BY <1>6, <2>2
    <3>2. /\ Follows(log, <<>>, wav) /\ Follows(log \o recs, <<>>, wav)
          /\ IdsIn(log \o recs) \subseteq IdsIn(log) \cup IdsIn(recs)
      BY <1>3, <1>6, FollowsNone, FollowsAll
    <3>3. Follows(log', <<>>, wav) /\ IdsIn(log') \subseteq durable
      BY <1>3, <1>6, <3>1, <3>2
    <3>4. DiskInv'
      BY <1>1, <2>2, <3>3, PlainNone DEF DiskInv
    <3>5. State(log') = r
      BY <1>6, <3>1 DEF r
    <3> QED BY <1>3, <2>2, <3>4, <3>5
  <2> QED BY <1>1, <2>1, <2>2 DEF x, recs
<1>8. TypeOK'
  BY <1>1, <1>3, <1>7 DEF TypeOK
<1>9. GhostOK'
  BY <1>1, <1>3 DEF GhostOK
<1>10. MemoryIs(State(log'), h', take', journaled', wav')
  BY <1>1, <1>3, <1>7
<1>11. TakeMarkersAreFree'
  BY <1>1 DEF TakeMarkersAreFree, Recording
<1> QED BY <1>1, <1>7, <1>8, <1>9, <1>10, <1>11, GoesDown

\* A crash at any moment.
LEMMA CrashKeeps ==
  ASSUME SessionInv, Crash
  PROVE  SessionInv'
<1>1. /\ Started /\ Ends /\ pend' = {} /\ save' = NoSave
      /\ UNCHANGED <<h, take, nextTake, journaled, chunks, next, durable, wav, file, fails>>
  BY DEF Crash, Started
<1>2. PICK D \in SUBSET journaled : bad' = bad \cup D
  BY DEF Crash
<1>3. /\ TypeOK /\ fails \in Nat /\ GhostOK /\ DiskInv
      /\ MemoryIs(State(log), h, take, journaled, wav)
  BY <1>1, StartedParts
<1>4. /\ DiskInv' /\ phase' = "down" /\ stray' = <<>> /\ GhostOK'
      /\ ~ghost'.resurfaced => log' = log
      /\ torn' \in BOOLEAN
  BY <1>1, <1>3, AfterEnd DEF TypeOK
<1>5. TypeOK'
  <2>1. bad' \subseteq Chunk
    BY <1>2, <1>3 DEF TypeOK
  <2> QED BY <1>1, <1>3, <1>4, <2>1 DEF TypeOK
<1>6. TakeMarkersAreFree'
  BY <1>1 DEF SessionInv, TakeMarkersAreFree, Recording
<1>7. ~ghost'.resurfaced => MemoryIs(State(log'), h', take', journaled', wav')
  BY <1>1, <1>3, <1>4
<1>8. fails' \in Nat
  BY <1>1, <1>3
<1> QED BY <1>1, <1>4, <1>5, <1>6, <1>7, <1>8, GoesDown

\* The deletion of a clean session.
LEMMA CollectGarbageKeeps ==
  ASSUME SessionInv, CollectGarbage
  PROVE  SessionInv'
<1>1. /\ phase = "down" /\ phase' = "gone"
      /\ UNCHANGED <<h, take, pend, nextTake, journaled, save>>
      /\ UNCHANGED <<log, stray, torn, fails>>
      /\ UNCHANGED <<chunks, next, durable, bad, wav, file>> /\ UNCHANGED ghost
  BY DEF CollectGarbage, memory, journal, disk
<1>2. TypeOK'
  BY <1>1 DEF SessionInv, TypeOK
<1>3. GhostOK' /\ fails' \in Nat
  BY <1>1 DEF SessionInv, GhostOK
<1>4. DiskInv'
  BY <1>1 DEF SessionInv, DiskInv
<1>5. TakeMarkersAreFree'
  BY <1>1 DEF SessionInv, TakeMarkersAreFree, Recording
<1>6. pend' = {} /\ stray' = <<>>
  BY <1>1 DEF SessionInv, Started
<1> QED BY <1>1, <1>2, <1>3, <1>4, <1>5, <1>6 DEF SessionInv, Started

\* "Discard", or a take without audio that is applied.
LEMMA RecoverDiscards ==
  ASSUME SessionInv, phase = "choice",
         \/ /\ Writes(<<TakeDiscard(take.id)>>)
            /\ take' = NoOpen /\ phase' = "running" /\ ghost' = ghost
         \/ FailsAndEnds(<<TakeDiscard(take.id)>>, ghost) /\ take' = take,
         UNCHANGED <<h, pend, nextTake, journaled, save, disk>>
  PROVE  SessionInv'
<1> DEFINE r == State(log)
           t == take.id
           x == TakeDiscard(t)
           recs == <<x>>
<1>0. Started /\ Recording /\ pend = {}
  BY DEF SessionInv, Started
<1>1. /\ TypeOK /\ fails \in Nat /\ GhostOK /\ ghost.resurfaced = FALSE /\ Fine(log, wav)
      /\ Standing(r, Summary(log), wav) /\ MemoryIs(r, h, take, journaled, wav)
      /\ IdsIn(log) \subseteq durable /\ FreshInv
  BY <1>0, StartedParts
<1>2. t \in TakeId /\ UNCHANGED <<chunks, next, durable, bad, wav, file>>
  BY <1>0, <1>1, TypeParts DEF disk
<1>3. r \in ReplayState
  BY <1>1, StandingParts
<1> HIDE DEF r
<1>4. x \in {TakeDiscard(t), TakeCancel(t)}
  OBVIOUS
<1>5. x \in Record /\ x.type # "checkpoint" /\ IdsOf(x) = {}
  BY <1>2, RecordsAre DEF TakeDiscard, IdsOf
<1> HIDE DEF x, t
<1>6. Fits(r, Summary(log), x, wav)
  BY <1>1, <1>2, <1>4, ClosedFits
<1> DEFINE r1 == Applied(r, x)
<1>7. r1 =
              [hist |-> r.hist, ids |-> r.ids, open |-> r.open \ {t},
               windowed |-> r.windowed \ {t},
               markers |-> [r.markers EXCEPT ![t] = {}],
               max_take |-> r.max_take]
  BY <1>3, <1>4, AppliedTake
<1>8. /\ Follows(log, recs, wav) /\ State(log \o recs) = r1 /\ IdsIn(recs) = {}
  BY <1>1, <1>5, <1>6, OneFollows DEF r
<1> HIDE DEF r1, recs
<1>9. r1.hist = r.hist /\ r1.ids = r.ids /\ r1.open = r.open \ {t}
      /\ r1.markers = [r.markers EXCEPT ![t] = {}] /\ r1.max_take = r.max_take
  BY <1>7
<1>10. MemoryIs(r1, h, NoOpen, journaled, wav)
  <2>1. t = take.id
    BY DEF t
  <2> QED BY <1>1, <1>2, <1>3, <1>9, <2>1, ClosedMemory
<1>11. CASE Writes(recs) /\ take' = NoOpen /\ phase' = "running" /\ ghost' = ghost
  <2>1. TypeOK'
    <3>1. torn' \in BOOLEAN
      BY <1>1, <1>11, TornIs DEF TypeOK
    <3> QED BY <1>1, <1>2, <1>11, <3>1 DEF TypeOK
  <2>2. MemoryIs(State(log \o recs), h', take', journaled', wav')
    BY <1>2, <1>8, <1>10, <1>11
  <2>3. /\ State(log \o recs).max_take < nextTake'
        /\ \A u \in TakeId : u >= nextTake' => wav'[u] = "none"
    BY <1>1, <1>2, <1>8, <1>9 DEF FreshInv, r
  <2>4. /\ TakeInv' /\ Follows(log, recs, wav') /\ durable \subseteq durable'
        /\ IdsIn(recs) \subseteq durable' /\ (pend' # {} => take' = NoOpen)
        /\ GhostOK' /\ ghost'.resurfaced = ghost.resurfaced
    BY <1>1, <1>2, <1>8, <1>11 DEF TakeInv, Recording, GhostOK
  <2> QED BY <1>0, <1>11, <2>1, <2>2, <2>3, <2>4, Wrote
<1>12. CASE FailsAndEnds(recs, ghost) /\ take' = take
  <2>1. /\ Follows(log, recs, wav') /\ IdsIn(log) \cup IdsIn(recs) \subseteq durable'
    BY <1>1, <1>2, <1>8
  <2>2. /\ DiskInv' /\ phase' = "down" /\ stray' = <<>> /\ GhostOK' /\ fails' \in Nat
        /\ ~ghost'.resurfaced => log' = log
        /\ torn' \in BOOLEAN
    BY <1>1, <1>12, <2>1, AfterFailedEnd DEF TypeOK, GhostOK
  <2>3. TypeOK'
    BY <1>1, <1>2, <1>12, <2>2 DEF TypeOK
  <2>4. TakeMarkersAreFree'
    BY <1>12 DEF SessionInv, TakeMarkersAreFree, Recording
  <2>5. ~ghost'.resurfaced => MemoryIs(State(log'), h', take', journaled', wav')
    BY <1>1, <1>2, <1>12, <2>2 DEF r
  <2>6. pend' = {}
    BY <1>0
  <2> QED BY <2>2, <2>3, <2>4, <2>5, <2>6, GoesDown
<1> QED BY <1>11, <1>12 DEF recs, x, t

\* The user gives the recovered take up.
LEMMA RecoverDiscardKeeps ==
  ASSUME SessionInv, RecoverDiscard
  PROVE  SessionInv'
<1>1. /\ phase = "choice"
      /\ \/ /\ Writes(<<TakeDiscard(take.id)>>)
            /\ take' = NoOpen /\ phase' = "running" /\ ghost' = ghost
         \/ FailsAndEnds(<<TakeDiscard(take.id)>>, ghost) /\ take' = take
      /\ UNCHANGED <<h, pend, nextTake, journaled, save, disk>>
  BY DEF RecoverDiscard
<1> QED BY <1>1, RecoverDiscards

\* The user applies the recovered take, which ends the session when the WAV is gone.
LEMMA RecoverApplyKeeps ==
  ASSUME SessionInv, NEW del, RecoverApply(del)
  PROVE  SessionInv'
<1> DEFINE r == State(log)
           t == take.id
           e == TakeEdit(del, [take EXCEPT !.ids = {next}])
           y == Edit(h.next_seq, e, t, FALSE)
           recs == <<Chunks({next}), y>>
<1>0. phase = "choice" /\ Started /\ Recording /\ pend = {} /\ del \subseteq h.current.pieces
  BY DEF SessionInv, Started, RecoverApply
<1>1. \/ /\ Ends /\ UNCHANGED <<memory, disk, fails>>
      \/ /\ \/ /\ Writes(<<TakeDiscard(take.id)>>)
               /\ take' = NoOpen /\ phase' = "running" /\ ghost' = ghost
            \/ FailsAndEnds(<<TakeDiscard(take.id)>>, ghost) /\ take' = take
         /\ UNCHANGED <<h, pend, nextTake, journaled, save, disk>>
      \/ /\ next \in Chunk /\ chunks' = chunks \cup {next} /\ durable' = chunks'
         /\ Prepares(h, e)
         /\ \/ /\ Writes(recs) /\ h' = Commit(h, e) /\ journaled' = journaled \cup {next}
               /\ take' = NoOpen /\ phase' = "running" /\ ghost' = ghost
            \/ FailsAndEnds(recs, ghost) /\ h' = h /\ journaled' = journaled /\ take' = take
         /\ UNCHANGED <<pend, nextTake, save, bad, wav, file>>
  BY DEF RecoverApply, CanCommit
<1>2. /\ TypeOK /\ fails \in Nat /\ GhostOK /\ ghost.resurfaced = FALSE /\ Fine(log, wav)
      /\ Standing(r, Summary(log), wav) /\ MemoryIs(r, h, take, journaled, wav)
      /\ IdsIn(log) \subseteq durable /\ FreshInv /\ DiskInv
      /\ SameHistory(r.hist, h) /\ r.ids = journaled /\ r.hist \in HistoryState
      /\ r.open \in SUBSET TakeId /\ r.markers \in [TakeId -> SUBSET MarkerId]
  BY <1>0, StartedParts
<1>3. CASE Ends /\ UNCHANGED <<memory, disk, fails>>
  <2>1. UNCHANGED <<h, take, pend, nextTake, journaled, save, chunks, durable, bad, wav, file>>
        /\ fails' = fails
    BY <1>3 DEF memory, disk
  <2>2. /\ DiskInv' /\ phase' = "down" /\ stray' = <<>> /\ GhostOK'
        /\ ~ghost'.resurfaced => log' = log
        /\ torn' \in BOOLEAN
    BY <1>2, <1>3, <2>1, AfterEnd DEF TypeOK
  <2>3. TypeOK'
    BY <1>2, <2>1, <2>2 DEF TypeOK
  <2>4. TakeMarkersAreFree'
    BY <2>1 DEF SessionInv, TakeMarkersAreFree, Recording
  <2>5. ~ghost'.resurfaced => MemoryIs(State(log'), h', take', journaled', wav')
    BY <1>2, <2>1, <2>2
  <2>6. pend' = {} /\ fails' \in Nat
    BY <1>0, <1>2, <2>1
  <2> QED BY <2>2, <2>3, <2>4, <2>5, <2>6, GoesDown
<1>4. CASE /\ \/ /\ Writes(<<TakeDiscard(take.id)>>)
                 /\ take' = NoOpen /\ phase' = "running" /\ ghost' = ghost
              \/ FailsAndEnds(<<TakeDiscard(take.id)>>, ghost) /\ take' = take
           /\ UNCHANGED <<h, pend, nextTake, journaled, save, disk>>
  BY <1>0, <1>4, RecoverDiscards
<1>5. CASE /\ next \in Chunk /\ chunks' = chunks \cup {next} /\ durable' = chunks'
           /\ Prepares(h, e)
           /\ \/ /\ Writes(recs) /\ h' = Commit(h, e) /\ journaled' = journaled \cup {next}
                 /\ take' = NoOpen /\ phase' = "running" /\ ghost' = ghost
              \/ FailsAndEnds(recs, ghost) /\ h' = h /\ journaled' = journaled /\ take' = take
           /\ UNCHANGED <<pend, nextTake, save, bad, wav, file>>
  <2>1. /\ t \in TakeId /\ take.marks \in SUBSET MarkerId /\ take \in TakeState
        /\ h \in HistoryState /\ journaled \subseteq chunks /\ durable \subseteq chunks
        /\ chunks \subseteq Chunk
    BY <1>0, <1>2, TypeParts
  <2>2. e \in EditOps /\ e.ins = {next}
    <3>1. h.current.pieces \in SUBSET Chunk
      BY <2>1, HistoryParts, SnapshotParts
    <3>2. del \in SUBSET Chunk
      BY <1>0, <3>1
    <3>3. [take EXCEPT !.ids = {next}].ids = {next} /\ [take EXCEPT !.ids = {next}].marks = take.marks
      BY <2>1 DEF TakeState
    <3> QED BY <1>5, <2>1, <3>2, <3>3 DEF TakeEdit, EditOps
  <2> HIDE DEF e
  <2>3. Prepares(r.hist, e) /\ r.hist.next_seq = h.next_seq
    BY <1>2, <1>5, <2>1, <2>2, SameCommit DEF SameHistory
  <2>4. \A u \in r.open : u # t => r.markers[u] \cap e.madd = {}
    BY <1>2 DEF MemoryIs
  <2> DEFINE I == {next}
             z == Edit(r.hist.next_seq, e, t, FALSE)
  <2>5. I \in SUBSET Chunk /\ e.ins \subseteq r.ids \cup I /\ t \in TakeId \cup {NoTake}
        /\ FALSE \in BOOLEAN /\ I \cup e.ins = I
    BY <1>5, <2>1, <2>2
  <2> HIDE DEF I
  <2>6. /\ Follows(log, <<Chunks(I), z>>, wav)
        /\ State(log \o <<Chunks(I), z>>) = Edited(State(log), State(log).ids \cup I, e, t)
        /\ IdsIn(<<Chunks(I), z>>) = I \cup e.ins
    <3>1. /\ Fine(log, wav) /\ e \in EditOps /\ t \in TakeId \cup {NoTake} /\ FALSE \in BOOLEAN
          /\ I \in SUBSET Chunk /\ e.ins \subseteq State(log).ids \cup I
          /\ Prepares(State(log).hist, e)
          /\ \A u \in State(log).open : u # t => State(log).markers[u] \cap e.madd = {}
      BY <1>2, <2>2, <2>3, <2>4, <2>5
    <3>2. Yields(log, <<Chunks(I), Edit(State(log).hist.next_seq, e, t, FALSE)>>, wav,
                 Edited(State(log), State(log).ids \cup I, e, t), I \cup e.ins)
      <4> HIDE DEF t
      <4> QED BY ONLY <3>1, ChunksEditFollow
    <3> QED BY <3>2 DEF Yields
  <2>7. recs = <<Chunks(I), z>>
    BY <2>3 DEF I
  <2> HIDE DEF recs, z
  <2>8. /\ Follows(log, recs, wav) /\ State(log \o recs) = Edited(r, journaled \cup I, e, t)
        /\ IdsIn(recs) = I
    BY <1>2, <2>5, <2>6, <2>7
  <2>9. /\ durable \subseteq durable' /\ IdsIn(recs) \subseteq durable' /\ durable' = chunks'
        /\ chunks' \subseteq Chunk /\ journaled \cup I \subseteq chunks' /\ wav' = wav
        /\ journaled \subseteq chunks' /\ I = {next}
    BY <1>5, <2>1, <2>8 DEF I
  <2> HIDE DEF r
  <2>10. CASE /\ Writes(recs) /\ h' = Commit(h, e) /\ journaled' = journaled \cup {next}
              /\ take' = NoOpen /\ phase' = "running" /\ ghost' = ghost
    <3>1. TypeOK'
      <4>1. torn' \in BOOLEAN
        BY <1>2, <2>10, TornIs DEF TypeOK
      <4>2. h' \in HistoryState
        BY <2>1, <2>2, <2>10, CommitType
      <4> QED BY <1>2, <1>5, <2>9, <2>10, <4>1, <4>2 DEF TypeOK
    <3>2. MemoryIs(State(log \o recs), h', take', journaled', wav')
      <4>1. SameHistory(Commit(r.hist, e), Commit(h, e))
        BY <1>2, <2>1, <2>2, SameCommit
      <4>2. t = take.id /\ t \in TakeId /\ take' = NoOpen
        BY <2>1, <2>10
      <4>3. MemoryIs(Edited(r, journaled \cup I, e, t), h', take', journaled \cup I, wav)
        BY <1>2, <2>10, <4>1, <4>2, EditedMemory
      <4> QED BY <2>8, <2>9, <2>10, <4>3
    <3>3. /\ State(log \o recs).max_take < nextTake'
          /\ \A u \in TakeId : u >= nextTake' => wav'[u] = "none"
      BY <1>2, <1>5, <2>8, <2>9 DEF FreshInv, Edited, r
    <3>4. /\ TakeInv' /\ Follows(log, recs, wav') /\ (pend' # {} => take' = NoOpen)
          /\ GhostOK' /\ ghost'.resurfaced = ghost.resurfaced
      BY <1>2, <2>8, <2>9, <2>10 DEF TakeInv, Recording, GhostOK
    <3> QED BY <1>0, <2>9, <2>10, <3>1, <3>2, <3>3, <3>4, Wrote
  <2>11. CASE FailsAndEnds(recs, ghost) /\ h' = h /\ journaled' = journaled /\ take' = take
    <3>1. /\ Follows(log, recs, wav') /\ IdsIn(log) \cup IdsIn(recs) \subseteq durable'
      BY <1>2, <2>8, <2>9
    <3>2. /\ DiskInv' /\ phase' = "down" /\ stray' = <<>> /\ GhostOK' /\ fails' \in Nat
          /\ ~ghost'.resurfaced => log' = log
          /\ torn' \in BOOLEAN
      BY <1>2, <2>11, <3>1, AfterFailedEnd DEF TypeOK, GhostOK
    <3>3. TypeOK'
      BY <1>2, <1>5, <2>1, <2>9, <2>11, <3>2 DEF TypeOK
    <3>4. TakeMarkersAreFree'
      BY <2>11 DEF SessionInv, TakeMarkersAreFree, Recording
    <3>5. ~ghost'.resurfaced => MemoryIs(State(log'), h', take', journaled', wav')
      BY <1>2, <2>9, <2>11, <3>2 DEF r
    <3>6. pend' = {}
      BY <1>0, <1>5
    <3> QED BY <3>2, <3>3, <3>4, <3>5, <3>6, GoesDown
  <2> QED BY <1>5, <2>10, <2>11
<1> HIDE DEF recs, e
<1> QED BY <1>1, <1>3, <1>4, <1>5

\* The highest id of a set is the highest one.
LEMMA HighestIs ==
  ASSUME NEW n \in Nat, NEW S \in SUBSET (0..n)
  PROVE  Highest(S) \in S \cup {0} /\ \A k \in S : k <= Highest(S)
<1> DEFINE T     == S \cup {0}
           below == {n - k : k \in T}
<1>1. T \in SUBSET (0..n) /\ 0 \in T
  OBVIOUS
<1> HIDE DEF T
<1>2. below \in SUBSET Nat /\ below # {}
  <2>1. \A k \in T : n - k \in Nat
    BY <1>1
  <2>2. n - 0 \in below
    BY <1>1
  <2> QED BY <2>1, <2>2
<1>3. PICK d \in below : \A c \in below : d <= c
  <2> HIDE DEF below
  <2> QED BY ONLY <1>2, Steps!LeastNumber
<1>4. PICK k \in T : d = n - k
  BY <1>3
<1>5. \A j \in T : j <= k
  <2> SUFFICES ASSUME NEW j \in T
               PROVE  j <= k
    OBVIOUS
  <2>1. n - j \in below /\ j \in 0..n /\ k \in 0..n
    BY <1>1
  <2>2. d <= n - j
    BY <1>3, <2>1
  <2> QED BY <1>4, <2>1, <2>2
<1>6. k \in T /\ \A j \in S : j <= k
  BY <1>5 DEF T
<1> QED BY <1>6 DEF Highest, T

\* What recovery offers is a prefix of the journal, replayed: all of it, or one
\* that brings back no chunk whose damage was noticed.
LEMMA RecoverableIs ==
  ASSUME NEW L, NEW w, Fine(L, w), Recoverable(L) # NothingRecoverable
  PROVE  \E n \in 1..Len(L) :
           /\ Recoverable(L) = Replay(SubSeq(L, 1, n))
           /\ Live(State(L).hist) \cap bad = {} => n = Len(L)
           /\ Live(State(SubSeq(L, 1, n)).hist) \cap (Live(State(L).hist) \cap bad) = {}
<1> DEFINE all     == Replay(L)
           corrupt == Live(all.state.hist) \cap bad
           cuts    == {i \in (LastCheckpoint(L) + 1)..all.consumed :
                         ReferencesAny(L[i], corrupt)}
           cut     == CHOOSE i \in cuts : \A j \in cuts : i <= j
           again   == Replay(SubSeq(L, 1, cut - 1))
<1>1. /\ L \in JournalRecords /\ Len(L) \in Nat /\ Len(L) >= 1 /\ SubSeq(L, 1, Len(L)) = L
      /\ LastCheckpoint(L) \in 1..Len(L) /\ all.consumed = Len(L)
  BY FineSound, JournalIs, LastCheckpointIs DEF Sound
<1>2. CASE corrupt = {}
  <2>1. Recoverable(L) = all
    BY <1>2 DEF Recoverable
  <2>2. Len(L) \in 1..Len(L)
    BY <1>1
  <2>3. /\ Recoverable(L) = Replay(SubSeq(L, 1, Len(L)))
        /\ Live(State(SubSeq(L, 1, Len(L))).hist) \cap corrupt = {}
    BY <1>1, <1>2, <2>1
  <2> HIDE DEF all
  <2> QED BY <2>2, <2>3 DEF all, State
<1>3. CASE corrupt # {}
  <2>1. cuts # {} /\ Recoverable(L) = again /\ Live(again.state.hist) \cap corrupt = {}
    BY <1>3 DEF Recoverable
  <2>2. cuts \in SUBSET (2..Len(L))
    BY <1>1
  <2>3. cuts \in SUBSET Nat
    BY <1>1, <2>2
  <2> HIDE DEF cuts
  <2>4. \E m \in cuts : \A j \in cuts : m <= j
    BY ONLY <2>1, <2>3, Steps!LeastNumber
  <2>5. cut \in cuts
    BY <2>4
  <2> HIDE DEF cut
  <2>6. cut - 1 \in 1..Len(L)
    BY <1>1, <2>2, <2>5
  <2>7. /\ Recoverable(L) = Replay(SubSeq(L, 1, cut - 1))
        /\ Live(State(SubSeq(L, 1, cut - 1)).hist) \cap (Live(State(L).hist) \cap bad) = {}
    BY <2>1 DEF State
  <2>8. Live(State(L).hist) \cap bad # {}
    BY <1>3 DEF State
  <2> HIDE DEF all, corrupt, again
  <2> QED BY ONLY <2>6, <2>7, <2>8
<1> QED BY <1>2, <1>3

\* The part of the journal that is kept.
LEMMA RecoveredParts ==
  ASSUME SessionInv, phase = "down", NEW got, got = Recoverable(log),
         got # NothingRecoverable
  PROVE  /\ got.consumed \in 1..Len(log)
         /\ Fine(SubSeq(log, 1, got.consumed), wav)
         /\ got.state = State(SubSeq(log, 1, got.consumed))
         /\ IdsIn(SubSeq(log, 1, got.consumed)) \subseteq durable
         /\ Live(State(log).hist) \cap bad = {} => got.consumed = Len(log)
         /\ Live(got.state.hist) \cap (Live(State(log).hist) \cap bad) = {}
<1>1. /\ Follows(log, stray, wav) /\ IdsIn(log) \subseteq durable
  BY DEF SessionInv, DiskInv
<1>2. Fine(log, wav) /\ log \in Seq(Record)
  BY <1>1, FollowsParts
<1>3. PICK n \in 1..Len(log) :
        /\ Recoverable(log) = Replay(SubSeq(log, 1, n))
        /\ Live(State(log).hist) \cap bad = {} => n = Len(log)
        /\ Live(State(SubSeq(log, 1, n)).hist) \cap (Live(State(log).hist) \cap bad) = {}
  BY <1>2, RecoverableIs
<1> DEFINE kept == SubSeq(log, 1, n)
<1>4. Fine(kept, wav)
  BY <1>2, FinePrefix
<1>5. /\ Len(log) \in Nat /\ n \in 0..Len(log)
  BY <1>2, LenProperties
<1>6. Len(kept) = n /\ DOMAIN kept = 1..n /\ DOMAIN log = 1..Len(log)
      /\ \A i \in 1..n : kept[i] = log[i]
  BY <1>2, <1>5, PrefixProperties
<1>7. Replay(kept) = [state |-> State(kept), consumed |-> n, stopped |-> FALSE]
  BY <1>4, <1>6, FineSound DEF Sound
<1>8. got.consumed = n /\ got.state = State(kept)
  <2> HIDE DEF kept
  <2>1. got = [state |-> State(kept), consumed |-> n, stopped |-> FALSE]
    BY <1>3, <1>7 DEF kept
  <2> QED BY <2>1
<1>9. IdsIn(kept) \subseteq IdsIn(log)
  <2> HIDE DEF kept
  <2>1. \A i \in 1..n : i \in 1..Len(log)
    BY <1>5
  <2> QED BY <1>6, <2>1 DEF IdsIn
<1> QED BY <1>1, <1>3, <1>4, <1>8, <1>9

\* The recovered take is the only one that can have a WAV.
LEMMA RecoveredMemory ==
  ASSUME NEW r, NEW s, NEW w, Standing(r, s, w), NEW last, last = Highest(r.open),
         NEW tk, last = 0 => tk = NoOpen,
         last # 0 => /\ tk # NoOpen /\ tk.id = last /\ tk.marks = r.markers[last]
                     /\ (last \in r.windowed) <=> tk.window
  PROVE  MemoryIs(r, r.hist, tk, r.ids, w)
<1>1. /\ r.hist \in HistoryState /\ r.open \in SUBSET TakeId /\ TakesStand(r, w)
  BY StandingParts
<1>2. MaxTake \in Nat /\ r.open \in SUBSET (0..MaxTake)
  BY <1>1, MaxTakeIsNat DEF TakeId
<1>3. last \in r.open \cup {0} /\ \A k \in r.open : k <= last
  BY <1>2, HighestIs
<1>4. SameHistory(r.hist, r.hist)
  BY <1>1, SameSelf
<1>5. ASSUME NEW t \in r.open
      PROVE  t = tk.id \/ (w[t] = "none" /\ r.markers[t] = {})
  <2>1. t \in 1..MaxTake /\ t <= last
    BY <1>1, <1>3 DEF TakeId
  <2>2. last # 0 /\ last \in r.open /\ last \in 1..MaxTake
    BY <1>1, <1>2, <1>3, <2>1 DEF TakeId
  <2>3. (\A u \in r.open : u <= t) => t = last
    BY <2>1, <2>2
  <2>4. (\A u \in r.open : u <= t) \/ (w[t] = "none" /\ r.markers[t] = {})
    BY <1>1 DEF TakesStand
  <2> QED BY <2>2, <2>3, <2>4
<1>6. last # 0 => last \in r.open
  BY <1>3
<1>7. tk # NoOpen => /\ tk.id \in r.open
                     /\ (tk.id \in r.windowed) <=> tk.window
                     /\ r.markers[tk.id] = tk.marks
  BY <1>6
<1> QED BY <1>4, <1>5, <1>7 DEF MemoryIs

\* Ids above every take the journal knows or a WAV is left of.
LEMMA NextTakeAbove ==
  ASSUME NEW r, r.max_take \in 0..MaxTake, wav \in [TakeId -> {"none", "empty", "audio"}]
  PROVE  /\ NextTakeAfter(r) \in 1..(MaxTake + 1)
         /\ r.max_take < NextTakeAfter(r)
         /\ \A t \in TakeId : t >= NextTakeAfter(r) => wav[t] = "none"
<1> DEFINE S == {r.max_take} \cup Present
<1>1. MaxTake \in Nat /\ S \in SUBSET (0..MaxTake)
  BY MaxTakeIsNat DEF Present, TakeId
<1> HIDE DEF S
<1>2. Highest(S) \in S \cup {0} /\ \A k \in S : k <= Highest(S)
  BY <1>1, HighestIs
<1>3. Highest(S) \in 0..MaxTake /\ NextTakeAfter(r) = Highest(S) + 1
  BY <1>1, <1>2 DEF NextTakeAfter, S
<1>4. r.max_take <= Highest(S) /\ r.max_take \in Int
  BY <1>1, <1>2 DEF S
<1>5. ASSUME NEW t \in TakeId, t >= NextTakeAfter(r)
      PROVE  wav[t] = "none"
  <2>1. t \in Int /\ ~(t <= Highest(S))
    BY <1>1, <1>3, <1>5 DEF TakeId
  <2>2. t \notin S
    BY <1>2, <2>1
  <2> QED BY <2>2 DEF S, Present
<1>6. /\ NextTakeAfter(r) \in 1..(MaxTake + 1) /\ r.max_take < NextTakeAfter(r)
  BY <1>1, <1>3, <1>4
<1> QED BY <1>5, <1>6

\* A take that begins.
LEMMA NewTakeIs ==
  ASSUME NEW t \in TakeId, NEW al \in BOOLEAN
  PROVE  /\ NewTake(t, al) \in TakeState /\ NewTake(t, al).id = t
         /\ NewTake(t, al).window = ~al
BY DEF NewTake, TakeState

\* The take that recovery offers, and the one that never left its pre-roll.
Offered(t, M)  == [NewTake(t, FALSE) EXCEPT !.marks = M]
Unopened(t, M) == [Offered(t, M) EXCEPT !.window = FALSE]

\* Both have the id and the markers of the journal.
LEMMA OfferedTake ==
  ASSUME NEW t \in TakeId, NEW M \in SUBSET MarkerId
  PROVE  /\ Offered(t, M) \in TakeState /\ Offered(t, M).id = t
         /\ Offered(t, M).marks = M /\ Offered(t, M).window
         /\ Unopened(t, M) \in TakeState /\ Unopened(t, M).id = t
         /\ Unopened(t, M).marks = M /\ ~Unopened(t, M).window
<1> DEFINE new  == NewTake(t, FALSE)
           open == [new EXCEPT !.marks = M]
           shut == [open EXCEPT !.window = FALSE]
<1>1. PICK no \in BOOLEAN : no = FALSE
  OBVIOUS
<1>2. new \in TakeState /\ new.id = t /\ new.window
  <2>1. /\ NewTake(t, no) \in TakeState /\ NewTake(t, no).id = t
        /\ NewTake(t, no).window = ~no
    BY NewTakeIs
  <2> QED BY <1>1, <2>1
<1> HIDE DEF new
<1>3. open \in TakeState /\ open.id = t /\ open.marks = M /\ open.window
  BY <1>2 DEF TakeState
<1> HIDE DEF open
<1>4. shut \in TakeState /\ shut.id = t /\ shut.marks = M /\ ~shut.window
  BY <1>3 DEF TakeState
<1> QED BY <1>3, <1>4 DEF open, new, Offered, Unopened

\* Session::recover: the memory it builds is what the journal it leaves replays to.
LEMMA RecoverKeeps ==
  ASSUME SessionInv, Recover
  PROVE  SessionInv'
<1>1. phase = "down" /\ stray = <<>> /\ pend = {} /\ TypeOK /\ fails \in Nat /\ GhostOK
  BY DEF Recover, SessionInv, Started
<1>2. PICK got \in {Recoverable(log)} :
        /\ got # NothingRecoverable
        /\ RecoverFrom(got, got.state, SubSeq(log, 1, got.consumed),
                       Highest(got.state.open))
  BY DEF Recover
<1> DEFINE kept == SubSeq(log, 1, got.consumed)
           r    == State(kept)
           last == Highest(r.open)
           pre  == last # 0 /\ last \notin r.windowed
           open == [NewTake(last, FALSE) EXCEPT !.marks = r.markers[last]]
           tk   == IF last = 0 THEN NoOpen
                   ELSE IF pre THEN [open EXCEPT !.window = FALSE] ELSE open
           x    == TakeCancel(last)
<1>3. /\ Fine(kept, wav) /\ got.state = r /\ IdsIn(kept) \subseteq durable
  BY <1>1, <1>2, RecoveredParts
<1>4. RecoverFrom(got, r, kept, last)
  BY <1>2, <1>3
<1> HIDE DEF kept
<1>5. /\ Standing(r, Summary(kept), wav) /\ r.ids = IdsIn(kept) /\ kept \in JournalRecords
      /\ kept \in Seq(Record)
  BY <1>3, FineSound, JournalIs
<1>6. /\ r \in ReplayState /\ r.hist \in HistoryState /\ r.ids \in SUBSET Chunk
      /\ r.open \in SUBSET TakeId /\ r.windowed \in SUBSET TakeId
      /\ r.markers \in [TakeId -> SUBSET MarkerId] /\ r.max_take \in 0..MaxTake
  BY <1>5, StandingParts
<1>7. /\ h' = r.hist /\ nextTake' = NextTakeAfter(r) /\ journaled' = r.ids /\ chunks' = r.ids
      /\ durable' = durable \cap r.ids /\ bad' = bad \cap r.ids /\ stray' = <<>>
      /\ \/ /\ ~pre /\ log' = kept /\ torn' = FALSE
            /\ take' = IF last = 0 THEN NoOpen ELSE open
            /\ phase' = IF last = 0 THEN "running" ELSE "choice"
            /\ fails' = fails
         \/ /\ pre /\ log' = Append(kept, x) /\ torn' = FALSE
            /\ take' = NoOpen /\ phase' = "running" /\ fails' = fails
         \/ /\ pre /\ log' = kept /\ torn' \in BOOLEAN
            /\ take' = [open EXCEPT !.window = FALSE] /\ phase' = "down"
            /\ fails' = fails + 1
      /\ pend' = pend /\ save' = save /\ wav' = wav /\ file' = file
  BY <1>4 DEF RecoverFrom
<1>8. GhostOK' /\ ghost'.resurfaced = FALSE
  <2>1. ghost' = [ghost EXCEPT !.closing = Last(log').type = "close",
                               !.resurfaced = FALSE,
                               !.unmarked = @ \/ got.consumed < Len(log),
                               !.tails = IF got.consumed < Len(log) THEN {} ELSE @,
                               !.overlooked = @ \cup Overlooked(r.hist)]
    BY <1>4 DEF RecoverFrom
  <2>2. DOMAIN ghost' = DOMAIN ghost /\ ghost'.resurfaced = FALSE
    BY <1>1, <2>1 DEF GhostOK
  <2> QED BY <1>1, <2>2 DEF GhostOK
<1> HIDE DEF r
<1>9. last \in r.open \cup {0} /\ (last # 0 => last \in TakeId)
  <2>1. MaxTake \in Nat /\ r.open \in SUBSET (0..MaxTake)
    BY <1>6, MaxTakeIsNat DEF TakeId
  <2> QED BY <1>6, <2>1, HighestIs
<1> HIDE DEF last
<1> DEFINE shut == [open EXCEPT !.window = FALSE]
<1>10. last # 0 =>
         /\ open \in TakeState /\ open.id = last /\ open.marks = r.markers[last]
         /\ open.window
         /\ shut \in TakeState /\ shut.id = last /\ shut.marks = r.markers[last]
         /\ ~shut.window
  <2> SUFFICES ASSUME last # 0
               PROVE  /\ open \in TakeState /\ open.id = last /\ open.marks = r.markers[last]
                      /\ open.window
                      /\ shut \in TakeState /\ shut.id = last
                      /\ shut.marks = r.markers[last] /\ ~shut.window
    OBVIOUS
  <2>1. last \in TakeId /\ r.markers[last] \in SUBSET MarkerId
    BY <1>6, <1>9
  <2> HIDE DEF last
  <2>2. open = Offered(last, r.markers[last]) /\ shut = Unopened(last, r.markers[last])
    BY DEF Offered, Unopened
  <2> HIDE DEF open, shut
  <2> QED BY ONLY <2>1, <2>2, OfferedTake
<1> HIDE DEF open
<1>11. last # 0 => /\ tk \in TakeState /\ tk # NoOpen /\ tk.id = last
                   /\ tk.marks = r.markers[last]
                   /\ (last \in r.windowed) <=> tk.window
  <2> SUFFICES ASSUME last # 0
               PROVE  /\ tk \in TakeState /\ tk # NoOpen /\ tk.id = last
                      /\ tk.marks = r.markers[last]
                      /\ (last \in r.windowed) <=> tk.window
    OBVIOUS
  <2>1. last # NoTake
    BY DEF NoTake
  <2>2. CASE pre
    <3>1. tk = shut
      BY <2>2
    <3>2. tk.id # NoOpen.id
      BY <1>10, <2>1, <3>1 DEF NoOpen
    <3> QED BY <1>10, <2>2, <3>1, <3>2
  <2>3. CASE ~pre
    <3>1. tk = open
      BY <2>3
    <3>2. tk.id # NoOpen.id
      BY <1>10, <2>1, <3>1 DEF NoOpen
    <3> QED BY <1>10, <2>3, <3>1, <3>2
  <2> QED BY <2>2, <2>3
<1>12. last = 0 => tk = NoOpen
  OBVIOUS
<1> HIDE DEF tk
<1>13. MemoryIs(r, h', tk, journaled', wav')
  <2>1. MemoryIs(r, r.hist, tk, r.ids, wav)
    <3>1. last = Highest(r.open)
      BY DEF last
    <3>2. Standing(r, Summary(kept), wav)
      BY <1>5 DEF r
    <3> QED BY <1>11, <1>12, <3>1, <3>2, RecoveredMemory
  <2> QED BY <1>7, <2>1
<1>14. /\ nextTake' \in 1..(MaxTake + 1) /\ r.max_take < nextTake'
       /\ \A t \in TakeId : t >= nextTake' => wav'[t] = "none"
  <2>1. wav \in [TakeId -> {"none", "empty", "audio"}]
    BY <1>1 DEF TypeOK
  <2> QED BY <1>6, <1>7, <2>1, NextTakeAbove
<1>15. r.ids \subseteq durable' /\ IdsIn(kept) = r.ids
  BY <1>3, <1>5, <1>7 DEF r
<1>16. torn' \in BOOLEAN /\ take' \in {tk, NoOpen} /\ fails' \in Nat
       /\ phase' \in {"running", "choice", "down"} /\ pend' = {}
  <2>1. take' \in {tk, NoOpen}
    <3>1. CASE pre /\ take' = [open EXCEPT !.window = FALSE]
      BY <3>1 DEF tk
    <3>2. CASE ~pre /\ take' = IF last = 0 THEN NoOpen ELSE open
      BY <3>2 DEF tk
    <3>3. CASE take' = NoOpen
      BY <3>3
    <3> QED BY <1>7, <3>1, <3>2, <3>3
  <2>2. torn' \in BOOLEAN /\ phase' \in {"running", "choice", "down"}
    <3>1. (IF last = 0 THEN "running" ELSE "choice") \in {"running", "choice", "down"}
      OBVIOUS
    <3> HIDE DEF pre, x
    <3> QED BY ONLY <1>7, <3>1
  <2>3. fails' \in Nat /\ pend' = {}
    <3> HIDE DEF pre, x
    <3> QED BY <1>1, <1>7
  <2> QED BY <2>1, <2>2, <2>3
<1>17. TypeOK'
  <2>1. take' \in TakeState \cup {NoOpen}
    BY <1>11, <1>12, <1>16
  <2> QED BY <1>1, <1>6, <1>7, <1>14, <1>16, <2>1 DEF TypeOK
<1>18. ASSUME log' = kept
       PROVE  DiskInv'
  <2>1. Follows(kept, <<>>, wav)
    BY <1>3, FollowsNone
  <2>2. IdsIn(<<>>) = {}
    BY PlainNone
  <2> QED BY <1>7, <1>15, <1>18, <2>1, <2>2 DEF DiskInv
<1>19. CASE ~pre /\ log' = kept /\ take' = (IF last = 0 THEN NoOpen ELSE open)
            /\ phase' = (IF last = 0 THEN "running" ELSE "choice")
  <2>1. take' = tk
    BY <1>19 DEF tk
  <2>2. Started' /\ (phase' = "choice" => take' # NoOpen)
        /\ (phase' = "running" => take' = NoOpen)
    BY <1>11, <1>12, <1>19, <2>1 DEF Started
  <2>3. MemoryIs(State(log'), h', take', journaled', wav') /\ FreshInv'
    BY <1>13, <1>14, <1>19, <2>1 DEF FreshInv, r
  <2>4. phase' = "running" => TakeInv'
    BY <2>2 DEF TakeInv, Recording
  <2> QED BY <1>8, <1>16, <1>17, <1>18, <1>19, <2>2, <2>3, <2>4, StaysStarted
<1>20. CASE pre /\ log' = Append(kept, x) /\ take' = NoOpen /\ phase' = "running"
  <2>1. last \in TakeId /\ tk.id = last /\ tk # NoOpen
    BY <1>9, <1>11, <1>20
  <2>2. x \in {TakeDiscard(last), TakeCancel(last)} /\ x.type # "checkpoint" /\ IdsOf(x) = {}
        /\ x \in Record
    BY <2>1, RecordsAre DEF TakeCancel, IdsOf
  <2>3. Applied(r, x) =
              [hist |-> r.hist, ids |-> r.ids, open |-> r.open \ {last},
               windowed |-> r.windowed \ {last},
               markers |-> [r.markers EXCEPT ![last] = {}],
               max_take |-> r.max_take]
    BY ONLY <1>6, <2>2, AppliedTake
  <2> HIDE DEF x
  <2>4. Fits(State(kept), Summary(kept), x, wav)
    <3>1. Standing(State(kept), Summary(kept), wav)
      BY <1>5 DEF r
    <3> QED BY ONLY <2>1, <2>2, <3>1, ClosedFits
  <2>5. Fine(Append(kept, x), wav) /\ State(Append(kept, x)) = Applied(State(kept), x)
    BY ONLY <1>3, <2>2, <2>4, FineAppend
  <2> DEFINE r1 == State(log')
  <2>6. r1 = Applied(r, x) /\ Fine(log', wav)
    BY <1>20, <2>5 DEF r
  <2>7. /\ r1.hist = r.hist /\ r1.ids = r.ids /\ r1.open = r.open \ {last}
        /\ r1.markers = [r.markers EXCEPT ![last] = {}] /\ r1.max_take = r.max_take
    BY <2>3, <2>6
  <2> HIDE DEF r1
  <2>8. MemoryIs(r1, h', NoOpen, journaled', wav')
    BY <1>6, <1>13, <2>1, <2>7, ClosedMemory
  <2>9. IdsIn(log') = r.ids
    <3>1. kept \in Seq(Record) /\ IdsIn(kept) = r.ids
      BY <1>5, <1>15
    <3>2. IdsIn(Append(kept, x)) = IdsIn(kept) \cup IdsOf(x)
      <4>1. kept \in Seq(Record) /\ x \in Record
        BY <2>2, <3>1
      <4>2. \A b \in Record : IdsIn(Append(kept, b)) = IdsIn(kept) \cup IdsOf(b)
        BY ONLY <4>1, InOfAppend
      <4> QED BY ONLY <4>1, <4>2
    <3> QED BY <1>20, <2>2, <3>1, <3>2
  <2>10. DiskInv'
    <3>1. Follows(log', <<>>, wav) /\ IdsIn(<<>>) = {}
      BY <2>6, FollowsNone, PlainNone
    <3> QED BY <1>7, <1>15, <2>9, <3>1 DEF DiskInv
  <2>11. MemoryIs(State(log'), h', take', journaled', wav') /\ FreshInv'
    BY <1>14, <1>20, <2>7, <2>8 DEF FreshInv, r1
  <2>12. Started' /\ TakeInv'
    BY <1>20 DEF Started, TakeInv, Recording
  <2> QED BY <1>8, <1>16, <1>17, <1>20, <2>10, <2>11, <2>12, StaysStarted
<1>21. CASE pre /\ log' = kept /\ take' = [open EXCEPT !.window = FALSE] /\ phase' = "down"
  <2>1. take' = tk /\ tk # NoOpen
    BY <1>11, <1>21 DEF tk
  <2>2. MemoryIs(State(log'), h', take', journaled', wav')
    BY <1>13, <1>21, <2>1 DEF r
  <2>3. TakeMarkersAreFree'
    <3>1. Standing(r, Summary(kept), wav)
      BY <1>5 DEF r
    <3>2. tk.marks \cap h'.current.markers = {}
      BY <1>13, <2>1, <3>1, MarkersFree
    <3> QED BY <2>1, <3>2 DEF TakeMarkersAreFree
  <2>4. stray' = <<>>
    BY <1>7
  <2> QED BY <1>8, <1>16, <1>17, <1>18, <1>21, <2>2, <2>3, <2>4, GoesDown
<1> QED BY <1>7, <1>19, <1>20, <1>21

\* Compaction, the end of a session and its recovery.
LEMMA LifeNextKeeps ==
  ASSUME SessionInv, LifeNext
  PROVE  SessionInv'
<1>1. CASE Compact
  BY <1>1, CompactKeeps
<1>2. CASE CloseSession
  BY <1>2, CloseSessionKeeps
<1>3. CASE Crash
  BY <1>3, CrashKeeps
<1>4. CASE Recover
  BY <1>4, RecoverKeeps
<1>5. CASE RecoverDiscard
  BY <1>5, RecoverDiscardKeeps
<1>6. ASSUME NEW del \in SUBSET Chunk, RecoverApply(del)
      PROVE  SessionInv'
  BY <1>6, RecoverApplyKeeps
<1>7. CASE CollectGarbage
  BY <1>7, CollectGarbageKeeps
<1> QED BY <1>1, <1>2, <1>3, <1>4, <1>5, <1>6, <1>7 DEF LifeNext

\* The floor of a new recording.
LEMMA NewHistory ==
  /\ New({}, {}) \in HistoryState /\ Live(New({}, {})) = {} /\ MarkersBelow(New({}, {}))
  /\ Content(New({}, {}).current) \in Document
<1> DEFINE hs == New({}, {})
<1>1. hs \in HistoryState
  BY NewType
<1>2. /\ hs.current.pieces = {} /\ hs.current.markers = {} /\ DOMAIN hs.undo = {}
      /\ DOMAIN hs.redo = {}
  BY DEF New
<1>3. Content(hs.current) = [pieces |-> {}, markers |-> {}]
  BY <1>2 DEF Content
<1> HIDE DEF hs
<1>4. Live(hs) = {}
  BY <1>2 DEF Live
<1>5. \A d \in Contents(hs) : d.markers = {}
  BY <1>2, <1>3 DEF Contents
<1>6. [pieces |-> {}, markers |-> {}] \in Document
  BY DEF Document
<1> QED BY <1>1, <1>3, <1>4, <1>5, <1>6 DEF MarkersBelow, hs

\* A new recording satisfies the invariant.
LEMMA InitIsSessionInv ==
  ASSUME Init
  PROVE  SessionInv
<1> DEFINE hs == New({}, {})
           L  == <<Checkpoint(hs, {})>>
<1>1. /\ phase = "running" /\ h = hs /\ take = NoOpen /\ pend = {} /\ nextTake = 1
      /\ journaled = {} /\ save = NoSave /\ log = L /\ stray = <<>> /\ torn = FALSE
      /\ chunks = {} /\ durable = {} /\ bad = {} /\ wav = [t \in TakeId |-> "none"]
      /\ file = Content(hs.current) /\ fails = 0
      /\ ghost = [floorMoved |-> FALSE, unmarked |-> FALSE, resurfaced |-> FALSE,
                  closing |-> FALSE, compacted |-> FALSE, tails |-> {},
                  overlooked |-> {}]
  BY DEF Init
<1>2. GhostOK /\ ghost.resurfaced = FALSE
  <2>1. "resurfaced" \in DOMAIN ghost /\ ghost.resurfaced = FALSE
    BY <1>1
  <2> QED BY <2>1 DEF GhostOK
<1>3. hs \in HistoryState /\ Live(hs) = {} /\ MarkersBelow(hs) /\ Content(hs.current) \in Document
  BY NewHistory
<1> HIDE DEF hs
<1>4. Fine(L, wav) /\ State(L) = FloorState(hs, {}) /\ IdsIn(L) = {}
  <2>1. {} \in SUBSET Chunk /\ Live(hs) \subseteq {}
    BY <1>3
  <2> QED BY <1>3, <2>1, FineFloor
<1> HIDE DEF L
<1>5. TypeOK
  <2>1. nextTake \in 1..(MaxTake + 1)
    BY <1>1, MaxTakeIsNat
  <2> QED BY <1>1, <1>3, <2>1 DEF TypeOK
<1>6. DiskInv
  <2>1. Follows(L, <<>>, wav)
    BY <1>4, FollowsNone
  <2> QED BY <1>1, <1>4, <2>1, PlainNone DEF DiskInv
<1>7. MemoryIs(State(log), h, take, journaled, wav)
  <2>1. SameHistory(hs, hs)
    BY <1>3, SameSelf
  <2> QED BY <1>1, <1>4, <2>1 DEF MemoryIs, FloorState
<1>8. FreshInv
  BY <1>1, <1>4 DEF FreshInv, FloorState
<1>9. ~Recording
  BY <1>1 DEF Recording
<1> QED BY <1>1, <1>2, <1>5, <1>6, <1>7, <1>8, <1>9
        DEF SessionInv, Started, TakeInv, TakeMarkersAreFree

\* The invariant is inductive: no call, failed append, crash or recovery of
\* session.rs takes the memory, the journal and the store apart.
THEOREM SessionInvHolds == Spec => []SessionInv
<1>1. Init => SessionInv
  BY InitIsSessionInv
<1>2. SessionInv /\ [Next]_vars => SessionInv'
  <2> SUFFICES ASSUME SessionInv, [Next]_vars
               PROVE  SessionInv'
    OBVIOUS
  <2>1. CASE EditNext
    BY <2>1, EditNextKeeps
  <2>2. CASE TakeNext
    BY <2>2, TakeNextKeeps
  <2>3. CASE LifeNext
    BY <2>3, LifeNextKeeps
  <2>4. CASE UNCHANGED vars
    <3>1. /\ UNCHANGED <<phase, h, take, pend, nextTake, journaled, save>>
          /\ UNCHANGED <<log, stray, torn, fails>>
          /\ UNCHANGED <<chunks, durable, bad, wav, file, ghost>>
      BY <2>4 DEF vars, memory, journal, disk
    <3>2. TypeOK' /\ GhostOK' /\ fails' \in Nat
      BY <3>1 DEF SessionInv, TypeOK, GhostOK
    <3>3. DiskInv' /\ TakeMarkersAreFree' /\ (Started' <=> Started)
      BY <3>1 DEF SessionInv, DiskInv, TakeMarkersAreFree, Recording, Started
    <3>4. MemoryIs(State(log), h, take, journaled, wav)
            => MemoryIs(State(log'), h', take', journaled', wav')
      BY <3>1
    <3>5. FreshInv => FreshInv'
      BY <3>1 DEF FreshInv
    <3>6. TakeInv => TakeInv'
      BY <3>1 DEF TakeInv, Recording
    <3> QED BY <3>1, <3>2, <3>3, <3>4, <3>5, <3>6 DEF SessionInv, Recording
  <2> QED BY <2>1, <2>2, <2>3, <2>4 DEF Next
<1> QED BY <1>1, <1>2, PTL DEF Spec

-----------------------------------------------------------------------------
\* What the invariant says of the journal.
LEMMA FineLog ==
  ASSUME SessionInv
  PROVE  /\ Fine(log, wav) /\ Standing(State(log), Summary(log), wav)
         /\ Sound(log, wav)
         /\ IdsIn(log) \cup IdsIn(stray) \subseteq durable
<1>1. Follows(log, stray, wav) /\ IdsIn(log) \cup IdsIn(stray) \subseteq durable
  BY DEF SessionInv, DiskInv
<1>2. Fine(log, wav)
  BY <1>1, FollowsParts
<1> QED BY <1>1, <1>2, FineSound

\* struct Session and the files behind it keep their shape through every call,
\* failure, crash and recovery.
THEOREM SessionTypeOK == Spec => []TypeOK
<1>1. SessionInv => TypeOK
  BY DEF SessionInv
<1> QED BY <1>1, SessionInvHolds, PTL

\* The garbage collection's scan of a journal (gc.rs, summarize) and recovery's
\* replay of it (recovery.rs, replay) never disagree, however often appends
\* failed and the process crashed before.
THEOREM SessionScansAgree == Spec => []ScansAgree
<1>1. SessionInv => ScansAgree
  <2> SUFFICES ASSUME SessionInv
               PROVE  ScansAgree
    OBVIOUS
  <2>1. Agree(Summary(log), State(log))
    BY FineLog, StandingParts
  <2> QED BY <2>1 DEF ScansAgree, Agree, State, SeqsOf
<1> QED BY <1>1, SessionInvHolds, PTL

\* commit_internal syncs the store before it journals a record, and no later
\* call takes a chunk back that a record refers to.
THEOREM SessionJournaledChunksDurable == Spec => []JournaledChunksDurable
<1>1. SessionInv => JournaledChunksDurable
  <2> SUFFICES ASSUME SessionInv
               PROVE  JournaledChunksDurable
    OBVIOUS
  <2>1. IdsIn(log) \subseteq durable /\ IdsIn(stray) \subseteq durable
    BY FineLog
  <2> QED BY <2>1 DEF JournaledChunksDurable, Range, IdsIn
<1> QED BY <1>1, SessionInvHolds, PTL

\* A crash loses nothing that a call reported as done: replay rebuilds the
\* history, the chunk index and the open take that memory holds.
THEOREM SessionJournalHoldsMemory == Spec => []JournalHoldsMemory
<1>1. SessionInv => JournalHoldsMemory
  <2> SUFFICES ASSUME SessionInv, phase # "gone", ~ghost.resurfaced
               PROVE  LET got == Replay(log)
                          r   == got.state
                      IN  /\ got.consumed = Len(log)
                          /\ [r.hist EXCEPT !.next_marker_id = h.next_marker_id] = h
                          /\ r.hist.next_marker_id <= h.next_marker_id
                          /\ r.ids = journaled
                          /\ Recording => /\ take.id \in r.open
                                          /\ take.id \in r.windowed <=> take.window
                                          /\ r.markers[take.id] = take.marks
                          /\ \A t \in r.open : t = take.id \/ wav[t] = "none"
    BY DEF JournalHoldsMemory
  <2> DEFINE r == State(log)
  <2>1. MemoryIs(r, h, take, journaled, wav) /\ h \in HistoryState
    BY DEF SessionInv, TypeOK
  <2>2. r.hist \in HistoryState
    BY FineLog, StandingParts
  <2>3. Replay(log).consumed = Len(log) /\ Replay(log).state = r
    BY FineLog DEF Sound, State
  <2> HIDE DEF r
  <2>4. /\ [r.hist EXCEPT !.next_marker_id = h.next_marker_id] = h
        /\ r.hist.next_marker_id <= h.next_marker_id
    BY <2>1, <2>2, SameIs DEF MemoryIs
  <2> QED BY <2>1, <2>3, <2>4 DEF MemoryIs, Recording
<1> QED BY <1>1, SessionInvHolds, PTL

\* The marker ids of the open take are free, so commit_take and "Apply as
\* recorded" are never refused for them.
THEOREM SessionTakeMarkersAreFree == Spec => []TakeMarkersAreFree
<1>1. SessionInv => TakeMarkersAreFree
  BY DEF SessionInv
<1> QED BY <1>1, SessionInvHolds, PTL

\* begin_take never reuses the id of a take whose WAV is still there or that
\* the journal holds open.
THEOREM SessionNextTakeIsFresh == Spec => []NextTakeIsFresh
<1>1. SessionInv => NextTakeIsFresh
  <2> SUFFICES ASSUME SessionInv, Started, NEW t \in TakeId, t >= nextTake
               PROVE  wav[t] = "none" /\ t \notin State(log).open
    BY DEF NextTakeIsFresh, Started, State
  <2>1. FreshInv /\ nextTake \in Nat /\ t \in Nat
    BY StartedParts, TypeParts, MaxTakeIsNat DEF TakeId
  <2>2. /\ \A u \in State(log).open : u <= State(log).max_take
        /\ State(log).max_take \in 0..MaxTake
    BY FineLog, StandingParts
  <2>3. State(log).max_take \in Nat
    BY <2>2, MaxTakeIsNat
  <2> QED BY <2>1, <2>2, <2>3 DEF FreshInv
<1> QED BY <1>1, SessionInvHolds, PTL

\* The markers of the take are somewhere.
MarkersStay ==
  MarkersOf(take) \cup pend \subseteq h'.current.markers \cup MarkersOf(take') \cup pend'

\* Without a take there is nothing to keep ...
LEMMA NoTakeNoMarkers ==
  ASSUME ~Recording, pend = {}
  PROVE  MarkersStay
BY DEF MarkersStay, MarkersOf, Recording

\* ... a call that does not touch the take keeps all ...
LEMMA QuietKeepsMarkers ==
  ASSUME take' = take, pend' = pend
  PROVE  MarkersStay
BY DEF MarkersStay, MarkersOf

\* ... and so does one that adds to it.
LEMMA MarksOnlyGrow ==
  ASSUME Recording, take' # NoOpen, take.marks \subseteq take'.marks, pend' = pend
  PROVE  MarkersStay
BY DEF MarkersStay, MarkersOf, Recording

\* Edits and saves do not touch the take.
LEMMA EditNextKeepsMarkers ==
  ASSUME EditNext
  PROVE  MarkersStay
<1>1. take' = take /\ pend' = pend
  <2>1. CASE WriteChunk
    BY <2>1 DEF WriteChunk, memory
  <2>2. CASE \E p \in SUBSET Chunk, M \in CueSets : SetFloor(p, M)
    BY <2>2 DEF SetFloor
  <2>3. CASE \E e \in Edits : CommitEdit(e)
    BY <2>3 DEF CommitEdit
  <2>4. CASE Undo
    BY <2>4 DEF Undo, Step
  <2>5. CASE Redo
    BY <2>5 DEF Redo, Step
  <2>6. CASE \E n \in 1..MaxSeq : DropOldestUndo(n)
    BY <2>6 DEF DropOldestUndo, Step
  <2>7. CASE BeginSave
    BY <2>7 DEF BeginSave
  <2>8. CASE WriteFile
    BY <2>8 DEF WriteFile
  <2>9. CASE MarkSaved
    BY <2>9 DEF MarkSaved
  <2> QED BY <2>1, <2>2, <2>3, <2>4, <2>5, <2>6, <2>7, <2>8, <2>9 DEF EditNext
<1> QED BY <1>1, QuietKeepsMarkers

\* A commit puts its markers into the document.
LEMMA CommitTakeKeepsMarkers ==
  ASSUME TypeOK, NEW del, CommitTake(del)
  PROVE  MarkersStay
<1> DEFINE e == TakeEdit(del, take)
<1>1. /\ Recording /\ pend = {} /\ pend' = pend
      /\ h' = Commit(h, e) \/ take' = take
  BY DEF CommitTake, Idle
<1>2. CASE h' = Commit(h, e)
  <2>1. e.madd = take.marks
    BY DEF TakeEdit
  <2>2. h \in HistoryState
    BY TypeParts
  <2>3. Commit(h, e).current = Prepared(h, e)
    BY <2>2 DEF Commit, HistoryState
  <2>4. Prepared(h, e).markers = (h.current.markers \ e.mdel) \cup e.madd
    BY DEF Prepared
  <2> HIDE DEF e
  <2>5. take.marks \subseteq h'.current.markers
    BY <1>2, <2>1, <2>3, <2>4
  <2> QED BY <1>1, <2>5 DEF MarkersStay, MarkersOf, Recording
<1>3. CASE take' = take
  BY <1>1, <1>3, QuietKeepsMarkers
<1> QED BY <1>1, <1>2, <1>3

\* So does each later step of cancel_take.
LEMMA CommitPendingKeepsMarkers ==
  ASSUME TypeOK, fails \in Nat, CommitPending, fails' = fails
  PROVE  MarkersStay
<1> DEFINE m == CHOOSE k \in pend : \A j \in pend : k <= j
           e == [del |-> {}, ins |-> {}, mdel |-> {}, madd |-> {m}]
<1>1. /\ take' = take
      /\ \/ h' = Commit(h, e) /\ pend' = pend \ {m}
         \/ CommitFails(h.next_seq, e, NoTake, FALSE)
      /\ Prepares(h, e)
  BY DEF CommitPending, CanCommit
<1>2. ~CommitFails(h.next_seq, e, NoTake, FALSE)
  <2>1. \A q, g, t, sh : CommitFails(q, g, t, sh) => fails' = fails + 1
    BY DEF CommitFails, WriteFails
  <2>2. fails + 1 # fails
    OBVIOUS
  <2>3. CommitFails(h.next_seq, e, NoTake, FALSE) => FALSE
    <3> HIDE DEF e
    <3>1. CommitFails(h.next_seq, e, NoTake, FALSE) => fails' = fails + 1
      BY <2>1
    <3> QED BY <2>2, <3>1
  <2> HIDE DEF e
  <2> QED BY <2>3
<1>3. h' = Commit(h, e) /\ pend' = pend \ {m}
  BY <1>1, <1>2
<1>4. take = NoOpen \/ take # NoOpen
  OBVIOUS
<1>5. e.madd = {m} /\ e.mdel = {}
  OBVIOUS
<1>6. h \in HistoryState
  BY TypeParts
<1> HIDE DEF e, m
<1>7. Commit(h, e).current = Prepared(h, e)
  BY <1>6 DEF Commit, HistoryState
<1>8. Prepared(h, e).markers = h.current.markers \cup {m}
  BY <1>5 DEF Prepared
<1>9. m \in h'.current.markers
  BY <1>3, <1>7, <1>8
<1> QED BY <1>1, <1>3, <1>9 DEF MarkersStay, MarkersOf

\* A discard gives them up, and no other call about takes does.
LEMMA TakeNextKeepsMarkers ==
  ASSUME SessionInv, TakeNext, fails' = fails
  PROVE  MarkersStay \/ Last(log').type = "take_discard"
<1>0. TypeOK /\ fails \in Nat /\ log \in Seq(Record)
  <2>1. log \in JournalRecords
    BY FineLog DEF Fine
  <2> QED BY <2>1 DEF SessionInv, JournalRecords
<1>1. ASSUME NEW aligned \in BOOLEAN, BeginTake(aligned)
      PROVE  MarkersStay
  BY <1>1, NoTakeNoMarkers DEF BeginTake, Idle
<1>2. CASE NoteTakeWindow
  <2>1. Recording /\ pend' = pend
        /\ (take' = [take EXCEPT !.window = TRUE] \/ take' = take)
    BY <1>2 DEF NoteTakeWindow
  <2>2. CASE take' = [take EXCEPT !.window = TRUE]
    <3>1. take \in TakeState
      BY <1>0, <2>1, TypeParts
    <3>2. take'.marks = take.marks /\ take'.id = take.id /\ take.id \in TakeId
      BY <2>2, <3>1 DEF TakeState
    <3>3. take' # NoOpen
      BY <3>2, MaxTakeIsNat DEF NoOpen, NoTake, TakeId
    <3> QED BY <2>1, <3>2, <3>3, MarksOnlyGrow
  <2> QED BY <2>1, <2>2, QuietKeepsMarkers
<1>3. CASE NoteTakeMarker
  <2> DEFINE m == h.next_marker_id
  <2>1. Recording /\ pend' = pend
        /\ (take' = [take EXCEPT !.marks = @ \cup {m}] \/ take' = take)
    BY <1>3 DEF NoteTakeMarker
  <2>2. CASE take' = [take EXCEPT !.marks = @ \cup {m}]
    <3>1. take \in TakeState
      BY <1>0, <2>1, TypeParts
    <3>2. take'.marks = take.marks \cup {m} /\ take'.id = take.id /\ take.id \in TakeId
      BY <2>2, <3>1 DEF TakeState
    <3>3. take' # NoOpen
      BY <3>2, MaxTakeIsNat DEF NoOpen, NoTake, TakeId
    <3> QED BY <2>1, <3>2, <3>3, MarksOnlyGrow
  <2> QED BY <2>1, <2>2, QuietKeepsMarkers
<1>4. CASE Capture
  <2>1. Recording /\ pend' = pend
        /\ (take' = [take EXCEPT !.ids = @ \cup {next}] \/ take' = [take EXCEPT !.short = TRUE])
    BY <1>4 DEF Capture
  <2>2. take \in TakeState
    BY <1>0, <2>1, TypeParts
  <2>3. take'.marks = take.marks /\ take'.id = take.id /\ take.id \in TakeId
    BY <2>1, <2>2 DEF TakeState
  <2>4. take' # NoOpen
    BY <2>3, MaxTakeIsNat DEF NoOpen, NoTake, TakeId
  <2> QED BY <2>1, <2>3, <2>4, MarksOnlyGrow
<1>5. ASSUME NEW del \in SUBSET Chunk, CommitTake(del)
      PROVE  MarkersStay
  BY <1>0, <1>5, CommitTakeKeepsMarkers
<1>6. CASE DiscardTake
  <2> DEFINE x == TakeDiscard(take.id)
  <2>1. pend' = pend /\ (Writes(<<x>>) \/ take' = take)
    BY <1>6 DEF DiscardTake
  <2>2. CASE Writes(<<x>>)
    <3>1. x.type = "take_discard"
      BY DEF TakeDiscard
    <3> DEFINE E == Record \cup {x}
    <3>2. log \in Seq(E) /\ x \in E
      BY <1>0
    <3> HIDE DEF x, E
    <3>3. log' = Append(log, x)
      <4>1. log \o <<x>> = Append(log, x)
        BY <3>2, OneIs
      <4>2. log' = log \o <<x>>
        BY <2>2 DEF Writes
      <4> QED BY <4>1, <4>2
    <3>4. Last(log') = x
      <4>1. Len(log') = Len(log) + 1 /\ log'[Len(log) + 1] = x
        BY <3>2, <3>3, AppendProperties
      <4> QED BY <4>1 DEF Last
    <3> QED BY <3>1, <3>4
  <2> QED BY <2>1, <2>2, QuietKeepsMarkers
<1>7. CASE CancelTake
  <2>1. \/ pend' = Pending(take) /\ pend = {} /\ Recording
        \/ take' = take /\ pend' = pend
    BY <1>7 DEF CancelTake, Idle
  <2>2. CASE pend' = Pending(take) /\ pend = {} /\ Recording
    BY <2>2 DEF MarkersStay, MarkersOf, Pending, Recording
  <2> QED BY <2>1, <2>2, QuietKeepsMarkers
<1>8. CASE CommitPending
  BY <1>0, <1>8, CommitPendingKeepsMarkers
<1> QED BY <1>1, <1>2, <1>3, <1>4, <1>5, <1>6, <1>7, <1>8 DEF TakeNext

\* The markers noted during a take follow it into the document, also one at a
\* time after it was cancelled (session.rs, cancel_take).
THEOREM SessionTakeMarkersAreKept == Spec => TakeMarkersAreKept
<1> DEFINE Kept == phase = "running" /\ phase' = "running" /\ fails' = fails =>
                     \/ Last(log').type = "take_discard"
                     \/ MarkersOf(take) \cup pend \subseteq
                          h'.current.markers \cup MarkersOf(take') \cup pend'
<1>1. SessionInv /\ [Next]_vars => [Kept]_vars
  <2> SUFFICES ASSUME SessionInv, Next, phase = "running", phase' = "running",
                      fails' = fails
               PROVE  Last(log').type = "take_discard" \/ MarkersStay
    BY DEF MarkersStay
  <2>1. CASE EditNext
    BY <2>1, EditNextKeepsMarkers
  <2>2. CASE TakeNext
    BY <2>2, TakeNextKeepsMarkers
  <2>3. CASE LifeNext
    <3>1. Compact
      BY <2>3 DEF LifeNext, CloseSession, Crash, Ends, Recover, RecoverDiscard, RecoverApply,
                  CollectGarbage
    <3> QED BY <3>1, NoTakeNoMarkers DEF Compact, Idle
  <2> QED BY <2>1, <2>2, <2>3 DEF Next
<1>2. [][Kept]_vars <=> TakeMarkersAreKept
  BY DEF TakeMarkersAreKept
<1> HIDE DEF Kept
<1> QED BY <1>1, <1>2, SessionInvHolds, PTL DEF Spec

-----------------------------------------------------------------------------
(* What most calls do: they append the records of one call and put no audio *)
(* into the document but what it has, what was just written, and the take.  *)

GhostType == [floorMoved : BOOLEAN, unmarked : BOOLEAN, resurfaced : BOOLEAN,
              closing : BOOLEAN, compacted : BOOLEAN, tails : SUBSET TakeId,
              overlooked : SUBSET Chunk]

TakeIds(t) == IF t = NoOpen THEN {} ELSE t.ids

GhostGrows(T) ==
  /\ ghost' \in GhostType /\ Grows(ghost, ghost')
  /\ ghost'.compacted = ghost.compacted /\ ghost'.overlooked = ghost.overlooked
  /\ ghost'.tails \subseteq ghost.tails \cup T

LogGrows(pre) ==
  /\ log' = log \o pre
  /\ CallRecs(pre, ghost') /\ CallRecs(stray', ghost')
  /\ GhostGrows(ShortIn(pre))

\* N: the chunk that was written, if one was.
AudioGrows(pre, N) ==
  /\ \/ N = {} /\ next' = next
     \/ N = {next} /\ next \in Chunk /\ next' = next + 1
  /\ chunks' = chunks \cup N
  /\ journaled \subseteq journaled'
  /\ InsIn(pre) \subseteq Live(h) \cup (chunks \ journaled) \cup N \cup TakeIds(take)
  /\ TakeIds(take') \subseteq TakeIds(take) \cup N

Ordinary(pre, N) ==
  /\ Started
  /\ LogGrows(pre) /\ AudioGrows(pre, N)
  /\ UNCHANGED <<save, file, bad>>
  /\ phase' \in {"running", "down"}
  /\ phase' = "down" => h' = h

\* The journal, the history and the file the user has, against each other.
LogInv ==
  /\ ghost \in GhostType
  /\ AllSane(log)
  /\ log[1].ids = Live(log[1].hist)
  /\ CallRecs(stray, ghost)
  /\ phase = "choice" => stray = <<>>
  /\ Last(log).type = "close" => ghost.closing
  /\ ghost.compacted \/ ghost.tails \subseteq Summary(log).truncated
  /\ save # NoSave /\ save.state = "written" => ghost.unmarked /\ file = save.doc

\* The parts of the ghost.
LEMMA GhostParts ==
  ASSUME NEW g \in GhostType
  PROVE  /\ g.floorMoved \in BOOLEAN /\ g.unmarked \in BOOLEAN /\ g.resurfaced \in BOOLEAN
         /\ g.closing \in BOOLEAN /\ g.compacted \in BOOLEAN /\ g.tails \in SUBSET TakeId
         /\ g.overlooked \in SUBSET Chunk
         /\ \A b \in BOOLEAN :
              /\ [g EXCEPT !.floorMoved = b] \in GhostType
              /\ [g EXCEPT !.unmarked = b] \in GhostType
              /\ [g EXCEPT !.resurfaced = b] \in GhostType
              /\ [g EXCEPT !.closing = b] \in GhostType
BY DEF GhostType

\* What a call changes in it.
LEMMA GhostSteps ==
  ASSUME NEW g \in GhostType, NEW b \in BOOLEAN
  PROVE  /\ LET f == [g EXCEPT !.floorMoved = b] IN
              f.floorMoved = b /\ f.unmarked = g.unmarked /\ f.closing = g.closing
                /\ f.compacted = g.compacted /\ f.tails = g.tails /\ f.resurfaced = g.resurfaced
                /\ f.overlooked = g.overlooked
         /\ LET f == [g EXCEPT !.unmarked = b] IN
              f.unmarked = b /\ f.floorMoved = g.floorMoved /\ f.closing = g.closing
                /\ f.compacted = g.compacted /\ f.tails = g.tails /\ f.resurfaced = g.resurfaced
                /\ f.overlooked = g.overlooked
         /\ LET f == [g EXCEPT !.closing = b] IN
              f.closing = b /\ f.floorMoved = g.floorMoved /\ f.unmarked = g.unmarked
                /\ f.compacted = g.compacted /\ f.tails = g.tails /\ f.resurfaced = g.resurfaced
                /\ f.overlooked = g.overlooked
         /\ LET f == [g EXCEPT !.resurfaced = b] IN
              f.resurfaced = b /\ f.floorMoved = g.floorMoved /\ f.unmarked = g.unmarked
                /\ f.compacted = g.compacted /\ f.tails = g.tails /\ f.closing = g.closing
                /\ f.overlooked = g.overlooked
BY DEF GhostType

\* A ghost that stays what it was.
LEMMA GhostStays ==
  ASSUME ghost \in GhostType, ghost' = ghost, NEW T
  PROVE  GhostGrows(T)
BY DEF GhostGrows, Grows

\* The journal a session has.
LEMMA LogIs ==
  ASSUME SessionInv
  PROVE  Fine(log, wav) /\ log \in JournalRecords /\ log \in Seq(Record) /\ log \o <<>> = log
<1>1. Fine(log, wav)
  BY FineLog
<1>2. log \in JournalRecords
  BY <1>1 DEF Fine
<1>3. log \in Seq(Record)
  BY <1>2, JournalIs
<1> QED BY <1>1, <1>2, <1>3

\* No records are the records of a call.
LEMMA NoRecords ==
  ASSUME NEW g
  PROVE  CallRecs(<<>>, g) /\ InsIn(<<>>) = {} /\ ShortIn(<<>>) = {}
<1>1. \A x : InsIn(<<>>) = {} /\ ShortIn(<<>>) = {}
  BY InsOfCall
<1> QED BY <1>1 DEF CallRecs

\* An append that succeeds.
LEMMA WritesGrow ==
  ASSUME SessionInv, NEW recs, Writes(recs), CallRecs(recs, ghost'), GhostGrows(ShortIn(recs))
  PROVE  LogGrows(recs)
<1>1. log' = log \o recs /\ stray' = <<>>
  BY DEF Writes
<1> QED BY <1>1, NoRecords DEF LogGrows

\* One that fails.
LEMMA FailGrows ==
  ASSUME SessionInv, NEW recs, WriteFails(recs), CallRecs(recs, ghost'), GhostGrows({})
  PROVE  LogGrows(<<>>)
<1>1. log' = log /\ stray' \in {<<>>, recs}
  BY DEF WriteFails
<1>2. log' = log \o <<>> /\ ShortIn(<<>>) = {} /\ CallRecs(<<>>, ghost')
  BY <1>1, LogIs, NoRecords
<1> QED BY <1>1, <1>2 DEF LogGrows

\* One that fails in a call that drops the session.
LEMMA EndGrows ==
  ASSUME SessionInv, ghost \in GhostType, NEW recs, NEW g \in GhostType,
         CallRecs(recs, g), Grows(ghost, g), g.compacted = ghost.compacted,
         g.tails = ghost.tails, g.overlooked = ghost.overlooked, FailsAndEnds(recs, g)
  PROVE  \E k \in 0..Len(recs) : LogGrows(SubSeq(recs, 1, k))
<1>1. PICK k \in 0..Len(recs) :
        /\ log' = log \o SubSeq(recs, 1, k)
        /\ ghost' = [g EXCEPT !.resurfaced = @ \/ k > 0]
  BY DEF FailsAndEnds
<1>2. stray' = <<>>
  BY DEF FailsAndEnds
<1>3. PICK b \in BOOLEAN : ghost' = [g EXCEPT !.resurfaced = b]
  <2> DEFINE b == g.resurfaced \/ k > 0
  <2>1. b \in BOOLEAN
    OBVIOUS
  <2>2. ghost' = [g EXCEPT !.resurfaced = b]
    BY <1>1
  <2> HIDE DEF b
  <2> QED BY <2>1, <2>2
<1>4. /\ ghost' \in GhostType /\ Grows(g, ghost') /\ Grows(ghost, ghost')
      /\ ghost'.compacted = ghost.compacted /\ ghost'.tails = ghost.tails
      /\ ghost'.overlooked = ghost.overlooked
  <2>1. /\ ghost'.floorMoved = g.floorMoved /\ ghost'.unmarked = g.unmarked
        /\ ghost'.closing = g.closing /\ ghost'.compacted = g.compacted
        /\ ghost'.tails = g.tails /\ ghost'.overlooked = g.overlooked
    BY <1>3, GhostSteps
  <2>2. ghost' \in GhostType
    BY <1>3, GhostParts
  <2>3. Grows(g, ghost')
    BY ONLY <2>1 DEF Grows
  <2>4. Grows(ghost, ghost')
    BY <2>1 DEF Grows
  <2> QED BY <2>1, <2>2, <2>3, <2>4
<1>5. CallRecs(SubSeq(recs, 1, k), ghost')
  <2>1. CallRecs(recs, ghost')
    BY <1>4, CallGrows
  <2> QED BY <1>1, <2>1, CallPrefix
<1>6. GhostGrows(ShortIn(SubSeq(recs, 1, k)))
  BY <1>4 DEF GhostGrows
<1>7. LogGrows(SubSeq(recs, 1, k))
  BY <1>1, <1>2, <1>5, <1>6, NoRecords DEF LogGrows
<1> QED BY <1>7

\* A call that writes no audio.
LEMMA PlainCall ==
  ASSUME SessionInv, LogInv, Started, NEW pre, LogGrows(pre),
         InsIn(pre) \subseteq Live(h) \cup (chunks \ journaled) \cup TakeIds(take),
         UNCHANGED <<chunks, next, save, file, bad>>, journaled \subseteq journaled',
         TakeIds(take') \subseteq TakeIds(take),
         phase' \in {"running", "down"}, phase' = "down" => h' = h
  PROVE  Ordinary(pre, {})
BY DEF Ordinary, AudioGrows

\* One that appends one record that is no edit.
LEMMA QuietCall ==
  ASSUME SessionInv, LogInv, Started, NEW x, Backed(x, ghost'), x.type # "edit",
         Writes(<<x>>) \/ WriteFails(<<x>>), GhostGrows({}),
         UNCHANGED <<chunks, next, journaled, save, file, bad>>,
         TakeIds(take') \subseteq TakeIds(take), phase' = "running"
  PROVE  \E pre, N : Ordinary(pre, N)
<1>1. CallRecs(<<x>>, ghost') /\ InsIn(<<x>>) = {} /\ ShortIn(<<x>>) = {}
  BY OneRecord
<1>2. InsIn(<<>>) = {}
  BY NoRecords
<1>3. CASE Writes(<<x>>)
  <2> DEFINE recs == <<x>>
  <2> HIDE DEF recs
  <2>1. Writes(recs) /\ CallRecs(recs, ghost') /\ InsIn(recs) = {} /\ ShortIn(recs) = {}
    BY <1>1, <1>3 DEF recs
  <2>2. LogGrows(recs)
    BY <2>1, WritesGrow
  <2>3. Ordinary(recs, {})
    BY <2>1, <2>2, PlainCall
  <2> QED BY <2>3
<1>4. CASE WriteFails(<<x>>)
  <2> DEFINE recs == <<x>>
  <2> HIDE DEF recs
  <2>1. WriteFails(recs) /\ CallRecs(recs, ghost')
    BY <1>1, <1>4 DEF recs
  <2>2. LogGrows(<<>>)
    BY <2>1, FailGrows
  <2>3. Ordinary(<<>>, {})
    BY <1>2, <2>2, PlainCall
  <2> QED BY <2>3
<1> QED BY <1>3, <1>4

\* One that commits an edit.
LEMMA CommitsCall ==
  ASSUME SessionInv, LogInv, Started, NEW q \in Nat, NEW e \in EditOps,
         NEW t \in TakeId \cup {NoTake}, NEW sh \in BOOLEAN,
         CommitRecords(q, e, t, sh), GhostGrows(ShortOf(t, sh)),
         e.ins \subseteq Live(h) \cup (chunks \ journaled) \cup TakeIds(take),
         UNCHANGED <<chunks, next, save, file, bad>>,
         TakeIds(take') \subseteq TakeIds(take), phase' = "running"
  PROVE  \E pre, N : Ordinary(pre, N)
<1> DEFINE new  == e.ins \ journaled
           recs == CommitRecs(new, q, e, t, sh)
<1>1. Writes(recs) /\ journaled \subseteq journaled'
  BY DEF CommitRecords, CommitRecs
<1>2. new \in SUBSET Chunk
  BY DEF EditOps
<1> HIDE DEF new
<1>3. CallRecs(recs, ghost') /\ InsIn(recs) = e.ins /\ ShortIn(recs) = ShortOf(t, sh)
  BY <1>2, CommitCall
<1> HIDE DEF recs
<1>4. LogGrows(recs)
  BY <1>1, <1>3, WritesGrow
<1>5. Ordinary(recs, {})
  BY <1>1, <1>3, <1>4, PlainCall
<1> QED BY <1>5

\* One that fails to.
LEMMA CommitFailsCall ==
  ASSUME SessionInv, LogInv, Started, NEW q \in Nat, NEW e \in EditOps,
         NEW t \in TakeId \cup {NoTake}, NEW sh \in BOOLEAN,
         CommitFails(q, e, t, sh), GhostGrows({}),
         UNCHANGED <<chunks, next, save, file, bad>>,
         TakeIds(take') \subseteq TakeIds(take), phase' = "running"
  PROVE  \E pre, N : Ordinary(pre, N)
<1> DEFINE new  == e.ins \ journaled
           recs == CommitRecs(new, q, e, t, sh)
<1>1. WriteFails(recs) /\ journaled \subseteq journaled'
  BY DEF CommitFails, CommitRecs
<1>2. new \in SUBSET Chunk
  BY DEF EditOps
<1> HIDE DEF new
<1>3. CallRecs(recs, ghost')
  BY <1>2, CommitCall
<1> HIDE DEF recs
<1>4. LogGrows(<<>>)
  BY <1>1, <1>3, FailGrows
<1>5. InsIn(<<>>) = {}
  BY NoRecords
<1>6. Ordinary(<<>>, {})
  BY <1>1, <1>4, <1>5, PlainCall
<1> QED BY <1>6

\* The ghost as it was.
LEMMA GhostSame ==
  ASSUME LogInv, ghost' = ghost
  PROVE  \A T : GhostGrows(T)
<1>1. ghost \in GhostType
  BY DEF LogInv
<1> QED BY <1>1, GhostStays

\* No call at all.
LEMMA NoCall ==
  ASSUME SessionInv, LogInv, UNCHANGED <<log, stray, ghost>>
  PROVE  LogGrows(<<>>)
<1>1. log' = log \o <<>>
  BY LogIs
<1>2. CallRecs(<<>>, ghost') /\ CallRecs(stray', ghost') /\ GhostGrows(ShortIn(<<>>))
  BY NoRecords, GhostSame DEF LogInv
<1> QED BY <1>1, <1>2 DEF LogGrows

\* The records that are no edits, and what they need to show.
LEMMA BackedRecords ==
  ASSUME NEW g
  PROVE  /\ \A q \in Nat : /\ Backed(UndoRec(q), g) /\ UndoRec(q).type # "edit"
                           /\ Backed(RedoRec(q), g) /\ RedoRec(q).type # "edit"
                           /\ g.floorMoved => Backed(DropUndo(q), g)
                           /\ g.unmarked => Backed(Saved(q), g)
                           /\ DropUndo(q).type # "edit" /\ Saved(q).type # "edit"
         /\ \A t \in TakeId : /\ Backed(TakeWindow(t), g) /\ TakeWindow(t).type # "edit"
                              /\ Backed(TakeDiscard(t), g) /\ TakeDiscard(t).type # "edit"
                              /\ Backed(TakeCancel(t), g) /\ TakeCancel(t).type # "edit"
         /\ \A t \in TakeId, m \in MarkerId : /\ Backed(TakeMarker(t, m), g)
                                              /\ TakeMarker(t, m).type # "edit"
         /\ \A t \in TakeId, al \in BOOLEAN : /\ Backed(TakeBegin(t, al), g)
                                              /\ TakeBegin(t, al).type # "edit"
                                              /\ TakeBegin(t, al) \in BeginRecord
         /\ g.closing => Backed(Close, g)
         /\ Close.type # "edit"
<1>1. \A q \in Nat : /\ Backed(UndoRec(q), g) /\ UndoRec(q).type # "edit"
                     /\ Backed(RedoRec(q), g) /\ RedoRec(q).type # "edit"
  BY RecordsAre DEF Backed, UndoRec, RedoRec
<1>2. \A q \in Nat : /\ g.floorMoved => Backed(DropUndo(q), g)
                     /\ g.unmarked => Backed(Saved(q), g)
                     /\ DropUndo(q).type # "edit" /\ Saved(q).type # "edit"
  BY RecordsAre DEF Backed, DropUndo, Saved
<1>3. \A t \in TakeId : /\ Backed(TakeWindow(t), g) /\ TakeWindow(t).type # "edit"
                        /\ Backed(TakeDiscard(t), g) /\ TakeDiscard(t).type # "edit"
                        /\ Backed(TakeCancel(t), g) /\ TakeCancel(t).type # "edit"
  BY RecordsAre DEF Backed, TakeWindow, TakeDiscard, TakeCancel
<1>4. \A t \in TakeId, m \in MarkerId : /\ Backed(TakeMarker(t, m), g)
                                        /\ TakeMarker(t, m).type # "edit"
  BY RecordsAre DEF Backed, TakeMarker
<1>5. \A t \in TakeId, al \in BOOLEAN : /\ Backed(TakeBegin(t, al), g)
                                        /\ TakeBegin(t, al).type # "edit"
                                        /\ TakeBegin(t, al) \in BeginRecord
  BY RecordsAre DEF Backed, TakeBegin, BeginRecord
<1>6. (g.closing => Backed(Close, g)) /\ Close.type # "edit"
  BY RecordsAre DEF Backed, Close
<1> QED BY <1>1, <1>2, <1>3, <1>4, <1>5, <1>6

\* The calls about edits.
LEMMA WriteChunkCalls ==
  ASSUME SessionInv, LogInv, WriteChunk
  PROVE  \E pre, N : Ordinary(pre, N)
<1>1. /\ Started /\ next \in Chunk /\ chunks' = chunks \cup {next} /\ next' = next + 1
      /\ UNCHANGED <<log, stray, ghost, save, file, bad, take, journaled, phase>>
      /\ phase = "running"
  BY DEF WriteChunk, Idle, Started, memory, journal
<1>2. LogGrows(<<>>) /\ InsIn(<<>>) = {}
  BY <1>1, NoCall, NoRecords
<1>3. Ordinary(<<>>, {next})
  BY <1>1, <1>2 DEF Ordinary, AudioGrows
<1> QED BY <1>3

\* An edit is an ordinary call: it brings in audio the document has or a job wrote.
LEMMA CommitEditCalls ==
  ASSUME SessionInv, LogInv, NEW e \in Edits, CommitEdit(e)
  PROVE  \E pre, N : Ordinary(pre, N)
<1>1. /\ Started /\ phase' = "running" /\ e.ins \subseteq Live(h) \cup (chunks \ journaled)
      /\ \/ CommitRecords(h.next_seq, e, NoTake, FALSE)
         \/ CommitFails(h.next_seq, e, NoTake, FALSE)
      /\ UNCHANGED <<save, chunks, next, bad, file, ghost, take>>
  BY DEF CommitEdit, Idle, Started
<1>2. e \in EditOps /\ h.next_seq \in Nat /\ NoTake \in TakeId \cup {NoTake}
  BY <1>1, EditsAreOps, StartedParts, HistoryParts DEF TypeOK
<1>3. GhostGrows({}) /\ GhostGrows(ShortOf(NoTake, FALSE))
  BY <1>1, GhostSame
<1>4. CASE CommitRecords(h.next_seq, e, NoTake, FALSE)
  BY <1>1, <1>2, <1>3, <1>4, CommitsCall
<1>5. CASE CommitFails(h.next_seq, e, NoTake, FALSE)
  BY <1>1, <1>2, <1>3, <1>5, CommitFailsCall
<1> QED BY <1>1, <1>4, <1>5

\* So is a call of one record that is no edit.
LEMMA StepCalls ==
  ASSUME SessionInv, LogInv, Idle, NEW x, NEW hs, Step(x, hs), Backed(x, ghost'),
         x.type # "edit", GhostGrows({})
  PROVE  \E pre, N : Ordinary(pre, N)
<1>1. /\ Started /\ phase' = "running"
      /\ Writes(<<x>>) \/ WriteFails(<<x>>)
      /\ UNCHANGED <<chunks, next, journaled, save, file, bad>>
      /\ TakeIds(take') \subseteq TakeIds(take)
  BY DEF Step, Idle, Started, disk
<1> QED BY <1>1, QuietCall

\* Undo and redo are.
LEMMA UndoCalls ==
  ASSUME SessionInv, LogInv, Undo \/ Redo
  PROVE  \E pre, N : Ordinary(pre, N)
<1>1. /\ Idle /\ ghost' = ghost
      /\ \/ h.undo # <<>> /\ Step(UndoRec(Top(h.undo).seq), Undone(h))
         \/ h.redo # <<>> /\ Step(RedoRec(Top(h.redo).seq), Redone(h))
  BY DEF Undo, Redo
<1>2. GhostGrows({})
  BY <1>1, GhostSame
<1>3. h \in HistoryState
  BY DEF SessionInv, TypeOK
<1>4. CASE h.undo # <<>> /\ Step(UndoRec(Top(h.undo).seq), Undone(h))
  <2>1. Top(h.undo).seq \in Nat
    BY <1>3, <1>4, StackShape, PopType DEF Entry
  <2>2. Backed(UndoRec(Top(h.undo).seq), ghost') /\ UndoRec(Top(h.undo).seq).type # "edit"
    BY <2>1, BackedRecords
  <2> QED BY <1>1, <1>2, <1>4, <2>2, StepCalls
<1>5. CASE h.redo # <<>> /\ Step(RedoRec(Top(h.redo).seq), Redone(h))
  <2>1. Top(h.redo).seq \in Nat
    BY <1>3, <1>5, StackShape, PopType DEF Entry
  <2>2. Backed(RedoRec(Top(h.redo).seq), ghost') /\ RedoRec(Top(h.redo).seq).type # "edit"
    BY <2>1, BackedRecords
  <2> QED BY <1>1, <1>2, <1>5, <2>2, StepCalls
<1> QED BY <1>1, <1>4, <1>5

\* A drop of the oldest entries is, and it notes that the floor moved.
LEMMA DropCalls ==
  ASSUME SessionInv, LogInv, NEW n, DropOldestUndo(n)
  PROVE  \E pre, N : Ordinary(pre, N)
<1>1. /\ Idle /\ n \in 1..Len(h.undo) /\ Step(DropUndo(n), DroppedOldest(h, n))
      /\ ghost' = [ghost EXCEPT !.floorMoved = TRUE]
  BY DEF DropOldestUndo
<1>2. n \in Nat
  BY <1>1
<1>3. ghost \in GhostType
  BY DEF LogInv
<1>4. PICK b \in BOOLEAN : b /\ ghost' = [ghost EXCEPT !.floorMoved = b]
  BY <1>1
<1>5. /\ ghost'.floorMoved = b /\ ghost'.unmarked = ghost.unmarked
      /\ ghost'.closing = ghost.closing /\ ghost'.compacted = ghost.compacted
      /\ ghost'.tails = ghost.tails /\ ghost'.overlooked = ghost.overlooked
      /\ ghost' \in GhostType
  <2>1. ghost' \in GhostType
    BY <1>3, <1>4, GhostParts
  <2>2. /\ ghost'.floorMoved = b /\ ghost'.unmarked = ghost.unmarked
        /\ ghost'.closing = ghost.closing /\ ghost'.compacted = ghost.compacted
        /\ ghost'.tails = ghost.tails /\ ghost'.overlooked = ghost.overlooked
    BY <1>3, <1>4, GhostSteps
  <2> QED BY <2>1, <2>2
<1>6. GhostGrows({}) /\ ghost'.floorMoved
  BY <1>4, <1>5 DEF GhostGrows, Grows
<1>7. Backed(DropUndo(n), ghost') /\ DropUndo(n).type # "edit"
  BY <1>2, <1>6, BackedRecords
<1> QED BY <1>1, <1>6, <1>7, StepCalls

\* The calls about takes.
LEMMA TakeIs ==
  ASSUME SessionInv, Recording
  PROVE  /\ take \in TakeState /\ take.id \in TakeId /\ take.marks \in SUBSET MarkerId
         /\ take.ids \in SUBSET Chunk /\ take.short \in BOOLEAN /\ TakeIds(take) = take.ids
         /\ h \in HistoryState /\ TakeIds(NoOpen) = {}
<1>1. TypeOK
  BY DEF SessionInv
<1> QED BY <1>1, TypeParts DEF TakeIds, Recording

\* The notes on a take, its discard and its cancellation are.
LEMMA NoteCalls ==
  ASSUME SessionInv, LogInv, NoteTakeWindow \/ NoteTakeMarker \/ DiscardTake \/ CancelTake
  PROVE  \E pre, N : Ordinary(pre, N)
<1>1. /\ Idle /\ Recording /\ phase' = phase
      /\ UNCHANGED <<chunks, next, journaled, save, file, bad, ghost>>
  BY DEF NoteTakeWindow, NoteTakeMarker, DiscardTake, CancelTake, disk
<1>2. /\ take \in TakeState /\ take.id \in TakeId /\ TakeIds(take) = take.ids
      /\ TakeIds(NoOpen) = {}
  BY <1>1, TakeIs
<1>3. \A b, S : TakeIds([take EXCEPT !.window = b]) \subseteq take.ids
                /\ TakeIds([take EXCEPT !.marks = S]) \subseteq take.ids
  BY <1>2 DEF TakeIds, TakeState
<1>4. TakeIds(take') \subseteq TakeIds(take)
  <2>1. take' \in {take, NoOpen, [take EXCEPT !.window = TRUE],
                   [take EXCEPT !.marks = @ \cup {h.next_marker_id}]}
    BY DEF NoteTakeWindow, NoteTakeMarker, DiscardTake, CancelTake
  <2> QED BY <1>2, <1>3, <2>1
<1>5. Started /\ phase' = "running" /\ GhostGrows({})
  BY <1>1, GhostSame DEF Started, Idle
<1>6. CASE NoteTakeWindow
  <2>1. Writes(<<TakeWindow(take.id)>>) \/ WriteFails(<<TakeWindow(take.id)>>)
    BY <1>6 DEF NoteTakeWindow
  <2>2. Backed(TakeWindow(take.id), ghost') /\ TakeWindow(take.id).type # "edit"
    BY <1>2, BackedRecords
  <2> QED BY <1>1, <1>4, <1>5, <2>1, <2>2, QuietCall
<1>7. CASE NoteTakeMarker
  <2> DEFINE m == h.next_marker_id
  <2>1. /\ Writes(<<TakeMarker(take.id, m)>>) \/ WriteFails(<<TakeMarker(take.id, m)>>)
        /\ m \in MarkerId
    BY <1>7 DEF NoteTakeMarker
  <2> HIDE DEF m
  <2>2. Backed(TakeMarker(take.id, m), ghost') /\ TakeMarker(take.id, m).type # "edit"
    BY <1>2, <2>1, BackedRecords
  <2> QED BY <1>1, <1>4, <1>5, <2>1, <2>2, QuietCall
<1>8. CASE DiscardTake
  <2>1. Writes(<<TakeDiscard(take.id)>>) \/ WriteFails(<<TakeDiscard(take.id)>>)
    BY <1>8 DEF DiscardTake
  <2>2. Backed(TakeDiscard(take.id), ghost') /\ TakeDiscard(take.id).type # "edit"
    BY <1>2, BackedRecords
  <2> QED BY <1>1, <1>4, <1>5, <2>1, <2>2, QuietCall
<1>9. CASE CancelTake
  <2>1. Writes(<<TakeCancel(take.id)>>) \/ WriteFails(<<TakeCancel(take.id)>>)
    BY <1>9 DEF CancelTake
  <2>2. Backed(TakeCancel(take.id), ghost') /\ TakeCancel(take.id).type # "edit"
    BY <1>2, BackedRecords
  <2> QED BY <1>1, <1>4, <1>5, <2>1, <2>2, QuietCall
<1> QED BY <1>6, <1>7, <1>8, <1>9

\* A block of input appends nothing and writes at most one chunk, the take's.
LEMMA CaptureCalls ==
  ASSUME SessionInv, LogInv, Capture
  PROVE  \E pre, N : Ordinary(pre, N)
<1>1. /\ phase = "running" /\ phase' = "running" /\ Recording /\ Started
      /\ \/ /\ next \in Chunk /\ chunks' = chunks \cup {next} /\ next' = next + 1
            /\ take' = [take EXCEPT !.ids = @ \cup {next}]
         \/ take' = [take EXCEPT !.short = TRUE] /\ chunks' = chunks /\ next' = next
      /\ UNCHANGED <<log, stray, ghost, save, file, bad, journaled>>
  BY DEF Capture, Started, journal
<1>2. take \in TakeState /\ TakeIds(take) = take.ids
  BY <1>1, TakeIs
<1>3. /\ TakeIds([take EXCEPT !.ids = @ \cup {next}]) \subseteq TakeIds(take) \cup {next}
      /\ TakeIds([take EXCEPT !.short = TRUE]) \subseteq TakeIds(take)
  BY <1>2 DEF TakeIds, TakeState
<1>4. LogGrows(<<>>) /\ InsIn(<<>>) = {}
  BY <1>1, NoCall, NoRecords
<1>5. CASE /\ next \in Chunk /\ chunks' = chunks \cup {next} /\ next' = next + 1
           /\ take' = [take EXCEPT !.ids = @ \cup {next}]
  <2>1. Ordinary(<<>>, {next})
    BY <1>1, <1>3, <1>4, <1>5 DEF Ordinary, AudioGrows
  <2> QED BY <2>1
<1>6. CASE take' = [take EXCEPT !.short = TRUE] /\ chunks' = chunks /\ next' = next
  <2>1. Ordinary(<<>>, {})
    BY <1>1, <1>3, <1>4, <1>6 DEF Ordinary, AudioGrows
  <2> QED BY <2>1
<1> QED BY <1>1, <1>5, <1>6

\* Stop brings in the take's audio, and is noted when that is short.
LEMMA CommitTakeCalls ==
  ASSUME SessionInv, LogInv, NEW del, CommitTake(del)
  PROVE  \E pre, N : Ordinary(pre, N)
<1> DEFINE t  == take.id
           e  == TakeEdit(del, take)
           sh == take.short
<1>1. /\ Started /\ phase' = "running" /\ Recording /\ del \subseteq h.current.pieces
      /\ \/ /\ CommitRecords(h.next_seq, e, t, sh) /\ take' = NoOpen
            /\ ghost' = [ghost EXCEPT !.tails = IF sh THEN @ \cup {t} ELSE @]
         \/ /\ CommitFails(h.next_seq, e, t, sh) /\ take' = take /\ ghost' = ghost
      /\ UNCHANGED <<save, chunks, next, bad, file>>
  BY DEF CommitTake, Idle, Started
<1>2. /\ t \in TakeId /\ sh \in BOOLEAN /\ h \in HistoryState
      /\ take.marks \in SUBSET MarkerId /\ take.ids \in SUBSET Chunk
      /\ TakeIds(take) = take.ids /\ TakeIds(NoOpen) = {}
  BY <1>1, TakeIs
<1>3. e \in EditOps /\ e.ins = take.ids /\ h.next_seq \in Nat
  <2>1. h.current.pieces \in SUBSET Chunk /\ h.next_seq \in Nat
    BY <1>2, HistoryParts, SnapshotParts
  <2>2. del \in SUBSET Chunk
    BY <1>1, <2>1
  <2> QED BY <1>2, <2>1, <2>2 DEF TakeEdit, EditOps
<1>4. ghost \in GhostType
  BY DEF LogInv
<1> HIDE DEF e, t, sh
<1>5. CASE /\ CommitRecords(h.next_seq, e, t, sh) /\ take' = NoOpen
           /\ ghost' = [ghost EXCEPT !.tails = IF sh THEN @ \cup {t} ELSE @]
  <2>1. PICK T \in SUBSET TakeId : ghost' = [ghost EXCEPT !.tails = T]
                                   /\ T \subseteq ghost.tails \cup ShortOf(t, sh)
    BY <1>2, <1>4, <1>5, GhostParts DEF ShortOf
  <2>2. ghost' \in GhostType /\ ghost'.tails = T /\ ghost'.compacted = ghost.compacted
        /\ ghost'.floorMoved = ghost.floorMoved /\ ghost'.unmarked = ghost.unmarked
        /\ ghost'.closing = ghost.closing /\ ghost'.overlooked = ghost.overlooked
    BY <1>4, <2>1 DEF GhostType
  <2>3. GhostGrows(ShortOf(t, sh))
    BY <2>1, <2>2 DEF GhostGrows, Grows
  <2> QED BY <1>1, <1>2, <1>3, <1>5, <2>3, CommitsCall
<1>6. CASE CommitFails(h.next_seq, e, t, sh) /\ take' = take /\ ghost' = ghost
  <2>1. GhostGrows({})
    BY <1>6, GhostSame
  <2> QED BY <1>1, <1>2, <1>3, <1>6, <2>1, CommitFailsCall
<1> QED BY <1>1, <1>5, <1>6

\* A marker of a cancelled take is an edit without audio.
LEMMA CommitPendingCalls ==
  ASSUME SessionInv, LogInv, CommitPending
  PROVE  \E pre, N : Ordinary(pre, N)
<1> DEFINE m == CHOOSE k \in pend : \A j \in pend : k <= j
           e == [del |-> {}, ins |-> {}, mdel |-> {}, madd |-> {m}]
<1>1. /\ Started /\ phase' = "running" /\ pend # {}
      /\ \/ CommitRecords(h.next_seq, e, NoTake, FALSE)
         \/ CommitFails(h.next_seq, e, NoTake, FALSE)
      /\ UNCHANGED <<take, save, chunks, next, bad, file, ghost>>
  BY DEF CommitPending, Started
<1>2. h.next_seq \in Nat /\ pend \in SUBSET MarkerId /\ NoTake \in TakeId \cup {NoTake}
  BY HistoryParts DEF SessionInv, TypeOK
<1>3. m \in MarkerId
  <2>1. pend \in SUBSET Nat
    BY <1>2 DEF MarkerId
  <2>2. \E k \in pend : \A j \in pend : k <= j
    BY <1>1, <2>1, Steps!LeastNumber
  <2> QED BY <1>2, <2>2
<1> HIDE DEF m
<1>4. e \in EditOps /\ e.ins = {}
  BY <1>3 DEF EditOps
<1>5. GhostGrows({}) /\ GhostGrows(ShortOf(NoTake, FALSE))
  BY <1>1, GhostSame
<1> HIDE DEF e
<1>6. CASE CommitRecords(h.next_seq, e, NoTake, FALSE)
  BY <1>1, <1>2, <1>4, <1>5, <1>6, CommitsCall
<1>7. CASE CommitFails(h.next_seq, e, NoTake, FALSE)
  BY <1>1, <1>2, <1>4, <1>5, <1>7, CommitFailsCall
<1> QED BY <1>1, <1>6, <1>7

\* A take begins with one record, or with two when its WAV cannot be created.
LEMMA BeginTakeCalls ==
  ASSUME SessionInv, LogInv, NEW al \in BOOLEAN, BeginTake(al)
  PROVE  \E pre, N : Ordinary(pre, N)
<1> DEFINE t == nextTake
           x == TakeBegin(t, al)
           y == TakeDiscard(t)
<1>1. /\ Started /\ phase' = "running" /\ t \in TakeId
      /\ \/ Writes(<<x>>) /\ take' = NewTake(t, al)
         \/ Writes(<<x, y>>) /\ take' = take
         \/ log' = Append(log, x) /\ stray' \in {<<>>, <<y>>} /\ take' = take
         \/ WriteFails(<<x>>) /\ take' = take
      /\ UNCHANGED <<save, journaled, chunks, next, bad, file, ghost>>
  BY DEF BeginTake, Idle, Started
<1>2. GhostGrows({})
  BY <1>1, GhostSame
<1>3. TakeIds(take') \subseteq TakeIds(take)
  <2>1. TakeIds(NewTake(t, al)) = {}
    BY DEF TakeIds, NewTake
  <2> QED BY <1>1, <2>1
<1>4. /\ Backed(x, ghost') /\ x.type # "edit" /\ x \in BeginRecord /\ x \in Record
      /\ Backed(y, ghost') /\ y.type # "edit" /\ y \in Record
  BY <1>1, BackedRecords DEF Backed
<1> HIDE DEF x, y, t
<1>5. CASE Writes(<<x>>) \/ WriteFails(<<x>>)
  BY <1>1, <1>2, <1>3, <1>4, <1>5, QuietCall
<1>6. CASE Writes(<<x, y>>)
  <2> DEFINE recs == <<x, y>>
  <2>1. CallRecs(recs, ghost')
    BY <1>4 DEF CallRecs
  <2>2. InsIn(recs) = {} /\ ShortIn(recs) = {}
    BY <1>4, InsOfCall
  <2> HIDE DEF recs
  <2>3. Writes(recs)
    BY <1>6 DEF recs
  <2>4. LogGrows(recs)
    BY <1>2, <2>1, <2>2, <2>3, WritesGrow
  <2>5. Ordinary(recs, {})
    BY <1>1, <1>3, <2>2, <2>4, PlainCall
  <2> QED BY <2>5
<1>7. CASE log' = Append(log, x) /\ stray' \in {<<>>, <<y>>}
  <2> DEFINE recs == <<x>>
  <2>1. log' = log \o recs
    BY <1>4, <1>7, LogIs, OneIs
  <2>2. /\ CallRecs(recs, ghost') /\ InsIn(recs) = {} /\ ShortIn(recs) = {}
        /\ CallRecs(<<>>, ghost') /\ CallRecs(<<y>>, ghost')
    BY <1>4, OneRecord, NoRecords
  <2> HIDE DEF recs
  <2>3. LogGrows(recs)
    BY <1>2, <1>7, <2>1, <2>2 DEF LogGrows
  <2>4. Ordinary(recs, {})
    BY <1>1, <1>3, <2>2, <2>3, PlainCall
  <2> QED BY <2>4
<1> QED BY <1>1, <1>5, <1>6, <1>7

\* Closing the document.
LEMMA CloseCalls ==
  ASSUME SessionInv, LogInv, CloseSession
  PROVE  \E pre, N : Ordinary(pre, N)
<1>1. /\ Started /\ phase' = "down" /\ ghost' = [ghost EXCEPT !.closing = TRUE]
      /\ \/ Writes(<<Close>>)
         \/ log' \in {log, Append(log, Close)} /\ stray' = <<>>
      /\ UNCHANGED <<h, take, journaled, save, chunks, next, bad, file>>
  BY DEF CloseSession, Idle, Started, memory, disk
<1>2. ghost \in GhostType
  BY DEF LogInv
<1>3. PICK b \in BOOLEAN : b /\ ghost' = [ghost EXCEPT !.closing = b]
  BY <1>1
<1>4. /\ ghost'.closing = b /\ ghost'.unmarked = ghost.unmarked
      /\ ghost'.floorMoved = ghost.floorMoved /\ ghost'.compacted = ghost.compacted
      /\ ghost'.tails = ghost.tails /\ ghost'.overlooked = ghost.overlooked
  BY <1>2, <1>3, GhostSteps
<1>5. ghost' \in GhostType
  BY <1>2, <1>3, GhostParts
<1>6. GhostGrows({}) /\ ghost'.closing
  BY <1>3, <1>4, <1>5 DEF GhostGrows, Grows
<1> DEFINE recs == <<Close>>
<1>7. Backed(Close, ghost') /\ Close.type # "edit"
  BY <1>6, BackedRecords
<1>8. CallRecs(recs, ghost') /\ InsIn(recs) = {} /\ ShortIn(recs) = {}
  BY <1>7, OneRecord
<1>9. CallRecs(<<>>, ghost') /\ InsIn(<<>>) = {} /\ ShortIn(<<>>) = {} /\ log \o <<>> = log
      /\ log \in Seq(Record)
  BY NoRecords, LogIs
<1>10. log \o recs = Append(log, Close)
  BY <1>7, <1>9, OneIs DEF Backed
<1> HIDE DEF recs
<1>11. LogGrows(recs) \/ LogGrows(<<>>)
  <2>1. CASE Writes(<<Close>>)
    <3>1. Writes(recs)
      BY <2>1 DEF recs
    <3> QED BY <1>6, <1>8, <3>1, WritesGrow
  <2>2. CASE log' = log /\ stray' = <<>>
    BY <1>6, <1>9, <2>2 DEF LogGrows
  <2>3. CASE log' = Append(log, Close) /\ stray' = <<>>
    BY <1>6, <1>8, <1>9, <1>10, <2>3 DEF LogGrows
  <2> QED BY <1>1, <2>1, <2>2, <2>3
<1>12. \A pre \in {recs, <<>>} : LogGrows(pre) => Ordinary(pre, {})
  BY <1>1, <1>8, <1>9, PlainCall
<1> QED BY <1>11, <1>12

\* A call that drops the session.
LEMMA EndsCall ==
  ASSUME SessionInv, LogInv, Started, NEW recs, CallRecs(recs, ghost),
         FailsAndEnds(recs, ghost), NEW N,
         \A k \in 0..Len(recs) : AudioGrows(SubSeq(recs, 1, k), N),
         UNCHANGED <<save, file, bad, h>>
  PROVE  \E pre, M : Ordinary(pre, M)
<1>1. ghost \in GhostType
  BY DEF LogInv
<1>2. Grows(ghost, ghost)
  BY DEF Grows
<1>3. PICK k \in 0..Len(recs) : LogGrows(SubSeq(recs, 1, k))
  BY <1>1, <1>2, EndGrows
<1>4. phase' = "down"
  BY DEF FailsAndEnds
<1>5. Ordinary(SubSeq(recs, 1, k), N)
  BY <1>3, <1>4 DEF Ordinary
<1> QED BY <1>5

\* What the beginnings of such records put into the document.
LEMMA InsOfPrefix ==
  ASSUME NEW recs \in Seq(Record), NEW k \in 0..Len(recs)
  PROVE  InsIn(SubSeq(recs, 1, k)) \subseteq InsIn(recs)
<1>1. /\ DOMAIN SubSeq(recs, 1, k) = 1..k /\ DOMAIN recs = 1..Len(recs) /\ Len(recs) \in Nat
      /\ \A i \in 1..k : SubSeq(recs, 1, k)[i] = recs[i]
  BY PrefixProperties
<1>2. 1..k \subseteq 1..Len(recs)
  BY <1>1
<1> QED BY <1>1, <1>2 DEF InsIn

\* Recovering a take.
LEMMA RecoverDiscardsCalls ==
  ASSUME SessionInv, LogInv, phase = "choice",
         \/ /\ Writes(<<TakeDiscard(take.id)>>)
            /\ take' = NoOpen /\ phase' = "running" /\ ghost' = ghost
         \/ FailsAndEnds(<<TakeDiscard(take.id)>>, ghost) /\ take' = take,
         UNCHANGED <<h, chunks, next, journaled, save, file, bad>>
  PROVE  \E pre, N : Ordinary(pre, N)
<1>1. Started /\ Recording
  BY DEF SessionInv, Started
<1>2. take.id \in TakeId /\ TakeIds(NoOpen) = {}
  BY <1>1, TakeIs
<1> DEFINE x == TakeDiscard(take.id)
<1>3. Backed(x, ghost') /\ Backed(x, ghost) /\ x.type # "edit"
  BY <1>2, BackedRecords
<1> HIDE DEF x
<1>4. CASE Writes(<<x>>) /\ take' = NoOpen /\ phase' = "running" /\ ghost' = ghost
  <2>1. GhostGrows({})
    BY <1>4, GhostSame
  <2>2. TakeIds(take') \subseteq TakeIds(take)
    BY <1>2, <1>4
  <2> QED BY <1>1, <1>3, <1>4, <2>1, <2>2, QuietCall
<1>5. CASE FailsAndEnds(<<x>>, ghost) /\ take' = take
  <2> DEFINE recs == <<x>>
  <2>1. CallRecs(recs, ghost) /\ InsIn(recs) = {}
    BY <1>3, OneRecord
  <2>2. recs \in Seq(Record)
    BY <2>1, CallPrefix
  <2> HIDE DEF recs
  <2>3. \A k \in 0..Len(recs) : InsIn(SubSeq(recs, 1, k)) \subseteq {}
    BY <2>1, <2>2, InsOfPrefix
  <2>4. \A k \in 0..Len(recs) : AudioGrows(SubSeq(recs, 1, k), {})
    BY <1>5, <2>3 DEF AudioGrows
  <2>5. FailsAndEnds(recs, ghost)
    BY <1>5 DEF recs
  <2> QED BY <1>1, <2>1, <2>4, <2>5, EndsCall
<1> QED BY <1>4, <1>5 DEF x

\* What the user chooses after a recovery is an ordinary call, too: to discard,
LEMMA RecoverDiscardCalls ==
  ASSUME SessionInv, LogInv, RecoverDiscard
  PROVE  \E pre, N : Ordinary(pre, N)
<1>1. /\ phase = "choice"
      /\ \/ /\ Writes(<<TakeDiscard(take.id)>>)
            /\ take' = NoOpen /\ phase' = "running" /\ ghost' = ghost
         \/ FailsAndEnds(<<TakeDiscard(take.id)>>, ghost) /\ take' = take
      /\ UNCHANGED <<h, chunks, next, journaled, save, file, bad>>
  BY DEF RecoverDiscard, disk
<1> QED BY <1>1, RecoverDiscardsCalls

\* or to apply the recording, whose audio is copied into a new chunk first.
LEMMA RecoverApplyCalls ==
  ASSUME SessionInv, LogInv, NEW del, RecoverApply(del)
  PROVE  \E pre, N : Ordinary(pre, N)
<1> DEFINE t == take.id
           e == TakeEdit(del, [take EXCEPT !.ids = {next}])
           y == Edit(h.next_seq, e, t, FALSE)
           recs == <<Chunks({next}), y>>
<1>0. phase = "choice" /\ Started /\ Recording /\ del \subseteq h.current.pieces
  BY DEF SessionInv, Started, RecoverApply
<1>1. \/ /\ Ends /\ UNCHANGED <<memory, disk, fails>>
      \/ /\ \/ /\ Writes(<<TakeDiscard(take.id)>>)
               /\ take' = NoOpen /\ phase' = "running" /\ ghost' = ghost
            \/ FailsAndEnds(<<TakeDiscard(take.id)>>, ghost) /\ take' = take
         /\ UNCHANGED <<h, journaled, save, disk>>
      \/ /\ next \in Chunk /\ chunks' = chunks \cup {next} /\ next' = next + 1
         /\ \/ /\ Writes(recs) /\ journaled' = journaled \cup {next}
               /\ take' = NoOpen /\ phase' = "running" /\ ghost' = ghost
            \/ FailsAndEnds(recs, ghost) /\ h' = h /\ journaled' = journaled /\ take' = take
         /\ UNCHANGED <<save, bad, file>>
  BY DEF RecoverApply
<1>2. /\ take \in TakeState /\ t \in TakeId /\ take.marks \in SUBSET MarkerId
      /\ h \in HistoryState /\ TakeIds(NoOpen) = {}
  BY <1>0, TakeIs
<1>3. CASE Ends /\ UNCHANGED <<memory, disk, fails>>
  <2>1. UNCHANGED <<h, take, journaled, save, chunks, next, bad, file>>
    BY <1>3 DEF memory, disk
  <2>2. /\ stray = <<>> /\ ghost \in GhostType
    BY <1>0 DEF LogInv
  <2>3. PICK k \in 0..Len(stray) :
          /\ log' = log \o SubSeq(stray, 1, k) /\ stray' = <<>>
          /\ ghost' = [ghost EXCEPT !.resurfaced = @ \/ k > 0]
    BY <1>3 DEF Ends
  <2>4. PICK b \in BOOLEAN : ghost' = [ghost EXCEPT !.resurfaced = b]
    <3> DEFINE b == ghost.resurfaced \/ k > 0
    <3>1. b \in BOOLEAN
      OBVIOUS
    <3>2. ghost' = [ghost EXCEPT !.resurfaced = b]
      BY <2>3
    <3> HIDE DEF b
    <3> QED BY <3>1, <3>2
  <2>5. /\ ghost'.floorMoved = ghost.floorMoved /\ ghost'.unmarked = ghost.unmarked
        /\ ghost'.closing = ghost.closing /\ ghost'.compacted = ghost.compacted
        /\ ghost'.tails = ghost.tails /\ ghost'.overlooked = ghost.overlooked
    BY <2>2, <2>4, GhostSteps
  <2>6. ghost' \in GhostType
    BY <2>2, <2>4, GhostParts
  <2>7. GhostGrows({})
    BY <2>5, <2>6 DEF GhostGrows, Grows
  <2>8. SubSeq(stray, 1, k) = <<>>
    BY <2>2, <2>3
  <2>9. LogGrows(<<>>) /\ InsIn(<<>>) = {}
    BY <2>3, <2>7, <2>8, NoRecords DEF LogGrows
  <2>10. phase' = "down"
    BY <1>3 DEF Ends
  <2>11. Ordinary(<<>>, {})
    BY <1>0, <2>1, <2>9, <2>10, PlainCall
  <2> QED BY <2>11
<1>4. CASE /\ \/ /\ Writes(<<TakeDiscard(take.id)>>)
                 /\ take' = NoOpen /\ phase' = "running" /\ ghost' = ghost
              \/ FailsAndEnds(<<TakeDiscard(take.id)>>, ghost) /\ take' = take
           /\ UNCHANGED <<h, journaled, save, disk>>
  <2>1. UNCHANGED <<h, chunks, next, journaled, save, file, bad>>
    BY <1>4 DEF disk
  <2> QED BY <1>0, <1>4, <2>1, RecoverDiscardsCalls
<1>5. CASE /\ next \in Chunk /\ chunks' = chunks \cup {next} /\ next' = next + 1
           /\ \/ /\ Writes(recs) /\ journaled' = journaled \cup {next}
                 /\ take' = NoOpen /\ phase' = "running" /\ ghost' = ghost
              \/ FailsAndEnds(recs, ghost) /\ h' = h /\ journaled' = journaled /\ take' = take
           /\ UNCHANGED <<save, bad, file>>
  <2>1. e \in EditOps /\ e.ins = {next} /\ h.next_seq \in Nat
    <3>1. h.current.pieces \in SUBSET Chunk /\ h.next_seq \in Nat
      BY <1>2, HistoryParts, SnapshotParts
    <3>2. del \in SUBSET Chunk
      BY <1>0, <3>1
    <3>3. /\ [take EXCEPT !.ids = {next}].ids = {next}
          /\ [take EXCEPT !.ids = {next}].marks = take.marks
      BY <1>2 DEF TakeState
    <3> QED BY <1>2, <1>5, <3>1, <3>2, <3>3 DEF TakeEdit, EditOps
  <2> HIDE DEF e
  <2>2. /\ y \in Record /\ y.type = "edit" /\ y.ops = e /\ y.short = FALSE /\ y.take = t
    BY <1>2, <2>1, RecordsAre DEF Edit
  <2> DEFINE z == Chunks({next})
  <2>3. z \in ChunksRecord /\ z.type # "edit"
    BY <1>5 DEF Chunks, ChunksRecord
  <2>4. \A g : Backed(y, g)
    BY <2>2 DEF Backed
  <2> HIDE DEF z, y
  <2>5. recs = <<z, y>>
    BY DEF z
  <2>6. \A g : CallRecs(recs, g)
    BY <2>2, <2>3, <2>4, <2>5 DEF CallRecs
  <2>7. InsIn(recs) = {next}
    BY <2>1, <2>2, <2>3, <2>5, InsOfCall
  <2>8. recs \in Seq(Record)
    BY <2>6, CallPrefix
  <2> HIDE DEF recs
  <2>9. CASE /\ Writes(recs) /\ journaled' = journaled \cup {next}
             /\ take' = NoOpen /\ phase' = "running" /\ ghost' = ghost
    <3>1. LogGrows(recs)
      BY <2>6, <2>9, GhostSame, WritesGrow
    <3>2. AudioGrows(recs, {next})
      BY <1>2, <1>5, <2>7, <2>9 DEF AudioGrows
    <3>3. Ordinary(recs, {next})
      BY <1>0, <1>5, <2>9, <3>1, <3>2 DEF Ordinary
    <3> QED BY <3>3
  <2>10. CASE FailsAndEnds(recs, ghost) /\ h' = h /\ journaled' = journaled /\ take' = take
    <3>1. \A k \in 0..Len(recs) : InsIn(SubSeq(recs, 1, k)) \subseteq {next}
      BY <2>7, <2>8, InsOfPrefix
    <3>2. \A k \in 0..Len(recs) : AudioGrows(SubSeq(recs, 1, k), {next})
      BY <1>5, <2>10, <3>1 DEF AudioGrows
    <3>3. CallRecs(recs, ghost)
      BY <2>6
    <3> QED BY <1>0, <1>5, <2>10, <3>2, <3>3, EndsCall
  <2> QED BY <1>5, <2>9, <2>10
<1> HIDE DEF recs, e
<1> QED BY <1>1, <1>3, <1>4, <1>5

\* The calls that do more than that.
Special ==
  \/ \E p \in SUBSET Chunk, M \in CueSets : SetFloor(p, M)
  \/ BeginSave \/ WriteFile \/ MarkSaved
  \/ Compact \/ Crash \/ Recover \/ CollectGarbage
  \/ UNCHANGED vars

\* Every step is of one kind or the other.
LEMMA NextKinds ==
  ASSUME SessionInv, LogInv, [Next]_vars
  PROVE  (\E pre, N : Ordinary(pre, N)) \/ Special
<1>1. CASE EditNext
  <2>1. CASE WriteChunk
    BY <2>1, WriteChunkCalls
  <2>2. CASE \E p \in SUBSET Chunk, M \in CueSets : SetFloor(p, M)
    BY <2>2 DEF Special
  <2>3. CASE \E e \in Edits : CommitEdit(e)
    BY <2>3, CommitEditCalls
  <2>4. CASE Undo \/ Redo
    BY <2>4, UndoCalls
  <2>5. CASE \E n \in 1..MaxSeq : DropOldestUndo(n)
    BY <2>5, DropCalls
  <2>6. CASE BeginSave \/ WriteFile \/ MarkSaved
    BY <2>6 DEF Special
  <2> QED BY <1>1, <2>1, <2>2, <2>3, <2>4, <2>5, <2>6 DEF EditNext
<1>2. CASE TakeNext
  <2>1. CASE \E aligned \in BOOLEAN : BeginTake(aligned)
    BY <2>1, BeginTakeCalls
  <2>2. CASE NoteTakeWindow \/ NoteTakeMarker \/ DiscardTake \/ CancelTake
    BY <2>2, NoteCalls
  <2>3. CASE Capture
    BY <2>3, CaptureCalls
  <2>4. CASE \E del \in SUBSET Chunk : CommitTake(del)
    BY <2>4, CommitTakeCalls
  <2>5. CASE CommitPending
    BY <2>5, CommitPendingCalls
  <2> QED BY <1>2, <2>1, <2>2, <2>3, <2>4, <2>5 DEF TakeNext
<1>3. CASE LifeNext
  <2>1. CASE Compact \/ Crash \/ Recover \/ CollectGarbage
    BY <2>1 DEF Special
  <2>2. CASE CloseSession
    BY <2>2, CloseCalls
  <2>3. CASE RecoverDiscard
    BY <2>3, RecoverDiscardCalls
  <2>4. CASE \E del \in SUBSET Chunk : RecoverApply(del)
    BY <2>4, RecoverApplyCalls
  <2> QED BY <1>3, <2>1, <2>2, <2>3, <2>4 DEF LifeNext
<1>4. CASE UNCHANGED vars
  BY <1>4 DEF Special
<1> QED BY <1>1, <1>2, <1>3, <1>4 DEF Next

\* The journal after a step.
LEMMA FineNext ==
  ASSUME SessionInv'
  PROVE  /\ Fine(log', wav') /\ log' \in JournalRecords /\ log' \in Seq(Record)
         /\ phase' # "gone" /\ ~ghost'.resurfaced =>
              SameHistory(State(log').hist, h') /\ State(log').ids = journaled'
         /\ Started' => ~ghost'.resurfaced
         /\ h' \in HistoryState
         /\ State(log').hist \in HistoryState /\ Live(State(log').hist) \subseteq State(log').ids
<1>1. Follows(log', stray', wav')
  BY DEF SessionInv, DiskInv
<1>2. Fine(log', wav') /\ log' \in JournalRecords /\ log' \in Seq(Record)
  BY <1>1, FollowsParts
<1>3. phase' # "gone" /\ ~ghost'.resurfaced =>
        SameHistory(State(log').hist, h') /\ State(log').ids = journaled'
  BY DEF SessionInv, MemoryIs
<1>4. (Started' => ~ghost'.resurfaced) /\ h' \in HistoryState
  BY DEF SessionInv, TypeOK
<1>5. Standing(State(log'), Summary(log'), wav')
  BY ONLY <1>2, FineSound
<1>6. State(log').hist \in HistoryState /\ Live(State(log').hist) \subseteq State(log').ids
  BY ONLY <1>5, StandingParts
<1> QED BY <1>2, <1>3, <1>4, <1>6

\* An ordinary call appends records of a kind that LogInv allows.
LEMMA OrdinaryKeepsLog ==
  ASSUME SessionInv, LogInv, SessionInv', NEW pre, NEW N, Ordinary(pre, N)
  PROVE  LogInv'
<1>1. /\ log' = log \o pre /\ CallRecs(pre, ghost') /\ CallRecs(stray', ghost')
      /\ ghost' \in GhostType /\ Grows(ghost, ghost') /\ ghost'.compacted = ghost.compacted
      /\ ghost'.tails \subseteq ghost.tails \cup ShortIn(pre)
      /\ save' = save /\ file' = file /\ phase' \in {"running", "down"}
  BY DEF Ordinary, LogGrows, GhostGrows
<1>2. /\ Fine(log, wav) /\ log \in Seq(Record) /\ log \in JournalRecords
      /\ Fine(log \o pre, wav') /\ pre \in Seq(Record)
  BY <1>1, LogIs, FineNext, CallPrefix
<1>3. AllSane(log')
  <2>1. AllSane(log)
    BY DEF LogInv
  <2> QED BY ONLY <1>1, <1>2, <2>1, SaneCall
<1>4. log'[1] = log[1]
  <2>1. Len(log) >= 1 /\ Len(log) \in Nat
    BY ONLY <1>2, JournalIs
  <2>2. 1 \in 1..Len(log)
    BY ONLY <2>1
  <2> QED BY ONLY <1>1, <1>2, <2>2, ConcatProperties
<1>5. /\ Summary(log).truncated \cup ShortIn(pre) \subseteq Summary(log').truncated
      /\ Last(log').type = "close" => Last(log).type = "close" \/ ghost'.closing
  BY ONLY <1>1, <1>2, CallSummary
<1>6. Last(log').type = "close" => ghost'.closing
  BY <1>1, <1>5 DEF LogInv, Grows
<1>7. ghost'.compacted \/ ghost'.tails \subseteq Summary(log').truncated
  BY <1>1, <1>5 DEF LogInv
<1>8. save' # NoSave /\ save'.state = "written" => ghost'.unmarked /\ file' = save'.doc
  BY <1>1 DEF LogInv, Grows
<1> QED BY <1>1, <1>3, <1>4, <1>6, <1>7, <1>8 DEF LogInv

\* A step that leaves the journal and the file alone.
LEMMA LogStays ==
  ASSUME LogInv, UNCHANGED <<log, stray, ghost>>,
         (save' = save /\ file' = file) \/ save' = NoSave \/ save'.state # "written",
         phase' = "choice" => phase = "choice"
  PROVE  LogInv'
BY DEF LogInv

\* The file is written without the lock, and the save waits for its record.
LEMMA WriteFileKeepsLog ==
  ASSUME SessionInv, LogInv, WriteFile
  PROVE  LogInv'
<1>1. /\ save.state = "writing" /\ file' = save.doc /\ save' = [save EXCEPT !.state = "written"]
      /\ UNCHANGED <<phase, log, stray>>
  BY DEF WriteFile, journal
<1>2. PICK b \in BOOLEAN : b /\ ghost' = [ghost EXCEPT !.unmarked = b]
  BY DEF WriteFile
<1>3. ghost \in GhostType
  BY DEF LogInv
<1>4. ghost' \in GhostType
  BY <1>2, <1>3, GhostParts
<1>5. /\ ghost'.unmarked = b /\ ghost'.floorMoved = ghost.floorMoved
      /\ ghost'.closing = ghost.closing /\ ghost'.compacted = ghost.compacted
      /\ ghost'.tails = ghost.tails /\ ghost'.overlooked = ghost.overlooked
  BY <1>2, <1>3, GhostSteps
<1>6. Grows(ghost, ghost') /\ ghost'.unmarked
  BY <1>2, <1>5 DEF Grows
<1>7. CallRecs(stray', ghost')
  BY <1>1, <1>6, CallGrows DEF LogInv
<1>8. save'.doc = save.doc
  <2>1. save \in [state : {"writing", "written"}, seq : Nat, doc : Document]
    BY <1>1 DEF SessionInv, TypeOK, NoSave
  <2> QED BY <1>1, <2>1
<1> QED BY <1>1, <1>4, <1>5, <1>6, <1>7, <1>8 DEF LogInv

\* The record of a save is of a call.
LEMMA MarkSavedKeepsLog ==
  ASSUME SessionInv, LogInv, SessionInv', MarkSaved
  PROVE  LogInv'
<1> DEFINE x    == Saved(save.seq)
           recs == <<x>>
<1>1. /\ save # NoSave /\ save.state = "written" /\ save' = NoSave /\ phase' = phase
      /\ \/ Writes(recs) /\ \E b \in BOOLEAN : ~b /\ ghost' = [ghost EXCEPT !.unmarked = b]
         \/ WriteFails(recs) /\ ghost' = ghost
  <2>1. save.state = "written" /\ save' = NoSave /\ phase' = phase
    BY DEF MarkSaved
  <2>2. save # NoSave
    BY <2>1 DEF NoSave
  <2>3. \/ Writes(recs) /\ ghost' = [ghost EXCEPT !.unmarked = FALSE]
        \/ WriteFails(recs) /\ ghost' = ghost
    BY DEF MarkSaved, SavedSeq
  <2>4. ghost' = [ghost EXCEPT !.unmarked = FALSE] =>
          \E b \in BOOLEAN : ~b /\ ghost' = [ghost EXCEPT !.unmarked = b]
    OBVIOUS
  <2> QED BY <2>1, <2>2, <2>3, <2>4
<1>2. save.seq \in Nat
  BY <1>1 DEF SessionInv, TypeOK
<1>3. ghost \in GhostType /\ ghost.unmarked
  BY <1>1 DEF LogInv
<1>4. Backed(x, ghost) /\ x.type # "edit"
  BY <1>2, <1>3, BackedRecords
<1>5. CallRecs(recs, ghost) /\ ShortIn(recs) = {}
  BY <1>4, OneRecord
<1> HIDE DEF recs, x
<1>6. CASE Writes(recs) /\ \E b \in BOOLEAN : ~b /\ ghost' = [ghost EXCEPT !.unmarked = b]
  <2>0. PICK b \in BOOLEAN : ghost' = [ghost EXCEPT !.unmarked = b]
    BY <1>6
  <2>1. ghost' \in GhostType
    BY <1>3, <2>0, GhostParts
  <2>2. /\ ghost'.floorMoved = ghost.floorMoved
        /\ ghost'.closing = ghost.closing /\ ghost'.compacted = ghost.compacted
        /\ ghost'.tails = ghost.tails
    BY <1>3, <2>0, GhostSteps
  <2>3. log' = log \o recs /\ stray' = <<>>
    BY <1>6 DEF Writes
  <2>4. /\ Fine(log, wav) /\ log \in Seq(Record) /\ log \in JournalRecords
        /\ Fine(log \o recs, wav') /\ recs \in Seq(Record)
    BY <1>5, <2>3, LogIs, FineNext, CallPrefix
  <2>5. AllSane(log')
    <3>1. AllSane(log)
      BY DEF LogInv
    <3> QED BY ONLY <1>5, <2>3, <2>4, <3>1, SaneCall
  <2>6. log'[1] = log[1]
    <3>1. Len(log) >= 1 /\ Len(log) \in Nat
      BY ONLY <2>4, JournalIs
    <3>2. 1 \in 1..Len(log)
      BY ONLY <3>1
    <3> QED BY ONLY <2>3, <2>4, <3>2, ConcatProperties
  <2>7. /\ Summary(log).truncated \subseteq Summary(log').truncated
        /\ Last(log').type = "close" => Last(log).type = "close" \/ ghost.closing
    BY ONLY <1>5, <2>3, <2>4, CallSummary
  <2>8. CallRecs(stray', ghost')
    BY <2>3, NoRecords
  <2> QED BY <1>1, <2>1, <2>2, <2>3, <2>5, <2>6, <2>7, <2>8 DEF LogInv
<1>7. CASE WriteFails(recs) /\ ghost' = ghost
  <2>1. log' = log /\ stray' \in {<<>>, recs}
    BY <1>7 DEF WriteFails
  <2>2. CallRecs(stray', ghost')
    BY <1>5, <1>7, <2>1, NoRecords
  <2>3. phase' # "choice"
    BY <1>1 DEF MarkSaved, Idle
  <2> QED BY <1>1, <1>7, <2>1, <2>2, <2>3 DEF LogInv
<1> QED BY <1>1, <1>6, <1>7

\* A save that begins leaves the journal alone.
LEMMA BeginSaveKeepsLog ==
  ASSUME LogInv, BeginSave
  PROVE  LogInv'
<1>1. /\ UNCHANGED <<log, stray, ghost, file, phase>>
      /\ save'.state = "writing"
  BY DEF BeginSave, journal, disk
<1> QED BY <1>1, LogStays

\* A journal of one checkpoint.
LEMMA OneSane ==
  ASSUME NEW hs \in HistoryState, NEW I \in SUBSET Chunk, Live(hs) \subseteq I,
         MarkersBelow(hs), Sane(hs)
  PROVE  LET L == <<Checkpoint(hs, I)>> IN
         /\ AllSane(L) /\ Last(L).type # "close" /\ L[1].ids = I /\ L[1].hist = hs
         /\ Len(L) = 1
<1> DEFINE L == <<Checkpoint(hs, I)>>
<1>1. State(L) = FloorState(hs, I)
  BY FineFloor
<1>2. Len(L) = 1 /\ L[1] = Checkpoint(hs, I) /\ L \in Seq({Checkpoint(hs, I)})
  OBVIOUS
<1>3. L[1].ids = I /\ L[1].hist = hs /\ L[1].type = "checkpoint"
  BY <1>2 DEF Checkpoint
<1>4. SubSeq(L, 1, 1) = L
  <2>1. <<>> \in Seq({Checkpoint(hs, I)})
    OBVIOUS
  <2> QED BY <2>1, OneIs
<1>5. State(L).hist = hs
  BY <1>1 DEF FloorState
<1>6. Last(L) = L[1]
  BY <1>2 DEF Last
<1> HIDE DEF L
<1>7. AllSane(L)
  <2> SUFFICES ASSUME NEW n \in 1..Len(L)
               PROVE  Sane(State(SubSeq(L, 1, n)).hist)
    BY DEF AllSane
  <2>1. n = 1
    BY <1>2
  <2> QED BY <1>4, <1>5, <2>1
<1> QED BY <1>2, <1>3, <1>6, <1>7 DEF L

\* A compaction starts the journal anew, with the history as its floor.
LEMMA CompactKeepsLog ==
  ASSUME SessionInv, LogInv, Sane(h), Compact
  PROVE  LogInv'
<1>1. /\ log' = <<Checkpoint(h, Live(h))>> /\ stray' = <<>>
      /\ UNCHANGED <<phase, save, file>>
  BY DEF Compact
<1>2. PICK b \in BOOLEAN : b /\ ghost' = [ghost EXCEPT !.compacted = b]
  BY DEF Compact
<1>3. ghost \in GhostType
  BY DEF LogInv
<1>4. /\ ghost' \in GhostType /\ ghost'.compacted /\ ghost'.unmarked = ghost.unmarked
  BY <1>2, <1>3 DEF GhostType
<1>5. /\ h \in HistoryState /\ Live(h) \in SUBSET Chunk /\ MarkersBelow(h)
  <2>1. Started /\ ~ghost.resurfaced
    BY DEF Compact, Idle, SessionInv, Started
  <2>2. Standing(State(log), Summary(log), wav) /\ SameHistory(State(log).hist, h)
        /\ State(log).hist \in HistoryState
    BY <2>1, StartedParts
  <2>3. MarkersBelow(State(log).hist) /\ Live(State(log).hist) \subseteq State(log).ids
        /\ State(log).ids \in SUBSET Chunk
    BY ONLY <2>2, StandingParts
  <2>4. h \in HistoryState
    BY DEF SessionInv, TypeOK
  <2> QED BY <2>2, <2>3, <2>4, SameIs
<1>6. /\ AllSane(log') /\ Last(log').type # "close" /\ log'[1].ids = Live(h) /\ log'[1].hist = h
  BY ONLY <1>1, <1>5, Sane(h), OneSane
<1>7. CallRecs(stray', ghost')
  BY <1>1, NoRecords
<1>8. save' # NoSave /\ save'.state = "written" => ghost'.unmarked /\ file' = save'.doc
  BY <1>1, <1>4 DEF LogInv
<1> QED BY <1>1, <1>4, <1>6, <1>7, <1>8 DEF LogInv

\* The end of the process as the end of a call.
LEMMA EndsGrow ==
  ASSUME SessionInv, LogInv, Ends
  PROVE  \E k \in 0..Len(stray) :
           /\ log' = log \o SubSeq(stray, 1, k)
           /\ CallRecs(SubSeq(stray, 1, k), ghost) /\ CallRecs(SubSeq(stray, 1, k), ghost')
           /\ stray' = <<>> /\ phase' = "down"
           /\ ghost' \in GhostType /\ ghost'.unmarked = ghost.unmarked
           /\ ghost'.floorMoved = ghost.floorMoved /\ ghost'.closing = ghost.closing
           /\ ghost'.compacted = ghost.compacted /\ ghost'.tails = ghost.tails
<1>1. ghost \in GhostType /\ CallRecs(stray, ghost)
  BY DEF LogInv
<1>2. PICK k \in 0..Len(stray) :
        /\ log' = log \o SubSeq(stray, 1, k) /\ stray' = <<>> /\ phase' = "down"
        /\ ghost' = [ghost EXCEPT !.resurfaced = @ \/ k > 0]
  BY DEF Ends
<1>3. PICK b \in BOOLEAN : ghost' = [ghost EXCEPT !.resurfaced = b]
  <2> DEFINE b == ghost.resurfaced \/ k > 0
  <2>1. b \in BOOLEAN
    OBVIOUS
  <2>2. ghost' = [ghost EXCEPT !.resurfaced = b]
    BY <1>2
  <2> HIDE DEF b
  <2> QED BY <2>1, <2>2
<1>4. /\ ghost'.unmarked = ghost.unmarked
      /\ ghost'.floorMoved = ghost.floorMoved /\ ghost'.closing = ghost.closing
      /\ ghost'.compacted = ghost.compacted /\ ghost'.tails = ghost.tails
  BY <1>1, <1>3, GhostSteps
<1>5. ghost' \in GhostType
  BY <1>1, <1>3, GhostParts
<1>6. Grows(ghost, ghost')
  BY ONLY <1>4 DEF Grows
<1>7. CallRecs(SubSeq(stray, 1, k), ghost)
  BY <1>1, CallPrefix
<1>8. CallRecs(SubSeq(stray, 1, k), ghost')
  BY <1>6, <1>7, CallGrows
<1> QED BY <1>2, <1>4, <1>5, <1>7, <1>8

\* A crash makes a part of what was stray readable.
LEMMA CrashKeepsLog ==
  ASSUME SessionInv, LogInv, SessionInv', Crash
  PROVE  LogInv'
<1>1. Ends /\ save' = NoSave /\ file' = file /\ Ends
  BY DEF Crash
<1>2. PICK k \in 0..Len(stray) :
        /\ log' = log \o SubSeq(stray, 1, k)
        /\ CallRecs(SubSeq(stray, 1, k), ghost) /\ CallRecs(SubSeq(stray, 1, k), ghost')
        /\ stray' = <<>> /\ phase' = "down"
        /\ ghost' \in GhostType /\ ghost'.unmarked = ghost.unmarked
        /\ ghost'.floorMoved = ghost.floorMoved /\ ghost'.closing = ghost.closing
        /\ ghost'.compacted = ghost.compacted /\ ghost'.tails = ghost.tails
  BY <1>1, EndsGrow
<1> DEFINE recs == SubSeq(stray, 1, k)
<1> HIDE DEF recs
<1>3. log' = log \o recs /\ CallRecs(recs, ghost)
  BY <1>2 DEF recs
<1>4. /\ Fine(log, wav) /\ log \in Seq(Record) /\ log \in JournalRecords
      /\ Fine(log \o recs, wav') /\ recs \in Seq(Record)
  BY <1>3, LogIs, FineNext, CallPrefix
<1>5. AllSane(log')
  <2>1. AllSane(log)
    BY DEF LogInv
  <2> QED BY ONLY <1>3, <1>4, <2>1, SaneCall
<1>6. log'[1] = log[1]
  <2>1. Len(log) >= 1 /\ Len(log) \in Nat
    BY ONLY <1>4, JournalIs
  <2>2. 1 \in 1..Len(log)
    BY ONLY <2>1
  <2> QED BY ONLY <1>3, <1>4, <2>2, ConcatProperties
<1>7. /\ Summary(log).truncated \subseteq Summary(log').truncated
      /\ Last(log').type = "close" => Last(log).type = "close" \/ ghost.closing
  BY ONLY <1>3, <1>4, CallSummary
<1>8. CallRecs(stray', ghost')
  BY <1>2, NoRecords
<1> QED BY <1>1, <1>2, <1>5, <1>6, <1>7, <1>8 DEF LogInv

\* K is L, and more records that hide nothing of it.
Extends(L, K) ==
  /\ AllSane(K) /\ K[1] = L[1]
  /\ Summary(L).truncated \subseteq Summary(K).truncated
  /\ Last(K).type = "close" => Last(L).type = "close"

\* One more record, which is not a close.
LEMMA ExtendOne ==
  ASSUME NEW L, NEW w, Fine(L, w), AllSane(L), NEW x \in Record, x.type # "close",
         Sane(State(Append(L, x)).hist)
  PROVE  Extends(L, Append(L, x))
<1> DEFINE K == Append(L, x)
<1>1. L \in JournalRecords /\ L \in Seq(Record) /\ Standing(State(L), Summary(L), w)
  BY FineSound, JournalIs
<1>2. /\ K \in Seq(Record) /\ Len(K) = Len(L) + 1 /\ Len(L) \in Nat /\ Len(L) >= 1
      /\ K[Len(L) + 1] = x /\ \A i \in 1..Len(L) : K[i] = L[i]
  BY ONLY <1>1, x \in Record, AppendJournal
<1>3. AllSane(K)
  BY <1>1, SaneLonger
<1>4. Summary(L).truncated \subseteq Summary(K).truncated
  <2>1. Summary(L) \in SummaryState
    BY ONLY <1>1, StandingParts
  <2>2. Summary(K) = Summarized(Summary(L), x)
    BY <1>1, SummaryOfAppend
  <2> QED BY <2>1, <2>2, SummarizedEnds
<1> HIDE DEF K
<1>5. Last(K) = x /\ K[1] = L[1]
  BY <1>2 DEF Last
<1>6. Extends(L, K)
  BY <1>3, <1>4, <1>5 DEF Extends
<1> QED BY <1>6 DEF K

\* Two of them.
LEMMA ExtendTwo ==
  ASSUME NEW L, NEW M, Extends(L, M), NEW K, Extends(M, K)
  PROVE  Extends(L, K)
BY DEF Extends

\* The records of an import, however many of them get into the file.
LEMMA FloorExtends ==
  ASSUME NEW L, NEW w, Fine(L, w), AllSane(L), NEW x \in Record, x.type = "checkpoint",
         NEW y \in ChunksRecord, NEW recs, recs = <<x>> \/ recs = <<y, x>>,
         Follows(L, recs, w), Sane(State(L \o recs).hist), NEW k \in 0..Len(recs)
  PROVE  /\ Extends(L, L \o SubSeq(recs, 1, k))
         /\ State(L \o SubSeq(recs, 1, k)).hist \in {State(L).hist, State(L \o recs).hist}
         /\ Extends(L, L \o recs)
<1> DEFINE A == Append(L, y)
<1>1. L \in JournalRecords /\ L \in Seq(Record)
  BY FineSound, JournalIs
<1>2. Standing(State(L), Summary(L), w)
  BY ONLY Fine(L, w), FineSound
<1>3. State(L) \in ReplayState
  BY ONLY <1>2, StandingParts
<1>4. /\ y \in Record /\ y.type = "chunks" /\ y = Chunks(y.ids) /\ y.ids \in SUBSET Chunk
  BY RecordIs
<1>5. Fine(A, w) /\ State(A).hist = State(L).hist
  <2>1. Fits(State(L), Summary(L), y, w)
    BY <1>2, <1>4, ChunksFit
  <2>2. y.type # "checkpoint"
    BY <1>4
  <2>3. Fine(A, w) /\ State(A) = Applied(State(L), y)
    BY ONLY <1>4, <2>1, <2>2, Fine(L, w), FineAppend
  <2> HIDE DEF A
  <2>4. Applied(State(L), y).hist = State(L).hist
    BY <1>3, <1>4, AppliedChunks
  <2> QED BY <2>3, <2>4
<1>6. Extends(L, L)
  BY DEF Extends
<1>7. Extends(L, A)
  <2>1. Sane(State(A).hist)
    BY <1>1, <1>5, SanePrefix
  <2>2. y.type # "close"
    BY <1>4
  <2> QED BY ONLY <1>4, <2>1, <2>2, Fine(L, w), AllSane(L), ExtendOne
<1>8. x.type # "close" /\ <<>> \in Seq(Record)
  OBVIOUS
<1> HIDE DEF A
<1>9. CASE recs = <<x>>
  <2>1. /\ L \o recs = Append(L, x) /\ Len(recs) = 1
        /\ SubSeq(recs, 1, 0) = <<>> /\ SubSeq(recs, 1, 1) = recs /\ L \o <<>> = L
    BY <1>1, <1>8, <1>9, OneIs
  <2>2. Extends(L, L \o recs)
    BY <1>8, <2>1, ExtendOne
  <2>3. k = 0 \/ k = 1
    BY <2>1
  <2> QED BY <1>6, <2>1, <2>2, <2>3
<1>10. CASE recs = <<y, x>>
  <2>1. L \o recs = Append(A, x)
    BY <1>1, <1>4, <1>10, TwoIs DEF A
  <2>2. /\ Len(recs) = 2 /\ SubSeq(recs, 1, 0) = <<>> /\ SubSeq(recs, 1, 1) = <<y>>
        /\ SubSeq(recs, 1, 2) = recs
    <3>1. /\ Len(<<y, x>>) = 2 /\ SubSeq(<<y, x>>, 1, 0) = <<>>
          /\ SubSeq(<<y, x>>, 1, 1) = <<y>> /\ SubSeq(<<y, x>>, 1, 2) = <<y, x>>
      BY ONLY <1>4, x \in Record, PairIs
    <3> QED BY ONLY <1>10, <3>1
  <2>3. L \o <<y>> = A /\ L \o <<>> = L
    BY <1>1, <1>4, OneIs DEF A
  <2>4. Extends(L, L \o recs)
    <3>1. AllSane(A)
      BY <1>7 DEF Extends
    <3>2. Extends(A, Append(A, x))
      <4>1. Sane(State(Append(A, x)).hist)
        BY <2>1
      <4> QED BY ONLY <1>5, <1>8, <3>1, <4>1, x \in Record, ExtendOne
    <3> QED BY <1>7, <2>1, <3>2, ExtendTwo
  <2>5. k = 0 \/ k = 1 \/ k = 2
    BY <2>2
  <2>6. CASE k = 0
    BY <1>6, <2>2, <2>3, <2>4, <2>6
  <2>7. CASE k = 1
    BY <1>5, <1>7, <2>2, <2>3, <2>4, <2>7
  <2>8. CASE k = 2
    BY <2>2, <2>4, <2>8
  <2> QED BY <2>5, <2>6, <2>7, <2>8
<1> QED BY <1>9, <1>10

\* A deletion ends the session.
LEMMA CollectGarbageKeepsLog ==
  ASSUME LogInv, CollectGarbage
  PROVE  LogInv'
<1>1. UNCHANGED <<log, stray, ghost, save, file>> /\ phase' = "gone"
  BY DEF CollectGarbage, memory, journal, disk
<1> QED BY <1>1, LogStays

\* What an import leaves: the new floor hs, a session that failed, or nothing.
Floored(hs) ==
  /\ phase = "running" /\ save = NoSave /\ take = NoOpen /\ journaled = {}
  /\ hs \in HistoryState /\ Sane(hs) /\ RebasedFrom(h, hs)
  /\ Live(hs) \subseteq chunks
  /\ Extends(log, log') /\ stray' = <<>>
  /\ \/ phase' = "running" /\ h' = hs /\ journaled' \subseteq chunks /\ ghost' = ghost
     \/ /\ phase' = "down" /\ h' = h /\ journaled' = journaled
        /\ State(log').hist \in {State(log).hist, hs}
        /\ ghost' \in GhostType /\ ghost'.unmarked /\ Grows(ghost, ghost')
        /\ ghost'.tails = ghost.tails /\ ghost'.compacted = ghost.compacted
        /\ ghost'.overlooked = ghost.overlooked
     \/ phase' = "gone" /\ h' = h /\ journaled' = journaled /\ ghost' = ghost
  /\ file' = Content(hs.current)
  /\ UNCHANGED <<take, save, chunks, next, bad>>

\* The ghost of an import that fails.
Flagged(g, b, c, d) == [g EXCEPT !.closing = b, !.unmarked = c, !.resurfaced = d]

\* What the floor of an import leaves, when it is set, fails, or is given up.
LEMMA SetFloorIs ==
  ASSUME SessionInv, LogInv, Sane(h), NEW p \in SUBSET Chunk, NEW M \in CueSets, SetFloor(p, M)
  PROVE  Floored(Rebased(h, p, M))
<1> DEFINE hs   == Rebased(h, p, M)
           new  == p \ journaled
           J    == journaled \cup new
           x    == Checkpoint(hs, J)
           y    == Chunks(new)
           recs == (IF new = {} THEN <<>> ELSE <<Chunks(new)>>) \o <<x>>
           g    == [ghost EXCEPT !.closing = TRUE, !.unmarked = TRUE]
<1>1. /\ Idle /\ ~Recording /\ save = NoSave /\ Len(log) = 1 /\ p \subseteq chunks
      /\ h.next_rev = 2 /\ h.next_seq = 1
      /\ \/ /\ Writes(recs) /\ h' = hs /\ journaled' = J
            /\ phase' = phase /\ ghost' = ghost
         \/ FailsAndEnds(recs, g) /\ h' = h /\ journaled' = journaled
         \/ /\ phase' = "gone" /\ stray' = <<>>
            /\ UNCHANGED <<h, journaled, log, ghost>>
      /\ file' = Content(hs.current)
      /\ UNCHANGED <<take, save, chunks, next, bad>>
  BY DEF SetFloor
<1>2. phase = "running" /\ Started /\ take = NoOpen
  BY <1>1 DEF Idle, Started, Recording
<1>3. /\ Fine(log, wav) /\ IdsIn(log) = journaled /\ log \in JournalRecords
      /\ SameHistory(State(log).hist, h) /\ State(log).hist \in HistoryState
  BY <1>2, StartedParts DEF Fine
<1>4. h \in HistoryState /\ journaled \subseteq chunks /\ chunks \subseteq Chunk
  BY DEF SessionInv, TypeOK
<1>5. M \in SUBSET MarkerId
  BY CuesAreMarkers
<1>6. RebasedFrom(h, hs)
  BY <1>1, <1>5 DEF RebasedFrom
<1>7. hs \in HistoryState /\ Sane(hs)
  BY <1>4, <1>6, RebasedWalks
<1>8. hs \in HistoryState /\ MarkersBelow(hs) /\ Live(hs) = p
  <2>1. Contents(hs) = {[pieces |-> p, markers |-> M]}
    BY <1>4, OtherContents
  <2>3. hs.next_marker_id = IdAbove(h.next_marker_id, M)
    BY DEF Rebased
  <2>4. h.next_marker_id \in Nat
    BY <1>4, HistoryParts
  <2>5. \A m \in M : m < hs.next_marker_id
    <3>1. \A m \in M : IdAbove(h.next_marker_id, M) > m
      BY <1>5, <2>4, IdAboveType
    <3>2. IdAbove(h.next_marker_id, M) \in Nat /\ \A m \in M : m \in Nat
      BY <1>5, <2>4, IdAboveType DEF MarkerId
    <3> QED BY <2>3, <3>1, <3>2
  <2> HIDE DEF hs
  <2>6. MarkersBelow(hs)
    BY <2>1, <2>5 DEF MarkersBelow
  <2>7. Live(hs) = UNION {d.pieces : d \in Contents(hs)}
    BY <1>7, LiveIsContents
  <2>8. Live(hs) = p
    BY <2>1, <2>7
  <2> QED BY <1>7, <2>6, <2>8
<1>9. journaled = {}
  <2>1. Live(h) = {}
    BY <1>1 DEF Sane, Young
  <2>2. log[1] \in CheckpointRecord /\ log = <<log[1]>>
    <3>1. log \in Seq(Record) /\ log[1].type = "checkpoint"
      BY <1>3 DEF JournalRecords
    <3>2. log[1] \in Record
      <4>1. 1 \in 1..Len(log)
        BY <1>1
      <4> QED BY ONLY <3>1, <4>1, ElementOfSeq
    <3>3. log = <<log[1]>>
      BY <1>1, <3>1
    <3> QED BY <3>1, <3>2, <3>3, RecordIs
  <2>3. log[1].ids = Live(log[1].hist)
    BY DEF LogInv
  <2>4. State(log).hist = log[1].hist /\ IdsIn(log) = log[1].ids
    <3> DEFINE z == log[1]
    <3>1. /\ z = Checkpoint(z.hist, z.ids) /\ z.hist \in HistoryState /\ z.ids \in SUBSET Chunk
      BY <2>2, RecordIs
    <3>2. log = Append(<<>>, z)
      BY <2>2
    <3>3. Sound(log, wav) /\ State(log) = Replay(log).state
      BY <1>3, FineSound DEF State
    <3>4. z \in Record /\ z.type = "checkpoint" /\ <<>> \in Seq(Record)
      BY <2>2, RecordIs
    <3> HIDE DEF z
    <3>5. State(log).hist = z.hist
      <4> DEFINE base == [hist |-> z.hist, ids |-> z.ids, open |-> {}, windowed |-> {},
                          markers |-> [t \in TakeId |-> {}], max_take |-> 0]
      <4>1. Replay(Append(<<>>, z)) =
              [state |-> FoldLeft(NoteMetadata, base, <<>>),
               consumed |-> Len(<<>>) + 1, stopped |-> FALSE]
        BY <3>4, ReplayOfCheckpoint
      <4>2. base.hist = z.hist
        OBVIOUS
      <4> HIDE DEF base
      <4>3. Replay(Append(<<>>, z)).state = FoldLeft(NoteMetadata, base, <<>>)
        BY ONLY <4>1
      <4>4. FoldLeft(NoteMetadata, base, <<>>) = base
        BY ONLY EmptyFolds
      <4> QED BY ONLY <3>2, <3>3, <4>2, <4>3, <4>4
    <3>6. IdsIn(log) = z.ids
      <4>1. IdsIn(<<z>>) = IdsOf(z)
        BY <3>4, OneIs
      <4>2. IdsOf(z) = z.ids
        BY <3>4 DEF IdsOf
      <4>3. log = <<z>>
        BY <2>2 DEF z
      <4> QED BY <4>1, <4>2, <4>3
    <3> QED BY <3>5, <3>6 DEF z
  <2>5. Live(State(log).hist) = Live(h)
    BY <1>3, <1>4, SameIs
  <2> QED BY <1>3, <2>1, <2>3, <2>4, <2>5
<1>10. new \in SUBSET Chunk /\ J \subseteq chunks /\ J \in SUBSET Chunk
  BY <1>1, <1>4
<1> HIDE DEF hs
<1>11. (new = {} /\ recs = <<x>>) \/ recs = <<y, x>>
  <2> HIDE DEF x, new
  <2>1. CASE new = {}
    <3>1. recs = <<>> \o <<x>>
      BY <2>1
    <3>2. <<>> \o <<x>> = <<x>>
      OBVIOUS
    <3> QED BY ONLY <2>1, <3>1, <3>2
  <2>2. CASE new # {}
    <3>1. recs = <<y>> \o <<x>>
      BY <2>2
    <3> DEFINE E == {x, y}
    <3>2. x \in E /\ y \in E
      OBVIOUS
    <3> HIDE DEF y, E
    <3>3. <<y>> \o <<x>> = <<y, x>>
      BY ONLY <3>2, PairIs
    <3> QED BY ONLY <3>1, <3>3
  <2> QED BY <2>1, <2>2
<1>12. Follows(log, recs, wav) /\ State(log \o recs).hist = hs
  <2>1. Plain(log)
    BY <1>1, <1>3, ShortIsPlain
  <2>2. Live(hs) \subseteq IdsIn(log) \cup new
    BY <1>3, <1>8
  <2> HIDE DEF new
  <2>3. /\ new = {} => Floors(log, <<Checkpoint(hs, IdsIn(log) \cup new)>>, wav, hs, IdsIn(log))
        /\ Floors(log, <<Chunks(new), Checkpoint(hs, IdsIn(log) \cup new)>>, wav, hs,
                  IdsIn(log) \cup new)
    BY <1>3, <1>8, <1>10, <2>1, <2>2, FloorFollows
  <2>4. /\ new = {} => Floors(log, <<x>>, wav, hs, J)
        /\ Floors(log, <<y, x>>, wav, hs, J)
    BY <1>3, <2>3
  <2> HIDE DEF recs, J, x, y
  <2>6. Floors(log, recs, wav, hs, J)
    BY <1>11, <2>4
  <2>7. State(log \o recs) = FloorState(hs, J)
    BY <2>6 DEF Floors
  <2> QED BY <2>6, <2>7 DEF Floors, FloorState
<1>13. x \in Record /\ x.type = "checkpoint" /\ y \in ChunksRecord
  BY <1>7, <1>10, RecordsAre DEF Checkpoint, Chunks, ChunksRecord
<1> HIDE DEF recs, x, y, J, new
<1>14. AllSane(log) /\ ghost \in GhostType /\ Sane(State(log \o recs).hist)
  BY <1>7, <1>12 DEF LogInv
<1>15. \A k \in 0..Len(recs) :
         /\ Extends(log, log \o SubSeq(recs, 1, k))
         /\ State(log \o SubSeq(recs, 1, k)).hist \in {State(log).hist, State(log \o recs).hist}
         /\ Extends(log, log \o recs)
  BY ONLY <1>3, <1>11, <1>12, <1>13, <1>14, FloorExtends
<1>16. Extends(log, log)
  BY <1>14 DEF Extends
<1>17. CASE /\ Writes(recs) /\ h' = hs /\ journaled' = J /\ phase' = phase /\ ghost' = ghost
  <2>1. log' = log \o recs /\ stray' = <<>>
    BY <1>17 DEF Writes
  <2>2. 0 \in 0..Len(recs)
    BY <1>12, FollowsParts
  <2>3. Extends(log, log')
    BY <1>15, <2>1, <2>2
  <2> QED BY <1>1, <1>2, <1>6, <1>7, <1>8, <1>9, <1>10, <1>17, <2>1, <2>3 DEF Floored, hs
<1>18. CASE FailsAndEnds(recs, g) /\ h' = h /\ journaled' = journaled
  <2>1. PICK k \in 0..Len(recs) :
          /\ log' = log \o SubSeq(recs, 1, k)
          /\ ghost' = [g EXCEPT !.resurfaced = @ \/ k > 0]
    BY <1>18 DEF FailsAndEnds
  <2>2. phase' = "down" /\ stray' = <<>>
    BY <1>18 DEF FailsAndEnds
  <2>3. \E b \in BOOLEAN, c \in BOOLEAN, d \in BOOLEAN :
          b /\ c /\ ghost' = Flagged(ghost, b, c, d)
    <3> DEFINE d == g.resurfaced \/ k > 0
    <3>1. d \in BOOLEAN
      OBVIOUS
    <3>2. ghost' = [g EXCEPT !.resurfaced = d]
      BY <2>1
    <3> HIDE DEF d
    <3>3. ghost' = Flagged(ghost, TRUE, TRUE, d)
      BY <3>2 DEF Flagged
    <3> QED BY <3>1, <3>3
  <2>4. /\ ghost' \in GhostType /\ ghost'.unmarked /\ Grows(ghost, ghost')
        /\ ghost'.tails = ghost.tails /\ ghost'.compacted = ghost.compacted
        /\ ghost'.overlooked = ghost.overlooked
    <3>1. PICK b \in BOOLEAN, c \in BOOLEAN, d \in BOOLEAN :
            b /\ c /\ ghost' = Flagged(ghost, b, c, d)
      BY <2>3
    <3>2. /\ ghost' \in GhostType /\ ghost'.floorMoved = ghost.floorMoved
          /\ ghost'.closing = b /\ ghost'.unmarked = c
          /\ ghost'.tails = ghost.tails /\ ghost'.compacted = ghost.compacted
          /\ ghost'.overlooked = ghost.overlooked
      <4>1. ghost' = Flagged(ghost, b, c, d)
        BY <3>1
      <4>2. ghost \in GhostType
        BY <1>14
      <4> DEFINE f == Flagged(ghost, b, c, d)
      <4>3. /\ f \in GhostType /\ f.floorMoved = ghost.floorMoved
            /\ f.closing = b /\ f.unmarked = c
            /\ f.tails = ghost.tails /\ f.compacted = ghost.compacted
            /\ f.overlooked = ghost.overlooked
        BY ONLY <4>2, b \in BOOLEAN, c \in BOOLEAN, d \in BOOLEAN DEF GhostType, Flagged
      <4>4. ghost' = f
        BY ONLY <4>1
      <4> HIDE DEF f
      <4> QED BY ONLY <4>3, <4>4
    <3>3. ghost'.closing /\ ghost'.unmarked
      BY <3>1, <3>2
    <3> QED BY <3>2, <3>3 DEF Grows
  <2>5. Extends(log, log') /\ State(log').hist \in {State(log).hist, hs}
    BY <1>12, <1>15, <2>1
  <2> QED BY <1>1, <1>2, <1>6, <1>7, <1>8, <1>9, <1>18, <2>2, <2>4, <2>5 DEF Floored, hs
<1>19. CASE phase' = "gone" /\ stray' = <<>> /\ UNCHANGED <<h, journaled, log, ghost>>
  <2>1. Extends(log, log')
    BY <1>16, <1>19
  <2> QED BY <1>1, <1>2, <1>6, <1>7, <1>8, <1>9, <1>19, <2>1 DEF Floored, hs
<1> QED BY <1>1, <1>17, <1>18, <1>19

\* The floor of an import is a checkpoint of a sane history.
LEMMA SetFloorKeepsLog ==
  ASSUME LogInv, NEW hs, Floored(hs)
  PROVE  LogInv'
<1>1. /\ AllSane(log') /\ log'[1] = log[1]
      /\ Summary(log).truncated \subseteq Summary(log').truncated
      /\ Last(log').type = "close" => Last(log).type = "close"
      /\ stray' = <<>> /\ save' = NoSave /\ phase' # "choice"
  BY DEF Floored, Extends
<1>2. /\ ghost' \in GhostType /\ ghost'.tails = ghost.tails
      /\ ghost'.compacted = ghost.compacted /\ (ghost.closing => ghost'.closing)
  BY DEF Floored, Grows, LogInv
<1>3. CallRecs(stray', ghost')
  BY <1>1, NoRecords
<1> QED BY <1>1, <1>2, <1>3 DEF LogInv

\* What a recovery that keeps the first n records leaves.
Recovers(n) ==
  LET kept == SubSeq(log, 1, n) IN
  /\ phase = "down" /\ n \in 1..Len(log) /\ Fine(kept, wav)
  /\ h' = State(kept).hist /\ journaled' = State(kept).ids /\ chunks' = State(kept).ids
  /\ bad' = bad \cap State(kept).ids /\ next' = Highest(State(log).ids) + 1
  /\ \/ log' = kept
     \/ phase' = "running" /\ \E t \in TakeId : log' = Append(kept, TakeCancel(t))
  /\ stray' = <<>> /\ TakeIds(take') = {} /\ UNCHANGED <<save, file>>
  /\ ghost' \in GhostType /\ ghost'.floorMoved = ghost.floorMoved
  /\ ghost'.compacted = ghost.compacted
  /\ Last(log').type = "close" => ghost'.closing
  /\ \/ n = Len(log) /\ ghost'.unmarked = ghost.unmarked /\ ghost'.tails = ghost.tails
     \/ n < Len(log) /\ ghost'.unmarked /\ ghost'.tails = {}
  /\ ghost'.overlooked = ghost.overlooked \cup Overlooked(State(kept).hist)
  /\ Live(State(log).hist) \cap bad = {} => n = Len(log)
  /\ Live(State(kept).hist) \cap (Live(State(log).hist) \cap bad) = {}

\* The ghost of a recovery.
Regained(g, b, c, u, T, D) == [g EXCEPT !.closing = b, !.resurfaced = c, !.unmarked = u,
                                        !.tails = T, !.overlooked = D]

\* A take that is offered has no audio in the store.
LEMMA OfferedEmpty ==
  ASSUME NEW t \in TakeId, NEW M \in SUBSET MarkerId
  PROVE  Offered(t, M).ids = {} /\ Unopened(t, M).ids = {}
<1> DEFINE new  == NewTake(t, FALSE)
           open == [new EXCEPT !.marks = M]
           shut == [open EXCEPT !.window = FALSE]
<1>1. PICK no \in BOOLEAN : no = FALSE
  OBVIOUS
<1>2. new \in TakeState /\ new.ids = {}
  <2>1. NewTake(t, no) \in TakeState /\ NewTake(t, no).ids = {}
    BY NewTakeIs DEF NewTake
  <2> QED BY <1>1, <2>1
<1> HIDE DEF new
<1>3. open \in TakeState /\ open.ids = {}
  BY <1>2 DEF TakeState
<1> HIDE DEF open
<1>4. shut.ids = {}
  BY <1>3 DEF TakeState
<1> QED BY <1>3, <1>4 DEF open, new, Offered, Unopened

\* A recovery keeps some number of records, all of them unless audio is damaged.
LEMMA RecoverIs ==
  ASSUME SessionInv, LogInv, Recover
  PROVE  \E n \in 1..Len(log) : Recovers(n)
<1>1. phase = "down" /\ TypeOK
  BY DEF Recover, SessionInv
<1>2. PICK got \in {Recoverable(log)} :
        /\ got # NothingRecoverable
        /\ RecoverFrom(got, got.state, SubSeq(log, 1, got.consumed),
                       Highest(got.state.open))
  BY DEF Recover
<1> DEFINE n    == got.consumed
           kept == SubSeq(log, 1, n)
           r    == State(kept)
           last == Highest(r.open)
           pre  == last # 0 /\ last \notin r.windowed
           open == [NewTake(last, FALSE) EXCEPT !.marks = r.markers[last]]
           x    == TakeCancel(last)
<1>3. /\ n \in 1..Len(log) /\ Fine(kept, wav) /\ got.state = r
      /\ Live(State(log).hist) \cap bad = {} => n = Len(log)
      /\ Live(r.hist) \cap (Live(State(log).hist) \cap bad) = {}
  BY <1>1, <1>2, RecoveredParts
<1>4. RecoverFrom(got, r, kept, last)
  BY <1>2, <1>3
<1> HIDE DEF kept
<1>5. Standing(r, Summary(kept), wav)
  BY ONLY <1>3, FineSound DEF r
<1>6. /\ r.open \in SUBSET TakeId /\ r.markers \in [TakeId -> SUBSET MarkerId]
  BY ONLY <1>5, StandingParts
<1>7. /\ h' = r.hist /\ journaled' = r.ids /\ chunks' = r.ids /\ bad' = bad \cap r.ids
      /\ next' = Highest(State(log).ids) + 1 /\ stray' = <<>>
      /\ \/ log' = kept /\ take' = IF last = 0 THEN NoOpen ELSE open
         \/ pre /\ log' = Append(kept, x) /\ take' = NoOpen /\ phase' = "running"
         \/ pre /\ log' = kept /\ take' = [open EXCEPT !.window = FALSE]
      /\ save' = save /\ file' = file
  BY <1>4 DEF RecoverFrom, State
<1>8. ghost' = [ghost EXCEPT !.closing = Last(log').type = "close",
                             !.resurfaced = FALSE,
                             !.unmarked = @ \/ n < Len(log),
                             !.tails = IF n < Len(log) THEN {} ELSE @,
                             !.overlooked = @ \cup Overlooked(r.hist)]
  BY <1>4 DEF RecoverFrom
<1>9. last \in TakeId \cup {0}
  <2>1. MaxTake \in Nat /\ r.open \in SUBSET (0..MaxTake)
    BY <1>6, MaxTakeIsNat DEF TakeId
  <2> QED BY <1>6, <2>1, HighestIs
<1>10. TakeIds(take') = {}
  <2>1. TakeIds(NoOpen) = {}
    BY DEF TakeIds
  <2>2. ASSUME last # 0
        PROVE  TakeIds(open) = {} /\ TakeIds([open EXCEPT !.window = FALSE]) = {}
    <3>1. last \in TakeId /\ r.markers[last] \in SUBSET MarkerId
      BY <1>6, <1>9, <2>2
    <3> HIDE DEF last
    <3>2. open = Offered(last, r.markers[last])
          /\ [open EXCEPT !.window = FALSE] = Unopened(last, r.markers[last])
      BY DEF Offered, Unopened
    <3> HIDE DEF open
    <3>3. Offered(last, r.markers[last]).ids = {} /\ Unopened(last, r.markers[last]).ids = {}
      BY <3>1, OfferedEmpty
    <3> QED BY <3>2, <3>3 DEF TakeIds
  <2> HIDE DEF open
  <2>3. CASE last = 0
    BY <1>7, <2>1, <2>3
  <2>4. CASE last # 0
    BY <1>7, <2>1, <2>2, <2>4
  <2> QED BY <2>3, <2>4
<1>11. /\ ghost \in GhostType /\ ghost.tails \in SUBSET TakeId /\ ghost.unmarked \in BOOLEAN
       /\ ghost.overlooked \in SUBSET Chunk
  BY GhostParts DEF LogInv
<1> DEFINE O == ghost.overlooked \cup Overlooked(r.hist)
<1>18. O \in SUBSET Chunk
  <2>1. bad \subseteq Chunk
    BY <1>1, TypeParts DEF TypeOK
  <2> QED BY <1>11, <2>1 DEF Overlooked
<1>12. PICK b \in BOOLEAN, c \in BOOLEAN, u \in BOOLEAN, T \in SUBSET TakeId :
         /\ ghost' = Regained(ghost, b, c, u, T, O)
         /\ Last(log').type = "close" => b
         /\ n < Len(log) => u /\ T = {}
         /\ ~(n < Len(log)) => (u <=> ghost.unmarked) /\ T = ghost.tails
  <2> DEFINE b == Last(log').type = "close"
             u == ghost.unmarked \/ n < Len(log)
             T == IF n < Len(log) THEN {} ELSE ghost.tails
  <2>1. ghost' = Regained(ghost, b, FALSE, u, T, O)
    BY <1>8 DEF Regained
  <2>2. b \in BOOLEAN /\ u \in BOOLEAN /\ T \in SUBSET TakeId /\ FALSE \in BOOLEAN
    BY <1>11
  <2>3. /\ Last(log').type = "close" => b
        /\ n < Len(log) => u /\ T = {}
        /\ ~(n < Len(log)) => (u <=> ghost.unmarked) /\ T = ghost.tails
    OBVIOUS
  <2> HIDE DEF b, u, T, O
  <2> QED BY ONLY <2>1, <2>2, <2>3
<1> HIDE DEF O
<1>13. /\ ghost' \in GhostType /\ ghost'.floorMoved = ghost.floorMoved
       /\ ghost'.compacted = ghost.compacted
       /\ ghost'.closing = b /\ ghost'.unmarked = u /\ ghost'.tails = T
       /\ ghost'.overlooked = O
  <2> DEFINE f == Regained(ghost, b, c, u, T, O)
  <2>1. /\ f \in GhostType /\ f.floorMoved = ghost.floorMoved /\ f.compacted = ghost.compacted
        /\ f.closing = b /\ f.unmarked = u /\ f.tails = T /\ f.overlooked = O
    BY ONLY <1>11, <1>18, b \in BOOLEAN, c \in BOOLEAN, u \in BOOLEAN, T \in SUBSET TakeId
       DEF GhostType, Regained
  <2>2. ghost' = f
    BY ONLY <1>12
  <2> HIDE DEF f
  <2> QED BY ONLY <2>1, <2>2
<1>14. Last(log').type = "close" => ghost'.closing
  BY ONLY <1>12, <1>13
<1>15. \/ n = Len(log) /\ ghost'.unmarked = ghost.unmarked /\ ghost'.tails = ghost.tails
       \/ n < Len(log) /\ ghost'.unmarked /\ ghost'.tails = {}
  <2>1. n < Len(log) \/ n = Len(log)
    <3>1. Len(log) \in Nat /\ n \in 1..Len(log)
      BY <1>3, LogIs, JournalIs
    <3> HIDE DEF n
    <3> QED BY <3>1
  <2>2. CASE n < Len(log)
    BY <1>12, <1>13, <2>2
  <2>3. CASE n = Len(log)
    <3>1. ~(n < Len(log))
      <4>1. Len(log) \in Nat
        BY LogIs, JournalIs
      <4> HIDE DEF n
      <4> QED BY <2>3, <4>1
    <3>2. u = ghost.unmarked
      BY ONLY <1>11, <1>12, <3>1
    <3> QED BY <1>12, <1>13, <2>3, <3>1, <3>2
  <2> QED BY <2>1, <2>2, <2>3
<1>16. \/ log' = kept
       \/ phase' = "running" /\ \E t \in TakeId : log' = Append(kept, TakeCancel(t))
  BY <1>7, <1>9
<1> HIDE DEF n, r, last, pre, open, x
<1>17. Recovers(n)
  BY <1>1, <1>3, <1>7, <1>10, <1>13, <1>14, <1>15, <1>16 DEF Recovers, kept, r, O
<1> QED BY <1>3, <1>17

\* The journal recovery leaves: what it kept, and at most the record of a
\* cancelled take.
LEMMA RecoveredLog ==
  ASSUME SessionInv, NEW n \in 1..Len(log), Recovers(n)
  PROVE  LET kept == SubSeq(log, 1, n) IN
         /\ kept \in JournalRecords /\ kept[1] = log[1] /\ (n = Len(log) => kept = log)
         /\ \E recs : /\ log' = kept \o recs
                      /\ \A g : CallRecs(recs, g)
                      /\ phase' = "running" \/ log' = kept
<1> DEFINE kept == SubSeq(log, 1, n)
<1>1. log \in JournalRecords /\ log \in Seq(Record) /\ SubSeq(log, 1, Len(log)) = log
      /\ Len(log) \in Nat
  BY LogIs, JournalIs
<1>2. kept \in JournalRecords /\ kept \in Seq(Record) /\ (n = Len(log) => kept = log)
  BY <1>1, PrefixIsJournal, JournalIs
<1>3. kept[1] = log[1]
  <2>1. n \in 0..Len(log) /\ 1 \in 1..n
    BY <1>1
  <2>2. \A i \in 1..n : kept[i] = log[i]
    BY <1>1, <2>1, PrefixProperties
  <2> QED BY <2>1, <2>2
<1>4. \/ log' = kept
      \/ phase' = "running" /\ \E t \in TakeId : log' = Append(kept, TakeCancel(t))
  BY DEF Recovers
<1> HIDE DEF kept
<1>5. \E recs : /\ log' = kept \o recs
                /\ \A g : CallRecs(recs, g)
                /\ phase' = "running" \/ log' = kept
  <2>1. CASE log' = kept
    <3>1. kept \o <<>> = kept
      BY <1>2
    <3>2. \A g : CallRecs(<<>>, g)
      BY NoRecords
    <3> QED BY <2>1, <3>1, <3>2
  <2>2. CASE phase' = "running" /\ \E t \in TakeId : log' = Append(kept, TakeCancel(t))
    <3>1. PICK t \in TakeId : log' = Append(kept, TakeCancel(t))
      BY <2>2
    <3> DEFINE x == TakeCancel(t)
    <3>2. \A g : Backed(x, g)
      BY BackedRecords
    <3>3. x \in Record
      BY <3>2 DEF Backed
    <3> HIDE DEF x
    <3>4. \A g : CallRecs(<<x>>, g)
      BY <3>2, OneRecord
    <3>5. kept \o <<x>> = Append(kept, x)
      BY <1>2, <3>3, OneIs
    <3> QED BY <2>2, <3>1, <3>4, <3>5 DEF x
  <2> QED BY <1>4, <2>1, <2>2
<1> QED BY <1>2, <1>3, <1>5 DEF kept

\* The journal a recovery leaves is a part of the one it read, and a cancel.
LEMMA RecoverKeepsLog ==
  ASSUME SessionInv, LogInv, SessionInv', NEW n \in 1..Len(log), Recovers(n)
  PROVE  LogInv'
<1> DEFINE kept == SubSeq(log, 1, n)
<1>1. kept \in JournalRecords /\ kept[1] = log[1] /\ (n = Len(log) => kept = log)
  BY RecoveredLog
<1>2. PICK recs : log' = kept \o recs /\ \A g : CallRecs(recs, g)
  BY RecoveredLog
<1>3. Fine(kept, wav) /\ Fine(kept \o recs, wav')
  BY <1>2, FineNext DEF Recovers
<1>4. AllSane(kept)
  <2>1. log \in JournalRecords /\ AllSane(log)
    BY LogIs DEF LogInv
  <2> QED BY <2>1, SanePrefix
<1>5. /\ stray' = <<>> /\ ghost' \in GhostType
      /\ ghost'.compacted = ghost.compacted /\ save' = save /\ file' = file
      /\ Last(log').type = "close" => ghost'.closing
      /\ \/ n = Len(log) /\ ghost'.unmarked = ghost.unmarked /\ ghost'.tails = ghost.tails
         \/ n < Len(log) /\ ghost'.unmarked /\ ghost'.tails = {}
  BY DEF Recovers
<1> HIDE DEF kept
<1>6. AllSane(log')
  BY <1>2, <1>3, <1>4, SaneCall
<1>7. log'[1] = log[1]
  <2>1. kept \in Seq(Record) /\ Len(kept) >= 1 /\ Len(kept) \in Nat
    BY ONLY <1>1, JournalIs
  <2>2. 1 \in 1..Len(kept) /\ recs \in Seq(Record)
    <3>1. CallRecs(recs, ghost)
      BY <1>2
    <3>2. recs \in Seq(Record)
      BY ONLY <3>1, CallPrefix
    <3>3. 1 \in 1..Len(kept)
      BY ONLY <2>1
    <3> QED BY ONLY <3>2, <3>3
  <2>3. (kept \o recs)[1] = kept[1]
    BY ONLY <2>1, <2>2, ConcatProperties
  <2> QED BY ONLY <1>1, <1>2, <2>3
<1>8. ghost'.compacted \/ ghost'.tails \subseteq Summary(log').truncated
  <2>1. CASE ghost'.tails = {}
    BY <2>1
  <2>2. CASE n = Len(log) /\ ghost'.tails = ghost.tails
    <3>1. Summary(log).truncated \subseteq Summary(log').truncated
      <4>1. Summary(kept).truncated \subseteq Summary(kept \o recs).truncated
        BY ONLY <1>2, <1>3, CallSummary
      <4> QED BY <1>1, <1>2, <2>2, <4>1
    <3> QED BY <1>5, <2>2, <3>1 DEF LogInv
  <2> QED BY <1>5, <2>1, <2>2
<1>9. save' # NoSave /\ save'.state = "written" => ghost'.unmarked /\ file' = save'.doc
  BY <1>5 DEF LogInv
<1>10. CallRecs(stray', ghost')
  BY <1>5, NoRecords
<1> QED BY <1>5, <1>6, <1>7, <1>8, <1>9, <1>10 DEF LogInv

\* LogInv is kept by every step.
LEMMA LogInvKeeps ==
  ASSUME SessionInv, SessionInv', LogInv, Sane(h), [Next]_vars
  PROVE  LogInv'
<1>1. CASE \E pre, N : Ordinary(pre, N)
  BY <1>1, OrdinaryKeepsLog
<1>2. CASE Special
  <2>1. CASE \E p \in SUBSET Chunk, M \in CueSets : SetFloor(p, M)
    <3>1. PICK hs : Floored(hs)
      BY <2>1, SetFloorIs
    <3> QED BY <3>1, SetFloorKeepsLog
  <2>2. CASE BeginSave
    BY <2>2, BeginSaveKeepsLog
  <2>3. CASE WriteFile
    BY <2>3, WriteFileKeepsLog
  <2>4. CASE MarkSaved
    BY <2>4, MarkSavedKeepsLog
  <2>5. CASE Compact
    BY <2>5, CompactKeepsLog
  <2>6. CASE Crash
    BY <2>6, CrashKeepsLog
  <2>7. CASE Recover
    <3>1. PICK n \in 1..Len(log) : Recovers(n)
      BY <2>7, RecoverIs
    <3> QED BY <3>1, RecoverKeepsLog
  <2>8. CASE CollectGarbage
    BY <2>8, CollectGarbageKeepsLog
  <2>9. CASE UNCHANGED vars
    <3>1. UNCHANGED <<log, stray, ghost, save, file, phase>>
      BY <2>9 DEF vars, journal, disk, memory
    <3> QED BY <3>1, LogStays
  <2> QED BY <1>2, <2>1, <2>2, <2>3, <2>4, <2>5, <2>6, <2>7, <2>8, <2>9 DEF Special
<1> QED BY <1>1, <1>2, NextKinds

-----------------------------------------------------------------------------
(* The history in memory, and the one a dropped session comes back with. *)

\* Down, the journal replays to the history the user left, or to one call after
\* it; or the import that made the floor failed.
HistInv ==
  /\ Sane(h)
  /\ phase = "down" => \/ Ahead(h, State(log).hist, ghost.floorMoved, ghost.unmarked)
                       \/ ghost.unmarked /\ save = NoSave /\ RebasedFrom(h, State(log).hist)

\* A call, seen in memory or left to the journal.
LEMMA OrdinaryMoves ==
  ASSUME SessionInv, SessionInv', NEW pre, NEW N, Ordinary(pre, N)
  PROVE  /\ phase' = "running" =>
              /\ Walk(h, h') /\ Keeps(h, h', ghost'.floorMoved, ghost'.unmarked)
              /\ Live(h') \subseteq Live(h) \cup InsIn(pre)
              /\ Sane(h) => Sane(h')
         /\ phase' = "down" =>
              /\ h' = h /\ Ahead(h, State(log').hist, ghost'.floorMoved, ghost'.unmarked)
              /\ Live(State(log').hist) \subseteq Live(h) \cup InsIn(pre)
         /\ phase' \in {"running", "down"}
<1>1. /\ log' = log \o pre /\ CallRecs(pre, ghost') /\ Started
      /\ phase' \in {"running", "down"} /\ (phase' = "down" => h' = h)
  BY DEF Ordinary, LogGrows
<1>2. Fine(log, wav) /\ SameHistory(State(log).hist, h) /\ h \in HistoryState
  BY <1>1, StartedParts DEF TypeOK
<1>3. Fine(log \o pre, wav') /\ h' \in HistoryState
  BY <1>1, FineNext
<1>4. ASSUME phase' = "running"
      PROVE  /\ Walk(h, h') /\ Keeps(h, h', ghost'.floorMoved, ghost'.unmarked)
             /\ Live(h') \subseteq Live(h) \cup InsIn(pre)
             /\ Sane(h) => Sane(h')
  <2>1. SameHistory(State(log \o pre).hist, h')
    <3>1. Started' /\ phase' # "gone"
      BY <1>4 DEF Started
    <3> QED BY <1>1, <3>1, FineNext
  <2> QED BY ONLY <1>1, <1>2, <1>3, <2>1, CallInMemory
<1>5. /\ Ahead(h, State(log').hist, ghost'.floorMoved, ghost'.unmarked)
      /\ Live(State(log').hist) \subseteq Live(h) \cup InsIn(pre)
  BY ONLY <1>1, <1>2, <1>3, CallAhead
<1> QED BY <1>1, <1>4, <1>5

\* The end of the process.
LEMMA CrashMoves ==
  ASSUME SessionInv, LogInv, SessionInv', Crash
  PROVE  /\ h' = h /\ phase' = "down" /\ save' = NoSave /\ file' = file
         /\ Ahead(h, State(log').hist, ghost'.floorMoved, ghost'.unmarked)
         /\ ghost'.floorMoved = ghost.floorMoved /\ ghost'.unmarked = ghost.unmarked
<1>1. Ends /\ h' = h /\ save' = NoSave /\ file' = file /\ Started
  BY DEF Crash, Started
<1>2. PICK k \in 0..Len(stray) :
        /\ log' = log \o SubSeq(stray, 1, k)
        /\ CallRecs(SubSeq(stray, 1, k), ghost')
        /\ phase' = "down" /\ ghost'.unmarked = ghost.unmarked
        /\ ghost'.floorMoved = ghost.floorMoved
  BY <1>1, EndsGrow
<1> DEFINE recs == SubSeq(stray, 1, k)
<1>3. Fine(log, wav) /\ SameHistory(State(log).hist, h) /\ h \in HistoryState
  BY <1>1, StartedParts DEF TypeOK
<1>4. Fine(log \o recs, wav')
  BY <1>2, FineNext
<1>5. CallRecs(recs, ghost') /\ log' = log \o recs
  BY <1>2
<1> HIDE DEF recs
<1>6. Ahead(h, State(log').hist, ghost'.floorMoved, ghost'.unmarked)
  BY ONLY <1>3, <1>4, <1>5, CallAhead
<1> QED BY <1>1, <1>2, <1>6

\* What is saved changes no document.
LEMMA MarkedSavedMoves ==
  ASSUME NEW hs \in HistoryState, NEW q \in Nat
  PROVE  LET b == MarkedSavedAt(hs, q) IN
         /\ (Sane(hs) => Sane(b)) /\ Live(b) = Live(hs)
         /\ LineOf(b) = LineOf(hs) /\ PositionOf(b) = PositionOf(hs)
         /\ \A p, f : Names(b, p, f) <=> Names(hs, p, f)
         /\ b.next_seq = hs.next_seq /\ b.saved_seq = q
<1> DEFINE b == MarkedSavedAt(hs, q)
<1>1. PICK yes \in BOOLEAN : yes
  OBVIOUS
<1>2. OneCall(hs, b, yes, yes)
  BY <1>1 DEF OneCall
<1>3. /\ b.undo = hs.undo /\ b.redo = hs.redo /\ b.current = hs.current
      /\ b.next_seq = hs.next_seq /\ b.saved_seq = q
  BY DEF MarkedSavedAt, HistoryState
<1>4. Live(b) = Live(hs)
  BY LiveSteps
<1> HIDE DEF b
<1>5. Sane(hs) => Sane(b)
  BY ONLY <1>2, hs \in HistoryState, CallSane
<1>6. /\ LineOf(b) = LineOf(hs) /\ PositionOf(b) = PositionOf(hs)
      /\ \A p, f : Names(b, p, f) <=> Names(hs, p, f)
  BY <1>3, SameStacks
<1> QED BY <1>3, <1>4, <1>5, <1>6 DEF b

\* Recording that a save is done.
LEMMA MarkSavedMoves ==
  ASSUME SessionInv, MarkSaved
  PROVE  /\ phase = "running" /\ phase' = "running" /\ save' = NoSave /\ file' = file
         /\ save # NoSave /\ save.state = "written" /\ save.seq \in Nat
         /\ UNCHANGED <<take, chunks, next, journaled, bad>>
         /\ \/ h' = MarkedSavedAt(h, save.seq)
            \/ h' = h /\ ghost' = ghost
<1>1. save.state = "written"
  BY DEF MarkSaved
<1>2. save # NoSave /\ save.seq \in Nat
  BY <1>1 DEF SessionInv, TypeOK, NoSave
<1>3. /\ phase = "running" /\ phase' = "running" /\ save' = NoSave
      /\ UNCHANGED <<take, journaled, disk>>
      /\ \/ h' = MarkedSavedAt(h, save.seq)
         \/ h' = h /\ ghost' = ghost
  BY DEF MarkSaved, Idle, SavedSeq
<1> QED BY <1>1, <1>2, <1>3 DEF disk

\* Calls that leave the history alone.
LEMMA QuietMoves ==
  ASSUME BeginSave \/ WriteFile \/ Compact \/ CollectGarbage \/ UNCHANGED vars
  PROVE  h' = h /\ (phase' = "down" => log' = log)
BY DEF BeginSave, WriteFile, Compact, CollectGarbage, Idle, vars, memory, journal

\* HistInv is kept by every step.
LEMMA HistInvKeeps ==
  ASSUME SessionInv, SessionInv', LogInv, HistInv, [Next]_vars
  PROVE  HistInv'
<1>0. Sane(h) /\ h \in HistoryState /\ ghost \in GhostType
  BY DEF HistInv, SessionInv, TypeOK, LogInv
<1>1. CASE \E pre, N : Ordinary(pre, N)
  <2>1. PICK pre, N : Ordinary(pre, N)
    BY <1>1
  <2>2. /\ phase' = "running" => Sane(h')
        /\ phase' = "down" =>
             h' = h /\ Ahead(h, State(log').hist, ghost'.floorMoved, ghost'.unmarked)
        /\ phase' \in {"running", "down"}
    BY <1>0, <2>1, OrdinaryMoves
  <2> QED BY <1>0, <2>2 DEF HistInv
<1>2. CASE \E p \in SUBSET Chunk, M \in CueSets : SetFloor(p, M)
  <2>1. PICK hs : Floored(hs)
    BY <1>0, <1>2, SetFloorIs
  <2>2. /\ phase = "running" /\ Sane(hs) /\ RebasedFrom(h, hs) /\ save' = NoSave
        /\ \/ phase' # "down" /\ h' \in {h, hs}
           \/ h' = h /\ State(log').hist \in {State(log).hist, hs} /\ ghost'.unmarked
    BY <2>1 DEF Floored
  <2>3. SameHistory(State(log).hist, h) /\ State(log).hist \in HistoryState
    BY <2>2, StartedParts DEF Started
  <2>4. Ahead(h, State(log).hist, ghost'.floorMoved, ghost'.unmarked)
    BY <2>3, SameAhead
  <2> QED BY <1>0, <2>2, <2>4 DEF HistInv
<1>3. CASE MarkSaved
  <2>1. phase' = "running" /\ h' \in {h, MarkedSavedAt(h, save.seq)} /\ save.seq \in Nat
    BY <1>3, MarkSavedMoves
  <2>2. Sane(h')
    BY <1>0, <2>1, MarkedSavedMoves
  <2> QED BY <2>1, <2>2 DEF HistInv
<1>4. CASE Crash
  BY <1>0, <1>4, CrashMoves DEF HistInv
<1>5. CASE Recover
  <2>1. PICK n \in 1..Len(log) : Recovers(n)
    BY <1>5, RecoverIs
  <2> DEFINE kept == SubSeq(log, 1, n)
  <2>2. h' = State(kept).hist /\ Fine(kept, wav)
    BY <2>1 DEF Recovers
  <2>3. kept \in JournalRecords /\ (phase' = "down" => log' = kept)
    BY <2>1, RecoveredLog
  <2>4. AllSane(kept)
    <3>1. log \in JournalRecords /\ AllSane(log)
      BY LogIs DEF LogInv
    <3> QED BY <3>1, SanePrefix
  <2> HIDE DEF kept
  <2>5. Sane(h')
    BY <2>2, <2>3, <2>4, SanePrefix
  <2>6. Ahead(h', State(kept).hist, ghost'.floorMoved, ghost'.unmarked)
    <3>1. h' \in HistoryState
      BY FineNext
    <3>2. SameHistory(h', h')
      BY <3>1, SameSelf
    <3> QED BY <2>2, <3>1, <3>2, SameAhead
  <2> QED BY <2>3, <2>5, <2>6 DEF HistInv
<1>6. CASE BeginSave \/ WriteFile \/ Compact \/ CollectGarbage \/ UNCHANGED vars
  <2>1. h' = h /\ (phase' = "down" => log' = log)
    BY <1>6, QuietMoves
  <2>2. CASE WriteFile
    <3>1. PICK b \in BOOLEAN : b /\ ghost' = [ghost EXCEPT !.unmarked = b]
      BY <2>2 DEF WriteFile
    <3>2. ghost'.unmarked = b /\ ghost'.floorMoved = ghost.floorMoved
      BY <1>0, <3>1, GhostSteps
    <3>3. save # NoSave /\ phase' = phase
      BY <2>2 DEF WriteFile, NoSave
    <3>4. phase = "down" => Ahead(h, State(log).hist, ghost.floorMoved, ghost.unmarked)
      BY <3>3 DEF HistInv
    <3>5. phase = "down" => Ahead(h, State(log).hist, ghost'.floorMoved, ghost'.unmarked)
      <4>1. /\ ghost.floorMoved => ghost'.floorMoved
            /\ ghost.unmarked => ghost'.unmarked
        BY <3>1, <3>2
      <4> QED BY ONLY <3>4, <4>1, AheadGrows
    <3> QED BY <1>0, <2>1, <3>3, <3>5 DEF HistInv
  <2>3. CASE phase' # "down"
    BY <1>0, <2>1, <2>3 DEF HistInv
  <2>4. CASE UNCHANGED vars
    <3>1. UNCHANGED <<h, phase, log, ghost, save>>
      BY <2>4 DEF vars, memory, journal
    <3>2. Sane(h') /\ State(log') = State(log)
      BY <1>0, <3>1
    <3> QED BY <3>1, <3>2 DEF HistInv
  <2>5. BeginSave \/ Compact \/ CollectGarbage => phase' # "down"
    BY DEF BeginSave, Compact, CollectGarbage, Idle
  <2> QED BY <1>6, <2>2, <2>3, <2>4, <2>5
<1> QED BY <1>1, <1>2, <1>3, <1>4, <1>5, <1>6, NextKinds DEF Special

-----------------------------------------------------------------------------
(* The audio. *)

\* Chunk ids are never used twice, what is not in the journal is not damaged,
\* and no damaged chunk is in a document that is open.
AudioInv ==
  /\ IsFiniteSet(chunks) /\ IsFiniteSet(bad) /\ Cardinality(bad) <= MaxBad
  /\ next \in Nat /\ \A c \in chunks \cup bad : c < next
  /\ (chunks \ journaled) \cap bad = {}
  /\ Started => (Live(h) \cup TakeIds(take)) \cap bad \subseteq ghost.overlooked

\* An ordinary call brings in no damaged chunk: it names those the document has,
\* which are whole but for the overlooked ones, and those that are not journaled
\* yet, which are never damaged.
LEMMA OrdinaryKeepsAudio ==
  ASSUME SessionInv, SessionInv', AudioInv, NEW pre, NEW N, Ordinary(pre, N)
  PROVE  AudioInv'
<1>1. /\ \/ N = {} /\ next' = next
         \/ N = {next} /\ next' = next + 1
      /\ chunks' = chunks \cup N /\ journaled \subseteq journaled' /\ bad' = bad
      /\ InsIn(pre) \subseteq Live(h) \cup (chunks \ journaled) \cup N \cup TakeIds(take)
      /\ TakeIds(take') \subseteq TakeIds(take) \cup N
      /\ Started
  BY DEF Ordinary, AudioGrows
<1>2. IsFiniteSet(chunks')
  <2>1. IsFiniteSet(chunks) /\ IsFiniteSet(chunks \cup {next})
    BY FS_AddElement DEF AudioInv
  <2>2. chunks' = chunks \/ chunks' = chunks \cup {next}
    BY <1>1
  <2> QED BY <2>1, <2>2
<1>3. next' \in Nat /\ \A c \in chunks' \cup bad' : c < next'
  <2>1. next \in Nat /\ \A c \in chunks \cup bad : c < next
    BY DEF AudioInv
  <2>2. chunks \subseteq Nat /\ bad \subseteq Nat
    BY ChunkIsNat DEF SessionInv, TypeOK
  <2> QED BY <1>1, <2>1, <2>2
<1>4. N \cap bad = {}
  <2>1. next \in Nat /\ \A c \in bad : c < next
    BY DEF AudioInv
  <2> QED BY <1>1, <2>1
<1>5. (chunks' \ journaled') \cap bad' = {}
  BY <1>1, <1>4 DEF AudioInv
<1>6. Started' => (Live(h') \cup TakeIds(take')) \cap bad' \subseteq ghost'.overlooked
  <2> SUFFICES ASSUME Started'
               PROVE  (Live(h') \cup TakeIds(take')) \cap bad' \subseteq ghost'.overlooked
    OBVIOUS
  <2>1. /\ (Live(h) \cup TakeIds(take)) \cap bad \subseteq ghost.overlooked
        /\ (chunks \ journaled) \cap bad = {}
    BY <1>1 DEF AudioInv
  <2>2. phase' = "running"
    <3>1. phase' \in {"running", "down"}
      BY OrdinaryMoves
    <3> QED BY <3>1 DEF Started
  <2>3. Live(h') \subseteq Live(h) \cup InsIn(pre)
    BY <2>2, OrdinaryMoves
  <2>4. ghost'.overlooked = ghost.overlooked
    BY DEF Ordinary, LogGrows, GhostGrows
  <2> QED BY <1>1, <1>4, <2>1, <2>3, <2>4
<1> QED BY <1>1, <1>2, <1>3, <1>5, <1>6 DEF AudioInv

\* A step that writes no chunk, damages none and takes no more into the document.
LEMMA AudioStays ==
  ASSUME SessionInv, AudioInv, chunks' \subseteq chunks, UNCHANGED <<next, bad>>,
         ghost'.overlooked = ghost.overlooked,
         chunks' \ journaled' \subseteq chunks \ journaled,
         Started' => Started /\ Live(h') \subseteq Live(h) /\ take' = take
  PROVE  AudioInv'
<1>1. IsFiniteSet(chunks')
  BY FS_Subset DEF AudioInv
<1>2. Started' => (Live(h') \cup TakeIds(take')) \cap bad' \subseteq ghost'.overlooked
  BY DEF AudioInv
<1> QED BY <1>1, <1>2 DEF AudioInv

\* A floor is set while nothing is journaled, so that nothing it names is damaged.
LEMMA SetFloorKeepsAudio ==
  ASSUME SessionInv, AudioInv, NEW hs, Floored(hs)
  PROVE  AudioInv'
<1>1. /\ phase = "running" /\ take = NoOpen /\ journaled = {} /\ Live(hs) \subseteq chunks
      /\ UNCHANGED <<take, chunks, next, bad>>
      /\ Started' => h' = hs
  BY DEF Floored, Started
<1>2. TakeIds(take') = {}
  BY <1>1 DEF TakeIds
<1>3. Started' => (Live(h') \cup TakeIds(take')) \cap bad' = {}
  BY <1>1, <1>2 DEF AudioInv
<1>4. (chunks' \ journaled') \cap bad' = {}
  BY <1>1 DEF AudioInv
<1> QED BY <1>1, <1>3, <1>4 DEF AudioInv

\* A crash damages journaled chunks only, and no more than the bound.
LEMMA CrashKeepsAudio ==
  ASSUME SessionInv, AudioInv, Crash
  PROVE  AudioInv'
<1>1. /\ phase' = "down" /\ UNCHANGED <<chunks, journaled, next>>
  BY DEF Crash, Ends
<1>2. PICK D \in SUBSET journaled : Cardinality(bad \cup D) <= MaxBad /\ bad' = bad \cup D
  BY DEF Crash
<1>3. D \subseteq chunks
  BY DEF SessionInv, TypeOK
<1>4. IsFiniteSet(D)
  BY <1>3, FS_Subset DEF AudioInv
<1>5. IsFiniteSet(bad')
  BY <1>2, <1>4, FS_Union DEF AudioInv
<1>6. ~Started'
  BY <1>1 DEF Started
<1>7. /\ \A c \in chunks' \cup bad' : c < next'
      /\ (chunks' \ journaled') \cap bad' = {}
  BY <1>1, <1>2, <1>3 DEF AudioInv
<1> QED BY <1>1, <1>2, <1>5, <1>6, <1>7 DEF AudioInv

\* The ids of a journal, and those of its beginning.
LEMMA RecoveredIds ==
  ASSUME SessionInv, AudioInv, NEW n \in 1..Len(log), Recovers(n)
  PROVE  /\ State(SubSeq(log, 1, n)).ids \subseteq State(log).ids
         /\ State(log).ids \subseteq chunks
         /\ next' \in Nat /\ \A c \in State(log).ids : c < next'
<1> DEFINE kept == SubSeq(log, 1, n)
<1>1. Fine(log, wav) /\ log \in Seq(Record) /\ Fine(kept, wav)
  BY LogIs DEF Recovers
<1>2. /\ IdsIn(log) \subseteq durable /\ durable \subseteq chunks
  BY DEF SessionInv, DiskInv, TypeOK
<1>3. State(log).ids = IdsIn(log) /\ State(kept).ids = IdsIn(kept)
  <2> HIDE DEF kept
  <2> QED BY ONLY <1>1, FineSound
<1>4. IdsIn(kept) \subseteq IdsIn(log)
  <2>1. /\ DOMAIN kept = 1..n /\ DOMAIN log = 1..Len(log) /\ Len(log) \in Nat
        /\ \A i \in 1..n : kept[i] = log[i]
    <3>1. Len(log) \in Nat /\ n \in 0..Len(log)
      BY <1>1, LenProperties
    <3> QED BY <1>1, <3>1, PrefixProperties
  <2> HIDE DEF kept
  <2>2. \A i \in 1..n : i \in 1..Len(log)
    BY <2>1
  <2> QED BY <2>1, <2>2 DEF IdsIn
<1>5. next \in Nat /\ (\A c \in chunks : c < next) /\ chunks \subseteq Nat
  BY ChunkIsNat DEF AudioInv, SessionInv, TypeOK
<1> DEFINE I == State(log).ids
<1>6. I \subseteq chunks
  BY <1>2, <1>3
<1>7. next' = Highest(I) + 1
  BY DEF Recovers
<1> HIDE DEF I
<1>8. I \in SUBSET (0..next)
  <2>1. \A c \in I : c \in Nat /\ c < next
    BY <1>5, <1>6
  <2> QED BY <1>5, <2>1
<1> DEFINE m == Highest(I)
<1>9. m \in I \cup {0} /\ (\A k \in I : k <= m) /\ next' = m + 1
  BY <1>5, <1>7, <1>8, HighestIs
<1> HIDE DEF m
<1>10. m \in Nat
  BY <1>5, <1>8, <1>9
<1>11. next' \in Nat /\ \A c \in I : c < next'
  <2>1. \A c \in I : c \in Nat
    BY <1>5, <1>8
  <2> QED BY <1>9, <1>10, <2>1
<1> QED BY <1>2, <1>3, <1>4, <1>11 DEF I

\* A recovery that finds damaged chunks goes back to before the first of them;
\* what is damaged there was overlooked.
LEMMA RecoverKeepsAudio ==
  ASSUME SessionInv, AudioInv, NEW n \in 1..Len(log), Recovers(n)
  PROVE  AudioInv'
<1> DEFINE kept == SubSeq(log, 1, n)
           hurt == Live(State(log).hist) \cap bad
<1>1. /\ h' = State(kept).hist /\ journaled' = State(kept).ids /\ chunks' = State(kept).ids
      /\ bad' = bad \cap State(kept).ids /\ TakeIds(take') = {}
      /\ Live(State(kept).hist) \cap hurt = {}
      /\ ghost'.overlooked = ghost.overlooked \cup Overlooked(State(kept).hist)
  BY DEF Recovers
<1>2. /\ State(kept).ids \subseteq State(log).ids /\ State(log).ids \subseteq chunks
      /\ next' \in Nat /\ \A c \in State(log).ids : c < next'
  BY RecoveredIds
<1> HIDE DEF kept
<1>4. IsFiniteSet(chunks') /\ IsFiniteSet(bad') /\ Cardinality(bad') <= MaxBad
  <2>1. chunks' \subseteq chunks /\ bad' \subseteq bad
    BY <1>1, <1>2
  <2>2. IsFiniteSet(chunks) /\ IsFiniteSet(bad) /\ Cardinality(bad) <= MaxBad
    BY DEF AudioInv
  <2>3. IsFiniteSet(bad') /\ Cardinality(bad') <= Cardinality(bad) /\ IsFiniteSet(chunks')
    BY <2>1, <2>2, FS_Subset
  <2>4. Cardinality(bad) \in Nat /\ Cardinality(bad') \in Nat /\ MaxBad \in Nat
    BY <2>2, <2>3, FS_CardinalityType, BoundsAreNat
  <2> QED BY <2>2, <2>3, <2>4
<1>5. Live(h') \cap bad' \subseteq ghost'.overlooked
  <2>1. Live(State(kept).hist) \cap bad \subseteq Overlooked(State(kept).hist)
    BY <1>1 DEF Overlooked, State
  <2> QED BY <1>1, <2>1
<1> QED BY <1>1, <1>2, <1>4, <1>5 DEF AudioInv

\* The steps that are no calls of a document overlook nothing, but for a recovery.
LEMMA NothingOverlooked ==
  ASSUME LogInv, \/ MarkSaved \/ WriteFile \/ Compact \/ Crash
                 \/ BeginSave \/ CollectGarbage \/ UNCHANGED vars
  PROVE  ghost'.overlooked = ghost.overlooked
<1>1. ghost \in GhostType
  BY DEF LogInv
<1>2. CASE MarkSaved \/ WriteFile
  <2>1. \/ ghost' = ghost
        \/ ghost' = [ghost EXCEPT !.unmarked = TRUE]
        \/ ghost' = [ghost EXCEPT !.unmarked = FALSE]
    BY <1>2 DEF MarkSaved, WriteFile
  <2>2. ASSUME NEW b \in BOOLEAN, ghost' = [ghost EXCEPT !.unmarked = b]
        PROVE  ghost'.overlooked = ghost.overlooked
    BY <1>1, <2>2, GhostSteps
  <2>3. TRUE \in BOOLEAN /\ FALSE \in BOOLEAN
    OBVIOUS
  <2> QED BY ONLY <2>1, <2>2, <2>3
<1>3. CASE Compact
  <2>1. PICK b \in BOOLEAN : ghost' = [ghost EXCEPT !.compacted = b]
    BY <1>3 DEF Compact
  <2> QED BY <1>1, <2>1 DEF GhostType
<1>4. CASE Crash
  <2>1. PICK k \in 0..Len(stray) : ghost' = [ghost EXCEPT !.resurfaced = @ \/ k > 0]
    BY <1>4 DEF Crash, Ends
  <2>2. PICK b \in BOOLEAN : ghost' = [ghost EXCEPT !.resurfaced = b]
    <3> DEFINE b == ghost.resurfaced \/ k > 0
    <3>1. b \in BOOLEAN /\ ghost' = [ghost EXCEPT !.resurfaced = b]
      BY <2>1
    <3> HIDE DEF b
    <3> QED BY <3>1
  <2> QED BY <1>1, <2>2, GhostSteps
<1>5. CASE BeginSave \/ CollectGarbage \/ UNCHANGED vars
  BY <1>5 DEF BeginSave, CollectGarbage, vars
<1> QED BY <1>2, <1>3, <1>4, <1>5

\* AudioInv is kept by every step.
LEMMA AudioInvKeeps ==
  ASSUME SessionInv, SessionInv', LogInv, HistInv, AudioInv, [Next]_vars
  PROVE  AudioInv'
<1>1. CASE \E pre, N : Ordinary(pre, N)
  BY <1>1, OrdinaryKeepsAudio
<1>2. CASE \E p \in SUBSET Chunk, M \in CueSets : SetFloor(p, M)
  <2>1. PICK hs : Floored(hs)
    BY <1>2, SetFloorIs DEF HistInv
  <2> QED BY <2>1, SetFloorKeepsAudio
<1>3. CASE MarkSaved
  <2>1. /\ UNCHANGED <<take, chunks, next, journaled, bad>> /\ phase = "running"
        /\ h' = MarkedSavedAt(h, save.seq) \/ h' = h
        /\ save.seq \in Nat
    BY <1>3, MarkSavedMoves
  <2>2. h \in HistoryState
    BY DEF SessionInv, TypeOK
  <2>3. Live(h') = Live(h)
    BY <2>1, <2>2, MarkedSavedMoves
  <2>4. ghost'.overlooked = ghost.overlooked
    BY <1>3, NothingOverlooked
  <2> QED BY <2>1, <2>3, <2>4, AudioStays DEF Started
<1>4. CASE Crash
  BY <1>4, CrashKeepsAudio
<1>5. CASE Recover
  <2>1. PICK n \in 1..Len(log) : Recovers(n)
    BY <1>5, RecoverIs
  <2> QED BY <2>1, RecoverKeepsAudio
<1>6. CASE Compact
  <2>1. /\ Started /\ chunks' = Live(h) /\ journaled' = Live(h)
        /\ UNCHANGED <<phase, h, take, next, bad>>
    BY <1>6 DEF Compact, Idle, Started
  <2>2. Live(h) \subseteq chunks
    <3>1. Standing(State(log), Summary(log), wav) /\ SameHistory(State(log).hist, h)
          /\ State(log).hist \in HistoryState /\ State(log).ids = journaled
      BY <2>1, StartedParts
    <3>2. Live(State(log).hist) \subseteq State(log).ids
      BY ONLY <3>1, StandingParts
    <3>3. Live(State(log).hist) = Live(h) /\ journaled \subseteq chunks
      BY <3>1, SameIs DEF SessionInv, TypeOK
    <3> QED BY <3>1, <3>2, <3>3
  <2>3. ghost'.overlooked = ghost.overlooked
    BY <1>6, NothingOverlooked
  <2> QED BY <2>1, <2>2, <2>3, AudioStays
<1>7. CASE BeginSave \/ WriteFile \/ CollectGarbage \/ UNCHANGED vars
  <2>1. /\ UNCHANGED <<chunks, next, bad, journaled, h, take>>
        /\ phase' \in {phase, "gone"}
    BY <1>7 DEF BeginSave, WriteFile, CollectGarbage, vars, memory, disk
  <2>2. ghost'.overlooked = ghost.overlooked
    BY <1>7, NothingOverlooked
  <2> QED BY <2>1, <2>2, AudioStays DEF Started
<1> QED BY <1>1, <1>2, <1>3, <1>4, <1>5, <1>6, <1>7, NextKinds DEF Special

-----------------------------------------------------------------------------
(* What is saved. *)

\* Seq q names f in hs.
Named(hs, q, f) == q < hs.next_seq /\ Names(hs, q, f)

\* The saved seq names what the file holds.
FileStands == phase # "gone" /\ SavedSeqStands => Named(h, h.saved_seq, file)

\* The captured seq names the captured document as long as a save runs.
SaveStands ==
  save # NoSave => /\ save.seq < h.next_seq
                   /\ (ghost.floorMoved /\ save.seq = 0) \/ Names(h, save.seq, save.doc)

\* A session dropped while a save ran comes back whole.
SaveIntact == phase = "down" /\ save # NoSave => Live(State(log).hist) \cap bad = {}

SavedInv == FileStands /\ SaveStands /\ SaveIntact

\* A name that a call keeps.
LEMMA KeptName ==
  ASSUME NEW a \in HistoryState, NEW b \in HistoryState, NEW floor, NEW mark,
         Keeps(a, b, floor, mark), NEW q \in Nat, NEW f, q < a.next_seq
  PROVE  /\ q < b.next_seq
         /\ ~(floor /\ q = 0) /\ Names(a, q, f) => Names(b, q, f)
<1>1. a.next_seq \in Nat /\ b.next_seq \in Nat
  BY HistoryParts
<1>2. a.next_seq <= b.next_seq
  BY DEF Keeps
<1>3. q < b.next_seq
  BY <1>1, <1>2
<1>4. ~(floor /\ q = 0) /\ Names(a, q, f) => Names(b, q, f)
  BY DEF Keeps
<1> QED BY <1>3, <1>4

\* A history keeps its own names.
LEMMA KeepsSelf ==
  ASSUME NEW a \in HistoryState
  PROVE  \A floor, mark : Keeps(a, a, floor, mark)
<1>1. a.next_seq <= a.next_seq
  BY HistoryParts
<1> QED BY <1>1 DEF Keeps

\* A step that keeps the names, and the file.
LEMMA KeptStands ==
  ASSUME SessionInv, SessionInv', SavedInv, phase # "gone", ghost \in GhostType,
         Keeps(h, h', ghost'.floorMoved, ghost'.unmarked),
         ghost.floorMoved => ghost'.floorMoved, ghost.unmarked => ghost'.unmarked,
         save' = save \/ save' = NoSave, file' = file
  PROVE  FileStands' /\ SaveStands'
<1>1. h \in HistoryState /\ h' \in HistoryState /\ h.saved_seq \in Nat
  BY HistoryParts DEF SessionInv, TypeOK
<1>2. ASSUME SavedSeqStands'
      PROVE  Named(h', h'.saved_seq, file')
  <2>1. ~ghost'.unmarked /\ ~(ghost'.floorMoved /\ h'.saved_seq = 0)
    BY <1>2 DEF SavedSeqStands
  <2>2. h'.saved_seq = h.saved_seq
    BY <2>1 DEF Keeps
  <2>3. SavedSeqStands
    BY <2>1, <2>2 DEF SavedSeqStands
  <2>4. h.saved_seq < h.next_seq /\ Names(h, h.saved_seq, file)
    BY <2>3 DEF SavedInv, FileStands, Named
  <2> DEFINE floor == ghost'.floorMoved
             mark  == ghost'.unmarked
             q     == h.saved_seq
  <2>5. ~(floor /\ q = 0) /\ Keeps(h, h', floor, mark)
    BY <2>1, <2>2
  <2>6. q \in Nat /\ q < h.next_seq /\ Names(h, q, file)
    BY <1>1, <2>4
  <2> HIDE DEF floor, mark, q
  <2>7. q < h'.next_seq /\ Names(h', q, file)
    BY ONLY <1>1, <2>5, <2>6, KeptName
  <2> QED BY <2>2, <2>7 DEF Named, q
<1>3. ASSUME save' # NoSave
      PROVE  /\ save'.seq < h'.next_seq
             /\ (ghost'.floorMoved /\ save'.seq = 0) \/ Names(h', save'.seq, save'.doc)
  <2>1. save' = save /\ save # NoSave
    BY <1>3
  <2> DEFINE floor == ghost'.floorMoved
             mark  == ghost'.unmarked
             q     == save.seq
             f     == save.doc
  <2>2. q \in Nat
    BY <2>1 DEF SessionInv, TypeOK
  <2>3. q < h.next_seq /\ ((floor /\ q = 0) \/ Names(h, q, f))
    BY <2>1 DEF SavedInv, SaveStands
  <2>4. Keeps(h, h', floor, mark)
    OBVIOUS
  <2> HIDE DEF floor, mark, q, f
  <2>5. /\ q < h'.next_seq
        /\ ~(floor /\ q = 0) /\ Names(h, q, f) => Names(h', q, f)
    BY ONLY <1>1, <2>2, <2>3, <2>4, KeptName
  <2>6. /\ q < h'.next_seq
        /\ (floor /\ q = 0) \/ Names(h', q, f)
    BY ONLY <2>3, <2>5
  <2> QED BY <2>1, <2>6 DEF floor, q, f
<1> QED BY <1>2, <1>3 DEF FileStands, SaveStands

\* An ordinary call keeps the names of the line, but for a floor that is dropped.
LEMMA OrdinaryKeepsSaved ==
  ASSUME SessionInv, SessionInv', LogInv, HistInv, AudioInv, SavedInv, ghost.overlooked = {},
         NEW pre, NEW N, Ordinary(pre, N)
  PROVE  SavedInv'
<1>1. /\ Started /\ save' = save /\ file' = file /\ bad' = bad
      /\ Grows(ghost, ghost') /\ phase # "gone"
      /\ InsIn(pre) \subseteq Live(h) \cup (chunks \ journaled) \cup N \cup TakeIds(take)
      /\ N \subseteq {next}
  BY DEF Ordinary, LogGrows, GhostGrows, AudioGrows, Started
<1>2. h \in HistoryState /\ ghost \in GhostType
  BY DEF SessionInv, TypeOK, LogInv
<1>3. Keeps(h, h', ghost'.floorMoved, ghost'.unmarked)
  <2>1. CASE phase' = "running"
    BY <2>1, OrdinaryMoves
  <2>2. CASE phase' = "down"
    <3>1. h' = h
      BY <2>2, OrdinaryMoves
    <3>2. Keeps(h, h, ghost'.floorMoved, ghost'.unmarked)
      BY <1>2, KeepsSelf
    <3> QED BY <3>1, <3>2
  <2>3. phase' \in {"running", "down"}
    BY OrdinaryMoves
  <2> QED BY <2>1, <2>2, <2>3
<1>4. FileStands' /\ SaveStands'
  <2>1. (ghost.floorMoved => ghost'.floorMoved) /\ (ghost.unmarked => ghost'.unmarked)
    BY <1>1 DEF Grows
  <2> QED BY <1>1, <1>2, <1>3, <2>1, KeptStands
<1>5. ASSUME phase' = "down"
      PROVE  Live(State(log').hist) \cap bad' = {}
  <2>1. Live(State(log').hist) \subseteq Live(h) \cup InsIn(pre)
    BY <1>5, OrdinaryMoves
  <2>2. /\ (Live(h) \cup TakeIds(take)) \cap bad = {} /\ (chunks \ journaled) \cap bad = {}
        /\ next \in Nat /\ \A c \in bad : c < next
    BY <1>1 DEF AudioInv
  <2>3. next \notin bad
    BY <2>2
  <2> QED BY <1>1, <2>1, <2>2, <2>3
<1> QED BY <1>4, <1>5 DEF SavedInv, SaveIntact

\* A history of one document.
LEMMA AloneNames ==
  ASSUME NEW hs \in HistoryState, hs.undo = <<>>, hs.redo = <<>>
  PROVE  \A q : Names(hs, q, Content(hs.current))
<1>1. Len(hs.undo) = 0 /\ Len(hs.redo) = 0
  OBVIOUS
<1>2. LineLen(hs) = 1
  BY <1>1 DEF LineLen
<1>3. LineAt(hs, 1) = Content(hs.current)
  BY <1>1 DEF LineAt
<1>4. \A i \in 1..LineLen(hs) : i = 1
  BY <1>2
<1> QED BY <1>3, <1>4 DEF Names

\* A floor is what the file holds, and the only document.
LEMMA SetFloorKeepsSaved ==
  ASSUME SessionInv, SavedInv, NEW hs, Floored(hs)
  PROVE  SavedInv'
<1>1. /\ hs \in HistoryState /\ RebasedFrom(h, hs) /\ save' = NoSave
      /\ \/ phase' = "running" /\ h' = hs
         \/ phase' = "down" /\ ghost'.unmarked
         \/ phase' = "gone"
      /\ file' = Content(hs.current)
  BY DEF Floored
<1>2. hs.undo = <<>> /\ hs.redo = <<>> /\ hs.saved_seq = 0 /\ hs.next_seq = 1
  BY <1>1 DEF RebasedFrom, Rebased
<1>3. Named(hs, hs.saved_seq, file')
  <2>1. Names(hs, hs.saved_seq, Content(hs.current))
    BY <1>1, <1>2, AloneNames
  <2>2. hs.saved_seq < hs.next_seq
    BY <1>2
  <2> QED BY <1>1, <2>1, <2>2 DEF Named
<1> QED BY <1>1, <1>3 DEF SavedInv, FileStands, SaveStands, SaveIntact, SavedSeqStands

\* The seq captured with a document names it.
LEMMA BeginSaveKeepsSaved ==
  ASSUME SessionInv, HistInv, SavedInv, BeginSave
  PROVE  SavedInv'
<1>1. /\ save' = [state |-> "writing", seq |-> CurrentSeq(h), doc |-> Content(h.current)]
      /\ UNCHANGED <<h, ghost, file, phase>> /\ phase = "running"
  BY DEF BeginSave, Idle, disk
<1>2. CurrentSeq(h) < h.next_seq /\ Names(h, CurrentSeq(h), Content(h.current))
  <2>1. h \in HistoryState /\ Ordered(h)
    BY DEF SessionInv, TypeOK, HistInv, Sane
  <2> QED BY <2>1, OrderedNames
<1>3. save'.seq = CurrentSeq(h) /\ save'.doc = Content(h.current)
  BY <1>1
<1>4. FileStands'
  BY <1>1 DEF SavedInv, FileStands, SavedSeqStands
<1>5. SaveStands'
  BY <1>1, <1>2, <1>3 DEF SaveStands
<1> QED BY <1>1, <1>4, <1>5 DEF SavedInv, SaveIntact

\* Until the save is recorded nothing is said of the file.
LEMMA WriteFileKeepsSaved ==
  ASSUME SessionInv, LogInv, SavedInv, WriteFile
  PROVE  SavedInv'
<1>1. /\ save.state = "writing" /\ save' = [save EXCEPT !.state = "written"]
      /\ UNCHANGED <<h, phase, log, bad>>
  BY DEF WriteFile, journal
<1>2. PICK b \in BOOLEAN : b /\ ghost' = [ghost EXCEPT !.unmarked = b]
  BY DEF WriteFile
<1>3. ghost'.unmarked = b /\ ghost'.floorMoved = ghost.floorMoved
  BY <1>2, GhostSteps DEF LogInv
<1>4. save'.doc = save.doc /\ save'.seq = save.seq /\ save # NoSave
  <2>1. save \in [state : {"writing", "written"}, seq : Nat, doc : Document] /\ save # NoSave
    BY <1>1 DEF SessionInv, TypeOK, NoSave
  <2> QED BY <1>1, <2>1
<1>5. FileStands'
  BY <1>2, <1>3 DEF FileStands, SavedSeqStands
<1>6. SaveStands'
  BY <1>1, <1>3, <1>4 DEF SavedInv, SaveStands
<1>7. SaveIntact'
  BY <1>1, <1>4 DEF SavedInv, SaveIntact
<1> QED BY <1>5, <1>6, <1>7 DEF SavedInv

\* The captured seq still names what was written, whatever was edited meanwhile.
LEMMA MarkSavedKeepsSaved ==
  ASSUME SessionInv, LogInv, SavedInv, MarkSaved
  PROVE  SavedInv'
<1>1. /\ phase = "running" /\ phase' = "running" /\ save' = NoSave /\ file' = file
      /\ save # NoSave /\ save.state = "written" /\ save.seq \in Nat
  BY MarkSavedMoves
<1>2. \/ /\ h' = MarkedSavedAt(h, save.seq)
         /\ \E b \in BOOLEAN : ~b /\ ghost' = [ghost EXCEPT !.unmarked = b]
      \/ h' = h /\ ghost' = ghost
  <2>1. ghost' = [ghost EXCEPT !.unmarked = FALSE] =>
          \E b \in BOOLEAN : ~b /\ ghost' = [ghost EXCEPT !.unmarked = b]
    OBVIOUS
  <2> QED BY <2>1 DEF MarkSaved, SavedSeq
<1>3. h \in HistoryState /\ file = save.doc /\ ghost \in GhostType
  BY <1>1 DEF SessionInv, TypeOK, LogInv
<1>4. CASE /\ h' = MarkedSavedAt(h, save.seq)
           /\ \E b \in BOOLEAN : ~b /\ ghost' = [ghost EXCEPT !.unmarked = b]
  <2>1. PICK b \in BOOLEAN : ghost' = [ghost EXCEPT !.unmarked = b]
    BY <1>4
  <2>2. ghost'.floorMoved = ghost.floorMoved
    BY <1>3, <2>1, GhostSteps
  <2>3. /\ \A q, f : Names(h', q, f) <=> Names(h, q, f)
        /\ h'.next_seq = h.next_seq /\ h'.saved_seq = save.seq
    BY <1>1, <1>3, <1>4, MarkedSavedMoves
  <2>4. /\ save.seq < h.next_seq
        /\ (ghost.floorMoved /\ save.seq = 0) \/ Names(h, save.seq, save.doc)
    BY <1>1 DEF SavedInv, SaveStands
  <2>5. FileStands'
    BY <1>1, <1>3, <2>2, <2>3, <2>4 DEF FileStands, SavedSeqStands, Named
  <2> QED BY <1>1, <2>5 DEF SavedInv, SaveStands, SaveIntact
<1>5. CASE h' = h /\ ghost' = ghost
  <2>1. FileStands'
    BY <1>1, <1>5 DEF SavedInv, FileStands, SavedSeqStands
  <2> QED BY <1>1, <2>1 DEF SavedInv, SaveStands, SaveIntact
<1> QED BY <1>2, <1>4, <1>5

\* A step that leaves history, save and file alone.
LEMMA SavedStays ==
  ASSUME SavedInv, UNCHANGED <<h, file>>, save' = save \/ save' = NoSave,
         phase' # "gone" => phase # "gone",
         ghost'.unmarked = ghost.unmarked, ghost'.floorMoved = ghost.floorMoved,
         phase' = "down" /\ save' # NoSave => phase = "down" /\ log' = log /\ bad' = bad
  PROVE  SavedInv'
<1>1. FileStands'
  BY DEF SavedInv, FileStands, SavedSeqStands
<1>2. SaveStands'
  BY DEF SavedInv, SaveStands
<1>3. SaveIntact'
  BY DEF SavedInv, SaveIntact
<1> QED BY <1>1, <1>2, <1>3 DEF SavedInv

\* A recovery with a save in flight is whole; one that was cut says nothing of the
\* file.
LEMMA RecoverKeepsSaved ==
  ASSUME SessionInv, SessionInv', LogInv, HistInv, SavedInv, NEW n \in 1..Len(log), Recovers(n)
  PROVE  SavedInv'
<1> DEFINE kept == SubSeq(log, 1, n)
<1>1. /\ phase = "down" /\ h' = State(kept).hist /\ UNCHANGED <<save, file>>
      /\ bad' \subseteq bad /\ ghost'.floorMoved = ghost.floorMoved
      /\ \/ n = Len(log) /\ ghost'.unmarked = ghost.unmarked
         \/ n < Len(log) /\ ghost'.unmarked
      /\ Live(State(log).hist) \cap bad = {} => n = Len(log)
  BY DEF Recovers
<1>2. (n = Len(log) => kept = log) /\ (phase' = "down" => log' = kept)
  BY RecoveredLog
<1>3. n = Len(log) => ~(n < Len(log))
  <2>1. Len(log) \in Nat
    BY LogIs, JournalIs
  <2> QED BY <2>1
<1> HIDE DEF kept
<1>4. save # NoSave => Live(State(log).hist) \cap bad = {}
  BY <1>1 DEF SavedInv, SaveIntact
<1>5. SaveIntact'
  <2> SUFFICES ASSUME phase' = "down", save' # NoSave
               PROVE  Live(State(log').hist) \cap bad' = {}
    BY DEF SaveIntact
  <2>1. log' = log /\ Live(State(log).hist) \cap bad = {}
    BY <1>1, <1>2, <1>4
  <2> QED BY <1>1, <2>1
<1>6. CASE ghost'.unmarked /\ save = NoSave
  BY <1>1, <1>5, <1>6 DEF SavedInv, FileStands, SavedSeqStands, SaveStands
<1>7. CASE n = Len(log) /\ ~(ghost.unmarked /\ save = NoSave)
  <2>1. h' = State(log).hist /\ ghost'.unmarked = ghost.unmarked
    BY <1>1, <1>2, <1>3, <1>7
  <2>2. Ahead(h, State(log).hist, ghost.floorMoved, ghost.unmarked)
    BY <1>1, <1>7 DEF HistInv
  <2>3. Keeps(h, h', ghost'.floorMoved, ghost'.unmarked)
    BY <1>1, <2>1, <2>2, AheadParts
  <2>4. ghost \in GhostType /\ phase # "gone"
    BY <1>1 DEF LogInv
  <2>5. FileStands' /\ SaveStands'
    BY <1>1, <2>1, <2>3, <2>4, KeptStands
  <2> QED BY <1>5, <2>5 DEF SavedInv
<1>8. n = Len(log) \/ (n < Len(log) /\ ghost'.unmarked /\ save = NoSave)
  BY <1>1, <1>3, <1>4
<1>9. n = Len(log) /\ ghost.unmarked => ghost'.unmarked
  BY <1>1
<1> QED BY <1>6, <1>7, <1>8, <1>9

\* While nothing was overlooked, SavedInv is kept by every step.
LEMMA SavedInvKeeps ==
  ASSUME SessionInv, SessionInv', LogInv, HistInv, AudioInv, SavedInv, ghost.overlooked = {},
         [Next]_vars
  PROVE  SavedInv'
<1>1. CASE \E pre, N : Ordinary(pre, N)
  BY <1>1, OrdinaryKeepsSaved
<1>2. CASE \E p \in SUBSET Chunk, M \in CueSets : SetFloor(p, M)
  <2>1. PICK hs : Floored(hs)
    BY <1>2, SetFloorIs DEF HistInv
  <2> QED BY <2>1, SetFloorKeepsSaved
<1>3. CASE BeginSave
  BY <1>3, BeginSaveKeepsSaved
<1>4. CASE WriteFile
  BY <1>4, WriteFileKeepsSaved
<1>5. CASE MarkSaved
  BY <1>5, MarkSavedKeepsSaved
<1>6. CASE Crash
  <2>1. phase # "gone"
    BY <1>6 DEF Crash
  <2> QED BY <1>6, <2>1, CrashMoves, SavedStays
<1>7. CASE Recover
  <2>1. PICK n \in 1..Len(log) : Recovers(n)
    BY <1>7, RecoverIs
  <2> QED BY <2>1, RecoverKeepsSaved
<1>8. CASE Compact
  <2>1. PICK b \in BOOLEAN : ghost' = [ghost EXCEPT !.compacted = b]
    BY <1>8 DEF Compact
  <2>2. ghost'.unmarked = ghost.unmarked /\ ghost'.floorMoved = ghost.floorMoved
    <3>1. ghost \in GhostType
      BY DEF LogInv
    <3> QED BY <2>1, <3>1 DEF GhostType
  <2>3. UNCHANGED <<h, file, save, phase>> /\ phase = "running"
    BY <1>8 DEF Compact, Idle
  <2> QED BY <2>2, <2>3, SavedStays
<1>9. CASE CollectGarbage \/ UNCHANGED vars
  <2>1. /\ UNCHANGED <<h, file, save, ghost, log, bad>> /\ phase' \in {phase, "gone"}
    BY <1>9 DEF CollectGarbage, vars, memory, disk, journal
  <2> QED BY <2>1, SavedStays
<1> QED BY <1>1, <1>2, <1>3, <1>4, <1>5, <1>6, <1>7, <1>8, <1>9, NextKinds DEF Special

\* What was overlooked once stays so.
LEMMA OverlookedStays ==
  ASSUME SessionInv, LogInv, HistInv, [Next]_vars
  PROVE  ghost.overlooked \subseteq ghost'.overlooked
<1>1. CASE \E pre, N : Ordinary(pre, N)
  BY <1>1 DEF Ordinary, LogGrows, GhostGrows
<1>2. CASE \E p \in SUBSET Chunk, M \in CueSets : SetFloor(p, M)
  <2>1. PICK hs : Floored(hs)
    BY <1>2, SetFloorIs DEF HistInv
  <2> QED BY <2>1 DEF Floored
<1>3. CASE Recover
  <2>1. PICK n \in 1..Len(log) : Recovers(n)
    BY <1>3, RecoverIs
  <2>2. \E D : ghost'.overlooked = ghost.overlooked \cup D
    BY <2>1 DEF Recovers
  <2> QED BY <2>2
<1>4. CASE \/ MarkSaved \/ WriteFile \/ Compact \/ Crash
           \/ BeginSave \/ CollectGarbage \/ UNCHANGED vars
  BY <1>4, NothingOverlooked
<1> QED BY <1>1, <1>2, <1>3, <1>4, NextKinds DEF Special

-----------------------------------------------------------------------------
(* The invariants hold, and what follows from them. *)

\* What a new recording has, beyond SessionInv.
LEMMA InitIsDeep ==
  ASSUME Init
  PROVE  LogInv /\ HistInv /\ AudioInv /\ SavedInv
<1> DEFINE hs == New({}, {})
           L  == <<Checkpoint(hs, {})>>
<1>1. /\ phase = "running" /\ h = hs /\ take = NoOpen /\ journaled = {} /\ save = NoSave
      /\ log = L /\ stray = <<>> /\ chunks = {} /\ next = 1 /\ bad = {}
      /\ file = Content(hs.current)
  BY DEF Init
<1>2. /\ ghost \in GhostType /\ ghost.tails = {} /\ ghost.overlooked = {}
  <2>1. PICK no \in BOOLEAN : no = FALSE
    OBVIOUS
  <2>2. ghost = [floorMoved |-> no, unmarked |-> no, resurfaced |-> no,
                 closing |-> no, compacted |-> no, tails |-> {},
                 overlooked |-> {}]
    BY <2>1 DEF Init
  <2> QED BY ONLY <2>2 DEF GhostType
<1>3. /\ hs \in HistoryState /\ Live(hs) = {} /\ MarkersBelow(hs)
      /\ Content(hs.current) \in Document
  BY NewHistory
<1>4. /\ hs.undo = <<>> /\ hs.redo = <<>> /\ hs.next_rev = 2 /\ hs.next_seq = 1
      /\ hs.saved_seq = 0
  BY DEF New
<1> HIDE DEF hs
<1>5. Sane(hs)
  <2>1. Ordered(hs)
    BY <1>3, <1>4, OrderedAlone
  <2>2. Young(hs)
    BY <1>3, <1>4 DEF Young
  <2> QED BY <2>1, <2>2 DEF Sane
<1>6. AllSane(L) /\ Last(L).type # "close" /\ L[1].ids = {} /\ L[1].hist = hs
  <2>1. {} \in SUBSET Chunk /\ Live(hs) \subseteq {}
    BY <1>3
  <2> QED BY <1>3, <1>5, <2>1, OneSane
<1> HIDE DEF L
<1>7. LogInv
  <2>1. CallRecs(<<>>, ghost)
    BY NoRecords
  <2>2. log[1].ids = Live(log[1].hist)
    BY <1>1, <1>3, <1>6
  <2> QED BY <1>1, <1>2, <1>6, <2>1, <2>2 DEF LogInv
<1>8. HistInv
  BY <1>1, <1>5 DEF HistInv
<1>9. AudioInv
  <2>1. IsFiniteSet({}) /\ Cardinality({}) = 0
    BY FS_EmptySet
  <2>2. MaxBad \in Nat
    BY BoundsAreNat
  <2>3. (Live(h) \cup TakeIds(take)) \cap bad = {}
    BY <1>1
  <2>4. /\ IsFiniteSet(chunks) /\ IsFiniteSet(bad) /\ Cardinality(bad) <= MaxBad
    BY <1>1, <2>1, <2>2
  <2>5. next \in Nat /\ \A c \in chunks \cup bad : c < next
    BY <1>1
  <2>6. (chunks \ journaled) \cap bad = {}
    BY <1>1
  <2> QED BY <2>3, <2>4, <2>5, <2>6 DEF AudioInv
<1>10. SavedInv
  <2>1. Named(hs, hs.saved_seq, file)
    <3>1. Names(hs, hs.saved_seq, Content(hs.current))
      BY <1>3, <1>4, AloneNames
    <3>2. hs.saved_seq < hs.next_seq
      BY <1>4
    <3> QED BY <1>1, <3>1, <3>2 DEF Named
  <2> QED BY <1>1, <2>1 DEF SavedInv, FileStands, SaveStands, SaveIntact
<1> QED BY <1>7, <1>8, <1>9, <1>10

\* Whatever the bounds: the journal's records stay those of whole calls on
\* ordered histories, and while a session is down the journal is at most one
\* call ahead of what memory held.
THEOREM SessionDeepInvHolds == Spec => [](LogInv /\ HistInv /\ AudioInv)
<1>1. Init => LogInv /\ HistInv /\ AudioInv
  BY InitIsDeep
<1>2. /\ SessionInv /\ SessionInv' /\ LogInv /\ HistInv /\ AudioInv /\ [Next]_vars
      => LogInv' /\ HistInv' /\ AudioInv'
  <2> SUFFICES ASSUME SessionInv, SessionInv', LogInv, HistInv, AudioInv, [Next]_vars
               PROVE  LogInv' /\ HistInv' /\ AudioInv'
    OBVIOUS
  <2>1. LogInv'
    BY LogInvKeeps DEF HistInv
  <2> QED BY <2>1, HistInvKeeps, AudioInvKeeps
<1> QED BY <1>1, <1>2, SessionInvHolds, PTL DEF Spec

\* While no recovery overlooked damage, the saved seq names what the file holds.
SavedUnlessOverlooked == ghost.overlooked = {} => SavedInv

\* is_dirty compares the seq of the document with one that names what the user's
\* file holds, through edits, saves, crashes and recoveries.
THEOREM SessionSavedInvHolds == Spec => []SavedUnlessOverlooked
<1>1. Init => SavedUnlessOverlooked
  BY InitIsDeep DEF SavedUnlessOverlooked
<1>2. /\ SessionInv /\ SessionInv' /\ LogInv /\ HistInv /\ AudioInv
      /\ SavedUnlessOverlooked /\ [Next]_vars
      => SavedUnlessOverlooked'
  <2> SUFFICES ASSUME SessionInv, SessionInv', LogInv, HistInv, AudioInv,
                      SavedUnlessOverlooked, [Next]_vars, ghost'.overlooked = {}
               PROVE  SavedInv'
    BY DEF SavedUnlessOverlooked
  <2>1. ghost.overlooked = {}
    BY OverlookedStays
  <2> QED BY <2>1, SavedInvKeeps DEF SavedUnlessOverlooked
<1> QED BY <1>1, <1>2, SessionInvHolds, SessionDeepInvHolds, PTL DEF Spec

-----------------------------------------------------------------------------
(* Damaged audio *)

\* However many chunks are damaged and however often: recovery hands out no
\* history with a damaged chunk in it that the whole journal refers to, and no
\* call brings one in.
THEOREM SessionRecoveredAudioVerified == Spec => []RecoveredAudioVerified
<1>1. AudioInv => RecoveredAudioVerified
  BY DEF AudioInv, RecoveredAudioVerified, Started
<1> QED BY <1>1, SessionDeepInvHolds, PTL

-----------------------------------------------------------------------------
(* What counts as saved *)

\* A document whose seq is the saved one is the one in the file.
LEMMA SavedIsInFile ==
  ASSUME SessionInv, SavedInv, phase # "gone", SavedSeqStands,
         CurrentSeq(h) = h.saved_seq
  PROVE  Content(h.current) = file
<1>1. h \in HistoryState
  BY DEF SessionInv, TypeOK
<1>2. Names(h, h.saved_seq, file)
  BY DEF SavedInv, FileStands, Named
<1>3. /\ PositionOf(h) \in 1..LineLen(h)
      /\ NameAt(h, PositionOf(h)) = CurrentSeq(h)
      /\ LineAt(h, PositionOf(h)) = Content(h.current)
  BY <1>1, CurrentName
<1> QED BY <1>2, <1>3 DEF Names

\* is_dirty: a document that counts as saved is the one in the file, whatever
\* edits, undo and housekeeping do while a save writes, and also after a crash
\* between the file and the record of the save.
THEOREM SessionCleanIsSaved == Spec => []CleanIsSaved
<1>1. SessionInv /\ SavedUnlessOverlooked => CleanIsSaved
  BY SavedIsInFile DEF SavedUnlessOverlooked, CleanIsSaved, IsDirty
<1> QED BY <1>1, SessionInvHolds, SessionSavedInvHolds, PTL

\* What a verdict of Clean says of a journal that was not closed.
LEMMA CleanSays ==
  ASSUME NEW L, NEW w, Fine(L, w), Last(L).type # "close", NEW b, NEW P, Clean(L, b, P)
  PROVE  /\ CurrentSeq(State(L).hist) = State(L).hist.saved_seq
         /\ State(L).open \cap State(L).windowed \cap P = {}
         /\ Summary(L).truncated = {}
<1>1. ~Summary(L).closed
  BY ClosedIsLast
<1> DEFINE r == State(L)
           s == Summary(L)
<1>2. Standing(r, s, w)
  BY FineSound DEF Sound
<1>3. /\ r.hist \in HistoryState /\ s.undo = SeqsOf(r.hist.undo)
      /\ s.saved_seq = r.hist.saved_seq /\ s.open = r.open \cap r.windowed
  BY <1>2, StandingParts
<1>4. /\ (IF s.undo = <<>> THEN 0 ELSE Top(s.undo)) = s.saved_seq
      /\ s.open \cap P = {} /\ s.truncated = {}
  BY <1>1 DEF Clean
<1> HIDE DEF r, s
<1>5. (IF s.undo = <<>> THEN 0 ELSE Top(s.undo)) = CurrentSeq(r.hist)
  <2> DEFINE u == r.hist.undo
  <2>1. u \in Seq(Entry)
    BY <1>3 DEF HistoryState
  <2>2. u = <<>> <=> SeqsOf(u) = <<>>
    BY <2>1, SeqsOfType
  <2>3. u # <<>> => Top(SeqsOf(u)) = Top(u).seq
    BY <2>1, SeqsOfPop
  <2> QED BY <1>3, <2>2, <2>3 DEF CurrentSeq, Top
<1> QED BY <1>3, <1>4, <1>5 DEF r, s

\* collect_garbage deletes no session that holds work: the document of an
\* interrupted one is in the file, it has no take with a WAV, and (until a
\* compaction) no WAV with audio that was left out of the document.
THEOREM SessionGcKeepsWork == Spec => []GcKeepsWork
<1>1. SessionInv /\ LogInv /\ SavedUnlessOverlooked => GcKeepsWork
  <2> SUFFICES ASSUME SessionInv, LogInv, SavedInv, phase = "down",
                      Clean(log, torn, Present), ~ghost.closing, ~ghost.resurfaced
               PROVE  /\ SavedSeqStands => Content(h.current) = file
                      /\ Recording /\ take.window => wav[take.id] = "none"
                      /\ ghost.compacted \/ ghost.tails = {}
    BY DEF GcKeepsWork, SavedUnlessOverlooked
  <2> DEFINE r == State(log)
  <2>1. Fine(log, wav) /\ Last(log).type # "close"
    BY LogIs DEF LogInv
  <2>2. /\ CurrentSeq(r.hist) = r.hist.saved_seq
        /\ r.open \cap r.windowed \cap Present = {}
        /\ Summary(log).truncated = {}
    BY <2>1, CleanSays
  <2>3. MemoryIs(r, h, take, journaled, wav)
    BY DEF SessionInv
  <2>4. SavedSeqStands => Content(h.current) = file
    <3>1. CurrentSeq(h) = h.saved_seq
      BY <2>2, <2>3 DEF MemoryIs, SameHistory, CurrentSeq
    <3> QED BY <3>1, SavedIsInFile
  <2>5. Recording /\ take.window => wav[take.id] = "none"
    <3> SUFFICES ASSUME take # NoOpen, take.window, wav[take.id] # "none"
                 PROVE  FALSE
      BY DEF Recording
    <3>1. take.id \in r.open /\ take.id \in r.windowed
      BY <2>3 DEF MemoryIs
    <3>2. take.id \in TakeId
      BY DEF SessionInv, TypeOK, TakeState
    <3>3. take.id \in Present
      BY <3>2 DEF Present
    <3> QED BY <2>2, <3>1, <3>3
  <2>6. ghost.compacted \/ ghost.tails = {}
    BY <2>2 DEF LogInv
  <2> QED BY <2>4, <2>5, <2>6
<1> QED BY <1>1, SessionInvHolds, SessionDeepInvHolds, SessionSavedInvHolds, PTL
-----------------------------------------------------------------------------
(* The refinement of UndoLog *)

\* A step along the line is one of UndoLog's.
LEMMA WalkIsUndoLogStep ==
  ASSUME Walk(h, h')
  PROVE  [UL!Next]_(UL!uvars)
<1>0. LineOf(h)' = LineOf(h') /\ PositionOf(h)' = PositionOf(h')
  BY DEF LineOf, PositionOf, Content
<1>1. CASE LineOf(h') = LineOf(h) /\ PositionOf(h') = PositionOf(h)
  BY <1>0, <1>1 DEF UL!uvars
<1>2. ASSUME NEW d \in Documents, LineOf(h') = Append(SubSeq(LineOf(h), 1, PositionOf(h)), d),
             PositionOf(h') = PositionOf(h) + 1
      PROVE  [UL!Next]_(UL!uvars)
  <2>1. UL!Edit(d) /\ d \in Document
    BY <1>0, <1>2 DEF UL!Edit, Documents, Document
  <2> QED BY <2>1 DEF UL!Next
<1>3. CASE /\ PositionOf(h) > 1 /\ PositionOf(h') = PositionOf(h) - 1
           /\ LineOf(h') = LineOf(h)
  BY <1>0, <1>3 DEF UL!Undo, UL!Next
<1>4. CASE /\ PositionOf(h) < Len(LineOf(h)) /\ PositionOf(h') = PositionOf(h) + 1
           /\ LineOf(h') = LineOf(h)
  BY <1>0, <1>4 DEF UL!Redo, UL!Next
<1>5. ASSUME NEW n \in 1..Len(LineOf(h)), n < PositionOf(h),
             LineOf(h') = SubSeq(LineOf(h), n + 1, Len(LineOf(h))),
             PositionOf(h') = PositionOf(h) - n
      PROVE  [UL!Next]_(UL!uvars)
  <2>1. UL!DropOldest(n)
    BY <1>0, <1>5 DEF UL!DropOldest
  <2> QED BY <2>1 DEF UL!Next
<1>6. ASSUME NEW d \in Documents, Len(LineOf(h)) = 1, PositionOf(h') = PositionOf(h),
             LineOf(h') = <<d>>
      PROVE  [UL!Next]_(UL!uvars)
  <2>1. UL!Rebase(d) /\ d \in Document
    BY <1>0, <1>6 DEF UL!Rebase, Documents, Document
  <2> QED BY <2>1 DEF UL!Next
<1> QED BY <1>1, <1>2, <1>3, <1>4, <1>5, <1>6 DEF Walk

\* Standing still is a step along the line.
LEMMA StandsStill ==
  ASSUME NEW a, NEW b, LineOf(b) = LineOf(a), PositionOf(b) = PositionOf(a)
  PROVE  Walk(a, b)
BY DEF Walk

\* No call, crash or recovery leaves the line the user walks along.
LEMMA StepWalks ==
  ASSUME SessionInv, SessionInv', LogInv, HistInv, AudioInv, MaxBad = 0, [Next]_vars
  PROVE  Walk(h, h')
<1>0. h \in HistoryState
  BY DEF SessionInv, TypeOK
<1>1. CASE h' = h
  BY <1>1, StandsStill
<1>2. CASE \E pre, N : Ordinary(pre, N)
  <2>1. PICK pre, N : Ordinary(pre, N)
    BY <1>2
  <2>2. phase' = "running" => Walk(h, h')
    BY <2>1, OrdinaryMoves
  <2>3. phase' = "down" => h' = h
    BY <2>1, OrdinaryMoves
  <2>4. phase' \in {"running", "down"}
    BY <2>1, OrdinaryMoves
  <2> QED BY <1>1, <2>2, <2>3, <2>4
<1>3. CASE \E p \in SUBSET Chunk, M \in CueSets : SetFloor(p, M)
  <2>1. PICK hs : Floored(hs)
    BY <1>3, SetFloorIs DEF HistInv
  <2>2. h' \in {h, hs} /\ RebasedFrom(h, hs)
    BY <2>1 DEF Floored
  <2>3. Walk(h, hs)
    BY <1>0, <2>2, RebasedWalks DEF HistInv
  <2> QED BY <1>1, <2>2, <2>3
<1>4. CASE MarkSaved
  <2>1. h' \in {h, MarkedSavedAt(h, save.seq)} /\ save.seq \in Nat
    BY <1>4, MarkSavedMoves
  <2> DEFINE b == MarkedSavedAt(h, save.seq)
  <2>2. LineOf(b) = LineOf(h) /\ PositionOf(b) = PositionOf(h)
    BY <1>0, <2>1, MarkedSavedMoves
  <2>3. Walk(h, b)
    BY <2>2, StandsStill
  <2> QED BY <1>1, <2>1, <2>3
<1>5. CASE Crash
  BY <1>1, <1>5, CrashMoves
<1>6. CASE Recover
  <2>1. PICK n \in 1..Len(log) : Recovers(n)
    BY <1>6, RecoverIs
  <2>2. bad = {}
    <3>1. IsFiniteSet(bad) /\ Cardinality(bad) <= 0
      BY DEF AudioInv
    <3>2. Cardinality(bad) \in Nat
      BY <3>1, FS_CardinalityType
    <3> QED BY <3>1, <3>2, FS_EmptySet
  <2>3. n = Len(log) /\ phase = "down" /\ h' = State(SubSeq(log, 1, n)).hist
    BY <2>1, <2>2 DEF Recovers
  <2>4. SubSeq(log, 1, n) = log
    BY <2>1, <2>3, RecoveredLog
  <2>5. h' = State(log).hist
    BY <2>3, <2>4
  <2>6. CASE Ahead(h, State(log).hist, ghost.floorMoved, ghost.unmarked)
    BY <2>5, <2>6, AheadParts
  <2>7. CASE RebasedFrom(h, State(log).hist)
    BY <1>0, <2>5, <2>7, RebasedWalks DEF HistInv
  <2> QED BY <2>3, <2>6, <2>7 DEF HistInv
<1>7. CASE BeginSave \/ WriteFile \/ Compact \/ CollectGarbage \/ UNCHANGED vars
  BY <1>1, <1>7, QuietMoves
<1> QED BY <1>2, <1>3, <1>4, <1>5, <1>6, <1>7, NextKinds DEF Special

\* The line of a new recording.
LEMMA StartsWithOneDocument ==
  ASSUME Init
  PROVE  UL!Init
<1>1. h = New({}, {})
  BY DEF Init
<1>2. h \in HistoryState /\ h.undo = <<>> /\ h.redo = <<>> /\ Content(h.current) \in Document
  BY <1>1, NewHistory DEF New
<1>3. LineOf(h) = <<Content(h.current)>>
  BY <1>2, OneDocument
<1>4. PositionOf(h) = 1
  BY <1>2 DEF PositionOf
<1> QED BY <1>2, <1>3, <1>4 DEF UL!Init

\* The session implements UndoLog through failed appends, crashes and
\* recoveries: what comes back is the line and the position the user left, or
\* one step of it further if the last append had failed.  With damaged audio
\* it does not: recovery then goes back by any number of steps.
THEOREM SessionImplementsUndoLog ==
  ASSUME MaxBad = 0
  PROVE  Spec => ImplementsUndoLog
<1>1. Init => UL!Init
  BY StartsWithOneDocument
<1>2. SessionInv /\ SessionInv' /\ LogInv /\ HistInv /\ AudioInv /\ [Next]_vars
      => [UL!Next]_(UL!uvars)
  <2> SUFFICES ASSUME SessionInv, SessionInv', LogInv, HistInv, AudioInv, [Next]_vars
               PROVE  [UL!Next]_(UL!uvars)
    OBVIOUS
  <2>1. Walk(h, h')
    BY StepWalks
  <2> QED BY <2>1, WalkIsUndoLogStep
<1> QED BY <1>1, <1>2, SessionInvHolds, SessionDeepInvHolds, PTL
        DEF Spec, ImplementsUndoLog, UL!Spec

=============================================================================
