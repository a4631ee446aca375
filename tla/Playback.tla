------------------------------ MODULE Playback ------------------------------
(***************************************************************************)
(* Playback (crates/engine): the control thread with the transport, the    *)
(* reader thread that fills a ring with packets of the document, and the   *)
(* output callback that plays them through the rack.                       *)
(*                                                                         *)
(* Everything a start asks for carries its epoch.  The control thread      *)
(* sends a start to the reader and then to the callback; the two learn of  *)
(* it at different times, and so does the control thread of their reports. *)
(* A callback is one frame here, with what it does before a frame; a       *)
(* longer one is several in a row.  The document has the rate of the       *)
(* device, a sample is its position, and the rack is the delay of its      *)
(* latency.  Recording runs, calibration, monitoring and the positions     *)
(* that the callback reports while it plays are left out.                  *)
(***************************************************************************)
EXTENDS Naturals, FiniteSets, SequencesExt

CONSTANTS None,         \* what is absent
          Lens,         \* lengths of documents
          Regions,      \* time selections
          MinLoop,      \* MIN_LOOP_MS
          PacketFrames, \* PACKET_FRAMES
          Target,       \* target_packets
          Prebuffer,    \* prebuffer_frames
          Speed,        \* PREROLL_SPEED
          Latency,      \* of the rack
          Fade,         \* frames of a fade
          MaxOps        \* bound: calls of the user and changes of the device

ASSUME SizesArePositive ==
  /\ {PacketFrames, Target, Prebuffer, Speed, Fade, MinLoop} \subseteq Nat \ {0}
  /\ Latency \in Nat /\ MaxOps \in Nat /\ Lens \subseteq Nat

\* A waiting callback takes nothing out of a ring that holds the prebuffer.
ASSUME PrebufferFits == Prebuffer <= Target

ASSUME RegionsAreRanges == \A g \in Regions : g \in Nat \X Nat /\ g[1] < g[2]

VARIABLES
  t,          \* Transport, and what the control thread last sent
  open,       \* how many output streams there were, and whether the last one is open
  late,       \* a command the control thread is about to push
  mail,       \* its commands to the reader
  r,          \* Reader
  ring,       \* the packets of the open stream
  cmds,       \* its commands
  events,     \* its reports
  o,          \* State of the callback
  rack,       \* the samples in the rack, oldest first, and its last input since a reset
  ops,
  (* of the properties *)
  out,        \* what the last frame put out, and its gain after the rack
  heard,      \* the last sample of a document that was put out
  asked,      \* for each epoch: where it was to start, in which document
  sought,     \* where the last call put the playhead, if it was a seek while stopped
  thrown      \* epochs that lost packets before the callback had their start

stream == <<ring, cmds, events, o, rack, out, heard, thrown>>
vars == <<t, open, late, mail, r, ops, asked, sought, stream>>

Least(a, b) == IF a < b THEN a ELSE b

\* A sample: of an epoch and a document, at a position, with a gain; jump says that
\* it is the first one of a loop pass.
Sample(e, d, p, g, j) == [kind |-> "play", epoch |-> e, doc |-> d, pos |-> p, gain |-> g, jump |-> j]
Quiet(k) == [kind |-> k, epoch |-> 0, doc |-> 0, pos |-> 0, gain |-> 0, jump |-> FALSE]
Silence == Quiet("silence")

-----------------------------------------------------------------------------
(* The reader *)

\* start: up to w samples of warm-up before the play position.
Starts(rd, c) ==
  LET w == Least(c.preroll, c.pos)
  IN  [rd EXCEPT !.active = [epoch |-> c.epoch, next |-> c.pos - w, warm |-> w, play |-> c.pos,
                             wrapped |-> FALSE, endAt |-> None, done |-> FALSE]]

\* read_pos: the warm-up counts as the play position.
ReadPos(a) == IF a.warm > 0 THEN a.play ELSE a.next

\* SetLoop: when looping ends, the stream ends with the pass.
Loops(rd, c) ==
  [rd EXCEPT !.loop = c.region,
             !.active =
    IF rd.active = None \/ (rd.active # None /\ rd.active.done) THEN @
    ELSE [@ EXCEPT !.endAt =
            CASE ~c.finish -> None
              [] c.finish /\ rd.loop # None /\ ReadPos(rd.active) <= rd.loop[2] -> rd.loop[2]
              [] OTHER -> @]]

Handles(rd, c) ==
  CASE c.cmd = "attach" -> [rd EXCEPT !.stream = c.stream, !.active = None]
    [] c.cmd = "detach" -> [rd EXCEPT !.stream = 0, !.active = None]
    [] c.cmd = "doc"    -> [rd EXCEPT !.doc = c.doc, !.len = c.len, !.active = None]
    [] c.cmd = "start"  -> Starts(rd, c)
    [] c.cmd = "stop"   -> [rd EXCEPT !.active = None]
    [] OTHER            -> Loops(rd, c)

\* The thread takes every command there is, then tops the ring up.
ReaderHandles ==
  /\ r.pc = "wait" /\ mail # <<>>
  /\ r' = Handles(r, Head(mail))
  /\ mail' = Tail(mail)
  /\ UNCHANGED <<t, open, late, ops, asked, sought, stream>>

Wraps(rd) == rd.loop # None /\ ReadPos(rd.active) < rd.loop[2]
EndOf(rd) == IF rd.active.endAt = None THEN rd.len ELSE Least(rd.active.endAt, rd.len)

\* The stream ends here, unless it wraps before.
HasEnd(rd) == ~(Wraps(rd) /\ rd.loop[2] <= EndOf(rd))

\* The next packet: it ends at the play position, at the stream's end and at the loop's.
PacketLen(rd) ==
  LET a == rd.active
      warm == IF a.warm > 0 THEN {a.warm} ELSE {}
      end  == IF HasEnd(rd) THEN {EndOf(rd) - a.next} ELSE {}
      wrap == IF Wraps(rd) THEN {rd.loop[2] - a.next} ELSE {}
  IN  CHOOSE n \in {PacketFrames} \cup warm \cup end \cup wrap :
        \A m \in {PacketFrames} \cup warm \cup end \cup wrap : n <= m

Packet(rd, flag, pos, n) ==
  [epoch |-> rd.active.epoch, doc |-> rd.doc, flag |-> flag, pos |-> pos, len |-> n]

NextPacket(rd) ==
  LET a == rd.active IN
  IF HasEnd(rd) /\ a.next >= EndOf(rd) THEN Packet(rd, "end", EndOf(rd), 0)
  ELSE Packet(rd, IF a.warm > 0 THEN "warm" ELSE IF a.wrapped THEN "wrap" ELSE "plain",
              a.next, PacketLen(rd))

\* Mutant: the first packet of a loop pass is not marked.
FedUnmarked(rd, p) ==
  LET a  == rd.active
      to == a.next + p.len
  IN  IF p.flag = "end" THEN [a EXCEPT !.done = TRUE]
      ELSE [a EXCEPT !.next = IF Wraps(rd) /\ to = rd.loop[2] THEN rd.loop[1] ELSE to,
                     !.wrapped = FALSE, !.warm = IF @ > 0 THEN @ - p.len ELSE 0]

\* feed: past a loop's end the stream goes on at its start.
Fed(rd, p) ==
  LET a   == rd.active
      to  == a.next + p.len
      jump == Wraps(rd) /\ to = rd.loop[2]
  IN  IF p.flag = "end" THEN [a EXCEPT !.done = TRUE]
      ELSE [a EXCEPT !.next = IF jump THEN rd.loop[1] ELSE to, !.wrapped = jump,
                     !.warm = IF @ > 0 THEN @ - p.len ELSE 0]

\* What it puts into the ring of a closed stream is read by nobody.
CanFill ==
  /\ open.up /\ r.stream = open.n
  /\ r.active # None /\ ~r.active.done
  /\ Len(ring) < Target

\* The mailbox was found empty; what comes in now waits until after the fill.
ReaderDrained ==
  /\ r.pc = "wait" /\ mail = <<>>
  /\ CanFill
  /\ r' = [r EXCEPT !.pc = "fill"]
  /\ UNCHANGED <<t, open, late, mail, ops, asked, sought, stream>>

\* fill, one packet.
ReaderFills ==
  /\ CanFill
  /\ r.pc = "fill"
  /\ LET p == NextPacket(r)
     IN  /\ ring' = Append(ring, p)
         /\ r' = [r EXCEPT !.active = Fed(r, p)]
  /\ UNCHANGED <<t, open, late, mail, ops, asked, sought, cmds, events, o, rack, out, heard,
                 thrown>>

\* The ring was full, or the stream has ended.
ReaderRests ==
  /\ r.pc = "fill"
  /\ ~CanFill
  /\ r' = [r EXCEPT !.pc = "wait"]
  /\ UNCHANGED <<t, open, late, mail, ops, asked, sought, stream>>

-----------------------------------------------------------------------------
(* The callback: a state w of it is o with the rings and the rack *)

NoPacket == [left |-> 0, pos |-> 0, epoch |-> 0, doc |-> 0, jump |-> FALSE]

NoState ==
  [mode |-> "idle", then |-> None, epoch |-> 0, cmd |-> 0, start |-> 0, reset |-> FALSE,
   gain |-> 0, cur |-> NoPacket, next |-> 0, quiet |-> Latency, pend |-> None,
   endAtWrap |-> FALSE, warming |-> FALSE, burst |-> 0, outGain |-> Fade,
   post |-> FALSE, postLeft |-> 0]

Clean == [line |-> [n \in 1..Latency |-> Silence], past |-> None]
Reports(w, e) == [w EXCEPT !.events = Append(@, e)]
Bursting(s) == s.mode = "preroll" \/ s.burst > 0

\* flush_end
FlushesEnd(w, force) ==
  IF w.o.pend # None /\ (force \/ w.o.quiet >= Latency)
  THEN Reports([w EXCEPT !.o.pend = None],
               [ev |-> "ended", epoch |-> w.o.pend.epoch, pos |-> w.o.pend.pos])
  ELSE w

BeginsWait(s, e, p, reset) ==
  [s EXCEPT !.epoch = e, !.start = p, !.next = p, !.reset = @ \/ reset, !.cur = NoPacket,
            !.warming = FALSE, !.burst = 0, !.mode = "waiting"]

\* Mutant: a start does not wait for a fade-out.
StartsAtOnce(s, c, reset) == BeginsWait([s EXCEPT !.cmd = c.epoch], c.epoch, c.pos, reset)

\* start: while audible after a fade-out behind the rack.
StartsPlaying(s, c, reset) ==
  LET f == [s EXCEPT !.cmd = c.epoch] IN
  IF s.mode \in {"playing", "fading"}
  THEN [f EXCEPT !.mode = "fading", !.then = [to |-> "start", epoch |-> c.epoch, pos |-> c.pos],
                 !.post = TRUE, !.postLeft = IF s.post THEN @ ELSE s.outGain]
  ELSE BeginsWait(f, c.epoch, c.pos, reset)

\* A play, seek or stop: the end of the previous pass comes first; an interrupted
\* pre-roll is thrown away with the rack's contents.
Interrupted(w) ==
  LET f == FlushesEnd(w, TRUE)
      g == [f EXCEPT !.o.endAtWrap = FALSE]
  IN  IF ~Bursting(g.o) THEN g
      ELSE [g EXCEPT !.rack = Clean, !.o.quiet = Latency, !.o.reset = TRUE, !.o.warming = FALSE,
                     !.o.burst = 0, !.o.outGain = Fade,
                     !.o.mode = IF @ = "preroll" THEN "waiting" ELSE @]

Stopped(w, pos) == Reports(w, [ev |-> "stopped", epoch |-> w.o.cmd, pos |-> pos])

Stops(w) ==
  CASE w.o.mode = "playing" -> [w EXCEPT !.o.mode = "fading", !.o.then = [to |-> "stop", pos |-> None]]
    [] w.o.mode = "fading" /\ w.o.then.to = "start" ->
         [w EXCEPT !.o.reset = TRUE, !.o.then = [to |-> "stop", pos |-> w.o.then.pos]]
    [] w.o.mode = "waiting" -> Stopped([w EXCEPT !.o.mode = "idle"], w.o.start)
    [] OTHER -> w

\* command
Commanded(w, c) ==
  CASE c.cmd = "loop" -> [w EXCEPT !.o.endAtWrap = c.finish]
    [] c.cmd = "stop" -> Stops(Interrupted(w))
    [] OTHER -> LET g == Interrupted(w)
                IN  [g EXCEPT !.o = StartsPlaying(@, c, c.cmd = "seek" \/ c.reset)]

\* After a fade behind the rack, what the rack still holds is thrown away.
FadedOut(w) ==
  IF w.o.post
  THEN [w EXCEPT !.rack = Clean, !.o.gain = 0, !.o.post = FALSE, !.o.postLeft = 0,
                 !.o.reset = TRUE, !.o.quiet = Latency, !.o.outGain = Fade]
  ELSE [w EXCEPT !.o.gain = 0]

\* finish_fade, behind it.
GoesOn(w, then) ==
  CASE then.to = "start" -> [w EXCEPT !.o = BeginsWait(@, then.epoch, then.pos, TRUE)]
    [] OTHER -> Stopped([w EXCEPT !.o.mode = "idle", !.o.cur = NoPacket],
                        IF then.pos = None THEN w.o.next ELSE then.pos)

FinishesFade(w) == GoesOn(FadedOut(w), w.o.then)

\* The packets from the first one on that is not dropped.
From(w, k) ==
  LET n == IF k = 0 THEN Len(w.ring) ELSE k - 1
  IN  [w EXCEPT !.ring = SubSeq(@, n + 1, Len(@)),
                !.thrown = @ \cup {w.ring[i].epoch : i \in {m \in 1..n : w.ring[m].epoch > w.o.cmd}}]

\* Mutant: a stream that is shorter than the prebuffer never starts.
QueuedOnly(ps, e, warmUp, k) ==
  [end |-> FALSE,
   frames |-> FoldLeft(LAMBDA sum, p : sum + (IF warmUp \/ p.flag # "warm" THEN p.len ELSE 0),
                       0, SubSeq(ps, 1, IF k = 0 THEN Len(ps) ELSE k - 1))]

\* queued: the first packets of ps are of epoch e up to the one at k, or all (0); their
\* frames, and whether the stream ends there.
QueuedTo(ps, e, warmUp, k) ==
  [end |-> k # 0 /\ (k # 0 => ps[k].epoch = e),
   frames |-> FoldLeft(LAMBDA sum, p : sum + (IF warmUp \/ p.flag # "warm" THEN p.len ELSE 0),
                       0, SubSeq(ps, 1, IF k = 0 THEN Len(ps) ELSE k - 1))]

Queued(w, warmUp) ==
  QueuedTo(w.ring, w.o.epoch, warmUp,
           SelectInSeq(w.ring, LAMBDA p : p.epoch # w.o.epoch \/ p.flag = "end"))

\* The pre-roll begins: the rack is empty and the prebuffer is there.
Readied(w, q) ==
  IF (q.frames < Prebuffer /\ ~q.end) \/ w.o.quiet < Latency THEN w
  ELSE [w EXCEPT !.rack = IF w.o.reset THEN Clean ELSE @,
                 !.o.mode = "preroll", !.o.gain = Fade, !.o.outGain = 0,
                 !.o.warming = w.o.reset, !.o.reset = FALSE,
                 !.o.burst = IF w.o.reset THEN @ ELSE Latency]

\* check_ready, without the packets of other epochs and an unwanted warm-up.
ChecksReady(w) ==
  LET Fresh(p) == p.epoch = w.o.epoch /\ (w.o.reset \/ p.flag # "warm")
      Reads(v) == Readied(v, Queued(v, TRUE))
  IN  Reads(From(w, SelectInSeq(w.ring, Fresh)))

\* Packets that next leaves out: of an epoch that is neither played nor commanded, or
\* the warm-up of a start that needs none.
Drops(s, p) ==
  \/ p.epoch \notin {s.epoch, s.cmd}
  \/ p.epoch = s.epoch /\ p.flag = "warm" /\ ~s.warming

\* Mutant: the position left behind is that of the last sample.
TakesSampleLate(w, cur) ==
  [w   |-> [w EXCEPT !.o.next = cur.pos,
                     !.o.cur = [cur EXCEPT !.left = @ - 1, !.pos = @ + 1, !.jump = FALSE]],
   got |-> "sample",
   x   |-> Sample(cur.epoch, cur.doc, cur.pos, w.o.gain, cur.jump)]

\* A sample of the current packet.
TakesSample(w, cur) ==
  [w   |-> [w EXCEPT !.o.next = cur.pos + 1,
                     !.o.cur = [cur EXCEPT !.left = @ - 1, !.pos = @ + 1, !.jump = FALSE]],
   got |-> "sample",
   x   |-> Sample(cur.epoch, cur.doc, cur.pos, w.o.gain, cur.jump)]

\* The packet p at the head of the ring.
TakesPacket(w, p) ==
  LET popped == [w EXCEPT !.ring = Tail(@), !.o.cur = NoPacket] IN
  CASE p.epoch # w.o.epoch -> [w |-> w, got |-> "empty"]
    [] p.epoch = w.o.epoch /\ w.o.warming /\ p.flag # "warm" -> [w |-> w, got |-> "warmed"]
    [] p.epoch = w.o.epoch /\ p.flag = "end" /\ ~w.o.warming ->
         [w |-> [popped EXCEPT !.o.next = p.pos], got |-> "end"]
    [] p.epoch = w.o.epoch /\ p.flag = "wrap" /\ ~w.o.warming /\ w.o.endAtWrap ->
         [w |-> popped, got |-> "end"]
    [] OTHER ->
         TakesSample(popped, [left |-> p.len, pos |-> p.pos, epoch |-> p.epoch, doc |-> p.doc,
                              jump |-> p.flag = "wrap"])

\* next, with what it got.
Takes(w) ==
  LET TakesHead(v) == IF v.ring = <<>> THEN [w |-> v, got |-> "empty"]
                      ELSE TakesPacket(v, Head(v.ring))
  IN  IF w.o.cur.left > 0 THEN TakesSample(w, w.o.cur)
      ELSE TakesHead(From(w, SelectInSeq(w.ring, LAMBDA p : ~Drops(w.o, p))))

\* A frame through the rack.
Feeds(w, x) ==
  [w EXCEPT !.rack.line = Tail(Append(@, x)), !.y = Head(Append(w.rack.line, x)),
            !.rack.past = IF x.kind = "play" THEN x ELSE @]

\* end_reached
EndReached(w) ==
  [w EXCEPT !.o.mode = "idle", !.o.cur = NoPacket,
            !.o.pend = [epoch |-> w.o.epoch, pos |-> w.o.next]]

More(q) == Least(q + 1, Latency)

\* A frame of the burst; the warm-up does not count as look-ahead.
BurstWith(w, x, q) == Feeds([w EXCEPT !.o.quiet = q, !.o.burst = IF w.o.warming THEN @ ELSE @ - 1], x)

BurstsOn(n) ==
  CASE n.got = "sample" -> BurstWith(n.w, n.x, 0)
    [] n.got = "end"    -> BurstWith(EndReached(n.w), Quiet("end"), 0)
    [] OTHER            -> [n.w EXCEPT !.stalled = TRUE]

\* The warm-up is over: the look-ahead begins.
Bursts(n) ==
  LET warmed == [n.w EXCEPT !.o.warming = FALSE, !.o.burst = Latency]
  IN  CASE n.got # "warmed" -> BurstsOn(n)
        [] n.got = "warmed" /\ Latency > 0 -> BurstsOn(Takes(warmed))
        [] OTHER -> warmed

\* burst, one frame; once the document has ended, silence completes the look-ahead.
Burst(w) ==
  CASE w.stalled \/ ~Bursting(w.o) -> w
    [] w.o.mode = "preroll" /\ ~w.o.warming /\ w.o.burst = 0 -> w
    [] w.o.mode = "idle" -> BurstWith(w, Silence, More(w.o.quiet))
    [] OTHER -> Bursts(Takes(w))

\* Up to Speed frames of the pre-roll, with the output thrown away; then playback
\* begins if the prebuffer is there again.
Prerolls(w) ==
  LET Begins(b, q) ==
        IF /\ b.o.mode = "preroll" /\ ~b.o.warming /\ b.o.burst = 0
           /\ q.frames + b.o.cur.left >= Prebuffer \/ q.end
        THEN [b EXCEPT !.o.mode = "playing"] ELSE b
      Tries(b) == Begins(b, Queued(b, FALSE))
  IN  Tries(FoldLeft(LAMBDA v, i : Burst(v), w, [i \in 1..Speed |-> i]))

\* What the end of the stream, or a frame of a fade-out, does to the mode.
Fades(n) ==
  CASE n.w.o.mode = "playing" ->
         IF n.got = "end" THEN EndReached(n.w)
         ELSE IF n.got = "sample" THEN [n.w EXCEPT !.o.gain = Least(@ + 1, Fade)] ELSE n.w
    [] n.w.o.mode = "fading" /\ ~n.w.o.post ->
         IF n.got = "end" \/ n.w.o.gain <= 1 THEN FinishesFade(n.w)
         ELSE [n.w EXCEPT !.o.gain = @ - 1]
    [] OTHER -> n.w

\* sample: the frame that goes into the rack, with what next got.
SamplesOf(n) ==
  Feeds([Fades([n EXCEPT !.w.o.quiet = 0]) EXCEPT !.y = Silence],
        IF n.got = "sample" THEN n.x ELSE Quiet(IF n.got = "end" THEN "end" ELSE "gap"))

Samples(w) ==
  IF w.o.mode \in {"idle", "waiting"} THEN Feeds([w EXCEPT !.o.quiet = More(@)], Silence)
  ELSE SamplesOf(Takes(w))

\* next_out_gain, of the frame that comes out of the rack.
Gains(w) ==
  CASE w.o.post -> [w EXCEPT !.o.postLeft = @ - 1, !.o.outGain = w.o.postLeft - 1,
                             !.gain = w.o.postLeft - 1]
    [] ~w.o.post /\ w.o.outGain < Fade -> [w EXCEPT !.o.outGain = @ + 1, !.gain = w.o.outGain]
    [] OTHER -> [w EXCEPT !.gain = Fade]

\* process, one frame: while the pre-roll goes on, the device gets silence.
Processed(w) ==
  LET Ready(v)   == IF v.o.mode = "waiting" THEN ChecksReady(v) ELSE v
      Faded(v)   == IF v.o.mode = "fading" /\ v.o.post /\ v.o.postLeft = 0
                      THEN FinishesFade(v) ELSE v
      Sounds(v)  == IF Bursting(v.o) THEN [v EXCEPT !.y = Silence] ELSE Gains(Samples(v))
  IN  FlushesEnd(Sounds(Prerolls(Ready(Faded(FoldLeft(Commanded, w, cmds))))), FALSE)

Now == [o |-> o, ring |-> ring, rack |-> rack, events |-> events, y |-> Silence,
        gain |-> Fade, stalled |-> FALSE, thrown |-> thrown]

Frame ==
  /\ open.up
  /\ \E w \in {Processed(Now)} :
       /\ o' = w.o /\ ring' = w.ring /\ rack' = w.rack /\ events' = w.events
       /\ out' = [x |-> w.y, gain |-> w.gain]
       /\ heard' = IF w.y.kind = "play" THEN w.y ELSE heard
       /\ thrown' = w.thrown
  /\ cmds' = <<>>
  /\ UNCHANGED <<t, open, late, mail, r, ops, asked, sought>>

-----------------------------------------------------------------------------
(* The control thread *)

\* loop_region
LoopRegion(x) ==
  CASE ~x.loop \/ x.len = 0 -> None
    [] x.loop /\ x.len > 0 /\ x.sel # None /\ x.sel[2] - x.sel[1] >= MinLoop -> x.sel
    [] OTHER -> <<0, x.len>>

Clamped(sel, len) ==
  IF sel = None \/ (sel # None /\ Least(sel[1], len) >= Least(sel[2], len)) THEN None
  ELSE <<sel[1], Least(sel[2], len)>>

\* A call of the user or a change of the device, between two steps of the thread.
Turn == late = None /\ ops < MaxOps /\ ops' = ops + 1
Call == Turn /\ sought' = None

\* The transport becomes x; the reader gets ms, and the callback gets the command a
\* after them, if there is a stream.
Sends(x, ms, a) ==
  /\ t' = x
  /\ mail' = mail \o ms
  /\ late' = IF open.up THEN a ELSE None
  /\ UNCHANGED <<open, r, ring, events, o, rack, out, heard, thrown>>

Pushes ==
  /\ late # None
  /\ cmds' = Append(cmds, late)
  /\ late' = None
  /\ UNCHANGED <<t, open, mail, r, ring, events, o, rack, ops, out, heard, asked, sought, thrown>>

Starting(x, pos, c) ==
  /\ Sends(x, <<[cmd |-> "start", epoch |-> x.epoch, pos |-> pos, preroll |-> Latency]>>, c)
  /\ asked' = Append(asked, [pos |-> pos, doc |-> x.doc])
  /\ UNCHANGED cmds

\* play
Plays(x) ==
  LET pos == IF x.playhead >= x.len THEN 0 ELSE x.playhead
      y   == [x EXCEPT !.playing = TRUE, !.start = pos, !.playhead = pos,
                       !.epoch = @ + 1, !.awaiting = None]
  IN  /\ ~x.playing
      /\ IF open.up /\ x.len > 0
           THEN Starting(y, pos, [cmd |-> "play", epoch |-> y.epoch, pos |-> pos,
                                  reset |-> x.rackPos # pos])
           ELSE Sends(x, <<>>, None) /\ UNCHANGED <<asked, cmds>>

\* seek
Seeks(x, to) ==
  LET pos == Least(to, x.len)
      y   == [x EXCEPT !.epoch = @ + 1]
  IN  IF x.playing
      THEN Starting(y, pos, [cmd |-> "seek", epoch |-> y.epoch, pos |-> pos])
      ELSE Sends([x EXCEPT !.playhead = pos], <<>>, None) /\ UNCHANGED <<asked, cmds>>

Play == Call /\ Plays(t)
Seek ==
  /\ Turn
  /\ \E to \in 0..t.len : Seeks(t, to) /\ sought' = IF t.playing THEN None ELSE to

PlayFromStart ==
  LET pos == IF t.sel = None THEN 0 ELSE Least(t.sel[1], t.len)
  IN  /\ Call
      /\ IF t.playing THEN Seeks([t EXCEPT !.start = pos], pos)
         ELSE Plays([t EXCEPT !.playhead = pos])

\* heard_now: extrapolated from the last report, which may be of before a wrap of a
\* loop that is off by now; left open.
HeardNow(x) == 0..x.len

Halted(x, kind, at) ==
  [x EXCEPT !.playing = FALSE, !.playhead = at, !.rackPos = None,
            !.awaiting = [epoch |-> x.epoch, kind |-> kind]]

Halts(x) ==
  /\ Call /\ t.playing
  /\ Sends(x, <<[cmd |-> "stop"]>>, None)
  /\ cmds' = Append(cmds, [cmd |-> "stop"])
  /\ UNCHANGED asked

Pause == \E q \in HeardNow(t) : Halts(Halted(t, "pause", q))
Stop == Halts(Halted(t, "stop", t.start))

\* sync_loop
Loop(x, finish) ==
  IF LoopRegion(x) = x.sent THEN <<>>
  ELSE <<[cmd |-> "loop", region |-> LoopRegion(x),
          finish |-> finish /\ x.sent # None /\ x.playing]>>

\* The reader gets ms first.
Syncs(x, ms, finish) ==
  Sends([x EXCEPT !.sent = LoopRegion(x)], ms \o Loop(x, finish),
        IF Loop(x, finish) = <<>> THEN None ELSE Head(Loop(x, finish)))

SetSelection ==
  /\ Call
  /\ \E g \in Regions \cup {None} : Syncs([t EXCEPT !.sel = Clamped(g, t.len)], <<>>, FALSE)
  /\ UNCHANGED <<asked, cmds>>

SetLoop ==
  /\ Call
  /\ Syncs([t EXCEPT !.loop = ~@], <<>>, t.loop)
  /\ UNCHANGED <<asked, cmds>>

\* set_doc
WithDoc(x, len) ==
  [x EXCEPT !.doc = @ + 1, !.len = len, !.playhead = Least(@, len), !.start = Least(@, len),
            !.rackPos = None, !.sel = Clamped(@, len)]

\* set_document, a pause first.  A length of 0 is also what no document has.
SetDocument ==
  /\ Call
  /\ \E len \in Lens, q \in HeardNow(t) :
       /\ ~t.playing => q = t.len
       /\ Syncs(WithDoc(IF t.playing THEN Halted(t, "pause", q) ELSE t, len),
                (IF t.playing THEN <<[cmd |-> "stop"]>> ELSE <<>>)
                  \o <<[cmd |-> "doc", doc |-> t.doc + 1, len |-> len]>>,
                FALSE)
  /\ cmds' = IF t.playing THEN Append(cmds, [cmd |-> "stop"]) ELSE cmds
  /\ UNCHANGED asked

\* close_output
CloseOutput ==
  /\ Call /\ open.up
  /\ open' = [open EXCEPT !.up = FALSE]
  /\ \E q \in HeardNow(t) :
       t' = [t EXCEPT !.playing = FALSE, !.playhead = IF t.playing THEN q ELSE @,
                      !.rackPos = None, !.awaiting = None]
  /\ mail' = mail \o (IF t.playing THEN <<[cmd |-> "stop"]>> ELSE <<>>) \o <<[cmd |-> "detach"]>>
  /\ ring' = <<>> /\ cmds' = <<>> /\ events' = <<>>
  /\ o' = NoState /\ rack' = Clean
  /\ out' = [x |-> Silence, gain |-> Fade]
  /\ UNCHANGED <<late, r, heard, asked, thrown>>

\* build_output
OpenOutput ==
  /\ Call /\ ~open.up
  /\ open' = [n |-> open.n + 1, up |-> TRUE]
  /\ mail' = Append(mail, [cmd |-> "attach", stream |-> open.n + 1])
  /\ UNCHANGED <<t, late, r, asked, stream>>

\* Mutant: a pause that the end of the document has overtaken goes on waiting.
OnEventWaits(x, e) ==
  LET mine == x.awaiting # None /\ (x.awaiting # None => x.awaiting.epoch = e.epoch)
      ends == e.ev = "ended" /\ x.playing /\ x.epoch = e.epoch
      stop == mine /\ e.ev = "stopped"
  IN  [x EXCEPT !.awaiting = IF stop \/ ends THEN None ELSE @,
                !.playing  = @ /\ ~ends,
                !.rackPos  = IF stop \/ ends THEN e.pos ELSE @,
                !.playhead = IF ends \/ (stop /\ (stop => x.awaiting.kind = "pause"))
                             THEN Least(e.pos, x.len) ELSE @]

\* on_stopped and on_ended
OnEvent(x, e) ==
  LET mine == x.awaiting # None /\ (x.awaiting # None => x.awaiting.epoch = e.epoch)
      ends == e.ev = "ended" /\ x.playing /\ x.epoch = e.epoch
      stop == mine /\ e.ev = "stopped"
  IN  [x EXCEPT !.awaiting = IF mine \/ ends THEN None ELSE @,
                !.playing  = @ /\ ~ends,
                !.rackPos  = IF stop \/ ends THEN e.pos ELSE @,
                !.playhead = IF ends \/ (stop /\ (stop => x.awaiting.kind = "pause"))
                             THEN Least(e.pos, x.len) ELSE @]

\* drain_rt
Tick ==
  /\ late = None /\ open.up /\ events # <<>>
  /\ t' = FoldLeft(OnEvent, t, events)
  /\ mail' = IF t.playing /\ ~t'.playing THEN Append(mail, [cmd |-> "stop"]) ELSE mail
  /\ events' = <<>>
  /\ UNCHANGED <<open, late, r, ops, asked, sought, ring, cmds, o, rack, out, heard, thrown>>

-----------------------------------------------------------------------------
(* A document is loaded, an output is open, nothing was played yet. *)
Init ==
  /\ t \in {[playing |-> FALSE, playhead |-> 0, start |-> 0, epoch |-> 0,
             len |-> len, doc |-> 1, sel |-> None, loop |-> FALSE, sent |-> None,
             rackPos |-> None, awaiting |-> None] : len \in Lens \ {0}}
  /\ open = [n |-> 1, up |-> TRUE]
  /\ r = [stream |-> 1, doc |-> 1, len |-> t.len, active |-> None, loop |-> None, pc |-> "wait"]
  /\ late = None /\ mail = <<>> /\ ring = <<>> /\ cmds = <<>> /\ events = <<>>
  /\ o = NoState /\ rack = Clean
  /\ out = [x |-> Silence, gain |-> Fade] /\ heard = Silence
  /\ ops = 0 /\ asked = <<>> /\ sought = None /\ thrown = {}

User == Play \/ Pause \/ Stop \/ PlayFromStart \/ Seek \/ SetSelection \/ SetLoop
          \/ SetDocument \/ CloseOutput \/ OpenOutput
ReaderStep == ReaderHandles \/ ReaderDrained \/ ReaderFills \/ ReaderRests

Next == User \/ Pushes \/ Tick \/ ReaderStep \/ Frame

Spec == Init /\ [][Next]_vars

-----------------------------------------------------------------------------
(* Properties *)

\* Everything the threads have told each other has arrived, and no fade or end of a
\* document is under way.
Rest == /\ late = None /\ mail = <<>> /\ cmds = <<>> /\ events = <<>>
        /\ o.mode # "fading" /\ o.pend = None

\* From the end of a loop back to its start.
LoopsBack(from, to) ==
  \E len \in Lens, g \in Regions :
    \/ from = len /\ to = 0
    \/ Clamped(g, len) # None /\ (Clamped(g, len) # None => <<to, from>> = Clamped(g, len))

\* What a start asks for is heard from its position on (unless its first packets are
\* thrown away), then sample by sample, of the right document, and back only from a
\* loop's end to its start; nothing of an older start is heard after it.
HeardInOrder ==
  [][heard' # heard =>
       LET h == heard' IN
       /\ h.doc = asked[h.epoch].doc
       /\ IF h.epoch = heard.epoch
          THEN h.pos = heard.pos + 1 \/ (h.jump /\ LoopsBack(heard.pos + 1, h.pos))
          ELSE /\ h.epoch > heard.epoch
               /\ h.epoch \notin thrown' => h.pos = asked[h.epoch].pos]_vars

\* What is heard is never cut: behind a sample that has not been faded out comes the
\* next one, with at most one step of each fade, unless the stream ends or runs dry.
NothingIsCut ==
  [][ /\ open' = open /\ o' # o
      /\ out.x.kind = "play" /\ out.x.gain > 1 /\ out.gain > 1
      => \/ out'.x.kind \in {"gap", "end"}
         \/ /\ out'.x.kind = "play" /\ out'.x.epoch = out.x.epoch
            /\ out'.x.gain >= out.x.gain - 1 /\ out'.gain >= out.gain - 1]_vars

\* Once everything has arrived, the transport and the callback agree on whether
\* something plays and on what, and no stop is waited for.
TransportFollowsOutput ==
  Rest /\ open.up =>
    /\ t.awaiting = None
    /\ IF t.playing THEN o.mode # "idle" /\ o.cmd = t.epoch ELSE o.mode = "idle"

\* The callback's next start leaves the rack as it is.
KeepsRack ==
  /\ open' = open /\ o.epoch = o'.epoch
  /\ o.mode = "waiting" /\ ~o.reset /\ o'.mode \in {"preroll", "playing"}

\* A start that does not reset the rack goes on where the rack's input ended, if that
\* was the same document.
ResumesInPlace ==
  [][KeepsRack =>
       /\ rack.past # None
       /\ rack.past.doc = asked[o.epoch].doc => rack.past.pos + 1 = o.start]_vars

\* While the transport plays, the reader adds something or the callback goes on: the
\* two never wait for each other, whatever the ring holds.
NobodyWaitsForever ==
  Rest /\ t.playing /\ ~CanFill /\ t.epoch \notin thrown =>
    Processed(Now).o # o \/ Processed(Now).ring # ring

(* Statements of the documentation that do not hold *)

\* A seek while stopped just relocates the playhead: what the callback reports later
\* of the pause before it leaves the playhead there.
SeeksStay == ~t.playing /\ sought # None => t.playhead = sought

\* The first sample heard of a start is the one it asked for.
StartsAsAsked == heard.epoch \notin thrown

\* A document is never played into what the rack remembers of another one.
RackIsOfDocument == [][KeepsRack => rack.past.doc = asked[o.epoch].doc]_vars
=============================================================================
