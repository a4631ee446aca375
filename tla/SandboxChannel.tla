--------------------------- MODULE SandboxChannel ---------------------------
(***************************************************************************)
(* The channel between the editor and a plugin's sandbox process           *)
(* (crates/sandbox-ipc): two sample rings, an event ring and two doorbells *)
(* in shared memory, between                                               *)
(*   - the host's audio thread   (host.rs, HostEnd::process),              *)
(*   - the plugin's audio thread (plugin.rs, PluginEnd::service), and      *)
(*   - the control thread        (monitor.rs, Monitor::poll),              *)
(* with the plugin's process crashing or hanging at any point.             *)
(*                                                                         *)
(* Every load and store that another thread can tell apart is a step, each *)
(* sample of a chunk on its own.  Memory is sequentially consistent, which *)
(* is what the code's fences and orderings are there to give.  A sample is *)
(* the stream position it was recorded at; an output sample is the input   *)
(* position it was computed from.  Waiting time is left open: a wait may   *)
(* time out at any moment, and only a call of the plugin's own code may    *)
(* take as long as the hang timeout.                                       *)
(***************************************************************************)
EXTENDS Integers, Sequences, FiniteSets

CONSTANTS
  MaxBlock,       \* B, the largest chunk
  RingCapacity,   \* C, samples per ring
  Latency,        \* L, how far the output is behind the input
  EventCapacity,  \* E, events per ring
  StallAfter,     \* misses after which the host stops waiting
  MaxChunks,      \* MAX_CHUNKS_PER_SERVICE
  MaxPos,         \* bound: the stream's length
  MaxEvents,      \* bound: events the host sends
  Troubles        \* bound: what goes wrong, of "crash", "hang", "force", "shutdown"

\* Layout::new: C is at least 8 blocks; two are what the protocol needs.
ASSUME BlockIsPositive == MaxBlock \in Nat \ {0}
ASSUME RingHoldsTwoBlocks == RingCapacity \in Nat /\ RingCapacity >= 2 * MaxBlock
ASSUME LatencyIsABlock == Latency \in 0..MaxBlock
ASSUME RestAreNat == {EventCapacity, StallAfter, MaxChunks, MaxPos, MaxEvents} \subseteq Nat
\* The stream begins with the latency's silence.
ASSUME StreamHoldsSilence == MaxPos >= Latency

VARIABLES
  (* the segment *)
  in, out,            \* the sample rings
  in_write_pos, out_write_pos, out_valid_from,
  events,             \* published and not yet consumed by the plugin
  bell,               \* the doorbells
  state,              \* PeerState
  host_command,
  heartbeat,          \* moved since the monitor looked
  (* the threads *)
  host, plug, mon,
  bypass,             \* set by mon, read by host
  sent                \* of the bound: events pushed so far

segment == <<in, out, in_write_pos, out_write_pos, out_valid_from, events, bell,
             state, host_command, heartbeat>>
vars    == <<segment, host, plug, mon, bypass, sent>>

NoSample == -1
Slot(p) == p % RingCapacity

\* How far the plugin may lag behind.
Window == RingCapacity - MaxBlock

Done == state \in {"stopped", "failed"}

-----------------------------------------------------------------------------
(* The doorbell (wakeup.rs).  `rung` says whether seq has moved since the   *)
(* waiter sampled it, `asleep` that the waiter is parked in the kernel.     *)

Silent == [rung |-> FALSE, waiters |-> 0, asleep |-> FALSE]

\* ring: seq first, then the waiters.
Rings(b) == bell' = [bell EXCEPT ![b].rung = TRUE]
Wakes(b) == bell' = [bell EXCEPT ![b].asleep = @ /\ bell[b].waiters = 0]

\* wait_until: seq is sampled before the condition is looked at.
Samples(b)    == bell' = [bell EXCEPT ![b].rung = FALSE]
Announces(b)  == bell' = [bell EXCEPT ![b].waiters = @ + 1]

\* Mutant: the waiter parks without a look at seq.
ParksUnchecked(b) == bell' = [bell EXCEPT ![b].asleep = TRUE]
\* The kernel compares seq with the sample and parks, in one step.
Parks(b)      == bell' = [bell EXCEPT ![b].asleep = ~bell[b].rung]

\* Mutant: the waiter stays counted.
UnannouncesNot(b) == bell' = [bell EXCEPT ![b].asleep = FALSE]
Unannounces(b) == bell' = [bell EXCEPT ![b].waiters = @ - 1, ![b].asleep = FALSE]

-----------------------------------------------------------------------------
(* The host's audio thread *)

From == host.pos - host.n - Latency     \* once the chunk is published
To   == From + host.n

\* The end of a call, and of a chunk in a longer one.
HostIdle(pos, misses) == [pc |-> "idle", pos |-> pos, n |-> 0, k |-> 0, w |-> 0,
                          misses |-> misses]

HostAt(pc) == host' = [host EXCEPT !.pc = pc]

\* push_event, between two calls: positions never decrease and lie in the next
\* call's input.  A full ring drops the event.
PushEvent(pos, kind) ==
  /\ host.pc = "idle" /\ sent < MaxEvents
  /\ pos >= host.pos
  /\ events # <<>> => pos >= events[Len(events)].pos
  /\ sent' = sent + 1
  /\ events' = IF Len(events) < EventCapacity
               THEN Append(events, [pos |-> pos, kind |-> kind]) ELSE events
  /\ UNCHANGED <<in, out, in_write_pos, out_write_pos, out_valid_from, bell, state,
                 host_command, heartbeat, host, plug, mon, bypass>>

HostBegin(n) ==
  /\ host.pc = "idle" /\ host.pos + n <= MaxPos
  /\ host' = [host EXCEPT !.pc = "store", !.n = n, !.k = 0]
  /\ UNCHANGED <<segment, plug, mon, bypass, sent>>

HostStore ==
  /\ host.pc = "store"
  /\ in' = [in EXCEPT ![Slot(host.pos + host.k)] = host.pos + host.k]
  /\ host' = [host EXCEPT !.k = @ + 1,
                          !.pc = IF host.k + 1 = host.n THEN "publish" ELSE "store"]
  /\ UNCHANGED <<out, in_write_pos, out_write_pos, out_valid_from, events, bell,
                 state, host_command, heartbeat, plug, mon, bypass, sent>>

HostPublish ==
  /\ host.pc = "publish"
  /\ in_write_pos' = host.pos + host.n
  /\ host' = [host EXCEPT !.pos = @ + host.n, !.pc = "live"]
  /\ UNCHANGED <<in, out, out_write_pos, out_valid_from, events, bell, state,
                 host_command, heartbeat, plug, mon, bypass, sent>>

\* No ring, no wait for a channel that is bypassed or whose plugin is done.
HostLive ==
  /\ host.pc = "live"
  /\ HostAt(IF bypass \/ Done THEN "bypassed" ELSE "ring")
  /\ UNCHANGED <<segment, plug, mon, bypass, sent>>

HostRing ==
  /\ \/ host.pc = "ring" /\ Rings("to_plugin") /\ HostAt("wake")
     \/ host.pc = "wake" /\ Wakes("to_plugin") /\ HostAt("written")
  /\ UNCHANGED <<in, out, in_write_pos, out_write_pos, out_valid_from, events, state,
                 host_command, heartbeat, plug, mon, bypass, sent>>

\* wet_ready, two loads: out_write_pos here, ...
NextLoad == [written |-> "valid", wait_written |-> "wait_valid",
             last_written |-> "last_valid"]

HostLoadWritten ==
  /\ host.pc \in DOMAIN NextLoad
  /\ host' = [host EXCEPT !.w = out_write_pos, !.pc = NextLoad[host.pc]]
  /\ UNCHANGED <<segment, plug, mon, bypass, sent>>

\* Mutant: what a resynchronisation skipped is not looked at.
WetReadyUnchecked(w, valid) == w >= To /\ w <= host.pos
\* ... out_valid_from here.
WetReady(w, valid) == w >= To /\ valid <= From /\ w <= host.pos

\* The check before, in and after the wait.  In the wait a bypass ends it, too.
HostLoadValid ==
  /\ LET ready == WetReady(host.w, out_valid_from) IN
     \/ /\ host.pc = "valid"
        /\ host' = [host EXCEPT !.k = 0,
                      !.pc = IF ready THEN "read"
                             ELSE IF host.misses < StallAfter THEN "sample"
                             ELSE "missed"]
     \/ /\ host.pc = "wait_valid"
        /\ HostAt(IF ready \/ bypass THEN "last_written" ELSE "announce")
     \/ /\ host.pc = "last_valid"
        /\ HostAt(IF ready THEN "read" ELSE "missed")
  /\ UNCHANGED <<segment, plug, mon, bypass, sent>>

\* One round of wait_until on to_host.
HostWait ==
  /\ \/ host.pc = "sample" /\ Samples("to_host") /\ HostAt("wait_written")
     \/ host.pc = "announce" /\ Announces("to_host") /\ HostAt("park")
     \/ host.pc = "park" /\ Parks("to_host") /\ HostAt("parked")
     \/ /\ host.pc = "parked" /\ ~bell["to_host"].asleep
        /\ Unannounces("to_host") /\ HostAt("sample")
  /\ UNCHANGED <<in, out, in_write_pos, out_write_pos, out_valid_from, events, state,
                 host_command, heartbeat, plug, mon, bypass, sent>>

\* The deadline passed, or MAX_WAIT_ROUNDS are over.
HostTimeout ==
  /\ host.pc = "parked"
  /\ Unannounces("to_host")
  /\ HostAt("last_written")
  /\ UNCHANGED <<in, out, in_write_pos, out_write_pos, out_valid_from, events, state,
                 host_command, heartbeat, plug, mon, bypass, sent>>

\* A sample of the output, and of the dry signal next to it, is read.
HostRead ==
  /\ host.pc = "read"
  /\ host' = IF host.k + 1 < host.n THEN [host EXCEPT !.k = @ + 1]
             ELSE HostIdle(host.pos, 0)
  /\ UNCHANGED <<segment, plug, mon, bypass, sent>>

HostDry ==
  /\ host.pc \in {"missed", "bypassed"}
  /\ host' = HostIdle(host.pos, IF host.pc = "missed" /\ host.misses < StallAfter
                                THEN host.misses + 1 ELSE host.misses)
  /\ UNCHANGED <<segment, plug, mon, bypass, sent>>

-----------------------------------------------------------------------------
(* The plugin's audio thread.  plug.ring is where it goes on after a ring.  *)

PlugAt(pc) == plug' = [plug EXCEPT !.pc = pc]
PlugRings(ring) == plug' = [plug EXCEPT !.pc = "ring", !.ring = ring]

ShuttingDown == host_command = "shutdown"

\* Mutant: input that was seen, and left for the next service, is forgotten.
HasInputUnseen == in_write_pos # plug.w
HasInput == in_write_pos # plug.read_pos

PlugAttach ==
  /\ plug.pc = "absent"
  /\ state' = "running" /\ heartbeat' = TRUE
  /\ PlugRings("activating")
  /\ UNCHANGED <<in, out, in_write_pos, out_write_pos, out_valid_from, events, bell,
                 host_command, host, mon, bypass, sent>>

PlugRing ==
  /\ \/ plug.pc = "ring" /\ Rings("to_host") /\ PlugAt("wake")
     \/ plug.pc = "wake" /\ Wakes("to_host") /\ PlugAt(plug.ring)
  /\ UNCHANGED <<in, out, in_write_pos, out_write_pos, out_valid_from, events, state,
                 host_command, heartbeat, host, mon, bypass, sent>>

\* server.rs: the plugin's own activation, before its audio thread starts.
PlugActivate ==
  /\ plug.pc = "activating"
  /\ \/ PlugAt("service") /\ UNCHANGED state
     \/ PlugRings("gone") /\ state' = "failed"
  /\ UNCHANGED <<in, out, in_write_pos, out_write_pos, out_valid_from, events, bell,
                 host_command, heartbeat, host, mon, bypass, sent>>

\* A service call begins, or its wait is over ("woken"): heartbeat, shutdown,
\* and the input.
PlugService ==
  /\ plug.pc \in {"service", "woken"}
  /\ heartbeat' = TRUE
  /\ IF ShuttingDown
     THEN PlugRings("gone") /\ state' = "stopped"
     ELSE /\ plug' = [plug EXCEPT !.w = in_write_pos, !.iter = 0,
                        !.pc = IF HasInput THEN "loop"
                               ELSE IF plug.pc = "service" THEN "sample" ELSE "service"]
          /\ UNCHANGED state
  /\ UNCHANGED <<in, out, in_write_pos, out_write_pos, out_valid_from, events, bell,
                 host_command, host, mon, bypass, sent>>

\* One round of wait_until on to_plugin.
PlugWait ==
  /\ \/ plug.pc = "sample" /\ Samples("to_plugin") /\ PlugAt("check")
     \/ /\ plug.pc = "check" /\ UNCHANGED bell
        /\ PlugAt(IF HasInput \/ ShuttingDown THEN "woken" ELSE "announce")
     \/ plug.pc = "announce" /\ Announces("to_plugin") /\ PlugAt("park")
     \/ plug.pc = "park" /\ Parks("to_plugin") /\ PlugAt("parked")
     \/ /\ plug.pc = "parked" /\ ~bell["to_plugin"].asleep
        /\ Unannounces("to_plugin") /\ PlugAt("sample")
  /\ UNCHANGED <<in, out, in_write_pos, out_write_pos, out_valid_from, events, state,
                 host_command, heartbeat, host, mon, bypass, sent>>

PlugTimeout ==
  /\ plug.pc = "parked"
  /\ Unannounces("to_plugin")
  /\ PlugAt("woken")
  /\ UNCHANGED <<in, out, in_write_pos, out_write_pos, out_valid_from, events, state,
                 host_command, heartbeat, host, mon, bypass, sent>>

\* Mutant: resets do not end a chunk.
BarrierNone(start, end) == end
\* reset_barrier: a chunk ends at the first reset inside it.
Barrier(start, end) ==
  LET resets == {i \in DOMAIN events : events[i].kind = "reset"
                                       /\ start < events[i].pos /\ events[i].pos < end}
  IN  IF resets = {} THEN end
      ELSE events[CHOOSE i \in resets : \A j \in resets : i <= j].pos

ChunkEnd(start) ==
  Barrier(start, IF plug.w < start + MaxBlock THEN plug.w ELSE start + MaxBlock)

\* The end of the loop (no input left, or MAX_CHUNKS_PER_SERVICE done), an
\* overrun, or a chunk.
PlugLoop ==
  /\ plug.pc = "loop"
  /\ LET start == plug.read_pos IN
         IF plug.w = start \/ plug.iter = MaxChunks THEN PlugAt("service")
         ELSE IF plug.w - start > Window
         THEN plug' = [plug EXCEPT !.pc = "skip", !.iter = @ + 1]
         ELSE plug' = [plug EXCEPT !.pc = "load", !.iter = @ + 1, !.k = 0,
                                   !.torn = FALSE, !.end = ChunkEnd(start)]
  /\ UNCHANGED <<segment, host, mon, bypass, sent>>

\* resync: out_valid_from first, then out_write_pos.
PlugResync ==
  /\ \/ /\ plug.pc = "skip"
        /\ out_valid_from' = plug.w
        /\ PlugAt("skipped")
        /\ UNCHANGED out_write_pos
     \/ /\ plug.pc = "skipped"
        /\ out_write_pos' = plug.w
        /\ plug' = [plug EXCEPT !.read_pos = plug.w, !.pc = "loop"]
        /\ UNCHANGED out_valid_from
  /\ UNCHANGED <<in, out, in_write_pos, events, bell, state, host_command, heartbeat,
                 host, mon, bypass, sent>>

PlugLoad ==
  /\ plug.pc = "load"
  /\ LET p == plug.read_pos + plug.k IN
     plug' = [plug EXCEPT !.k = @ + 1, !.torn = @ \/ in[Slot(p)] # p,
                          !.pc = IF p + 1 = plug.end THEN "recheck" ELSE "load"]
  /\ UNCHANGED <<segment, host, mon, bypass, sent>>

\* Mutant: off by one at the edge of what the host may overwrite.
OverrunLate(w) == w - plug.read_pos > Window + 1
\* in_write_pos again: may the host have overwritten what was read?
Overrun(w) == w - plug.read_pos > Window

\* The events of the chunk are taken out of the ring with it.
Due == {i \in DOMAIN events : \A j \in 1..i : events[j].pos < plug.end}

PlugRecheck ==
  /\ plug.pc = "recheck"
  /\ IF Overrun(in_write_pos)
     THEN plug' = [plug EXCEPT !.w = in_write_pos, !.pc = "skip"] /\ UNCHANGED events
     ELSE /\ plug' = [plug EXCEPT !.pc = "in_call", !.k = 0,
                                  !.events = {events[i] : i \in Due}]
          /\ events' = [i \in 1..(Len(events) - Cardinality(Due)) |->
                          events[i + Cardinality(Due)]]
  /\ UNCHANGED <<in, out, in_write_pos, out_write_pos, out_valid_from, bell, state,
                 host_command, heartbeat, host, mon, bypass, sent>>

\* The plugin's process callback.
PlugProcess ==
  /\ plug.pc = "in_call"
  /\ plug' = [plug EXCEPT !.pc = "store", !.events = {}]
  /\ UNCHANGED <<segment, host, mon, bypass, sent>>

PlugStore ==
  /\ plug.pc = "store"
  /\ LET p == plug.read_pos + plug.k IN
     /\ out' = [out EXCEPT ![Slot(p)] = IF plug.torn THEN NoSample ELSE p]
     /\ plug' = [plug EXCEPT !.k = @ + 1,
                             !.pc = IF p + 1 = plug.end THEN "publish" ELSE "store"]
  /\ UNCHANGED <<in, in_write_pos, out_write_pos, out_valid_from, events, bell, state,
                 host_command, heartbeat, host, mon, bypass, sent>>

PlugPublish ==
  /\ plug.pc = "publish"
  /\ out_write_pos' = plug.end
  /\ heartbeat' = TRUE
  /\ plug' = [plug EXCEPT !.read_pos = plug.end, !.pc = "ring", !.ring = "next"]
  /\ UNCHANGED <<in, out, in_write_pos, out_valid_from, events, bell, state,
                 host_command, host, mon, bypass, sent>>

PlugNext ==
  /\ plug.pc = "next"
  /\ plug' = [plug EXCEPT !.w = in_write_pos, !.pc = "loop"]
  /\ UNCHANGED <<segment, host, mon, bypass, sent>>

\* The process dies, wherever it is; or the plugin's own code never returns.
PlugCrash ==
  /\ "crash" \in Troubles
  /\ plug.pc \notin {"absent", "dead"}
  /\ PlugAt("dead")
  /\ UNCHANGED <<segment, host, mon, bypass, sent>>

PlugHang ==
  /\ "hang" \in Troubles
  /\ plug.pc \in {"activating", "in_call"}
  /\ plug' = [plug EXCEPT !.pc = "stuck", !.events = {}]
  /\ UNCHANGED <<segment, host, mon, bypass, sent>>

-----------------------------------------------------------------------------
(* The control thread: Monitor, and the watchdog that polls it.             *)

MonAt(pc) == mon' = [mon EXCEPT !.pc = pc]

\* bypass_now, up to its ring; `kill` says that the process is killed afterwards.
Bypasses(fault, kill) ==
  /\ bypass' = TRUE
  /\ mon' = [mon EXCEPT !.pc = IF bypass THEN "told" ELSE "ring",
                        !.bell = "to_host", !.fault = fault, !.kill = kill]

Exited == plug.pc = "dead"

\* Mutant: a plugin that exited after a shutdown request is left alone.
SeesPeerUnlessAsked == (Exited /\ ~mon.asked) \/ Done
SeesPeer == Exited \/ Done

PeerFault ==
  IF mon.fault # "none" THEN mon.fault
  ELSE IF state = "failed" THEN "failed"
  ELSE IF mon.asked THEN "none"
  ELSE IF state = "stopped" THEN "exited" ELSE "crashed"

\* poll, when the process is gone or the plugin says it is done.  Otherwise
\* poll notes whether the heartbeat moved.
MonPoll ==
  /\ mon.pc = "idle"
  /\ heartbeat' = FALSE
  /\ IF SeesPeer /\ (Exited \/ PeerFault # mon.fault)
     THEN Bypasses(PeerFault, FALSE)
     ELSE UNCHANGED <<bypass, mon>>
  /\ UNCHANGED <<in, out, in_write_pos, out_write_pos, out_valid_from, events, bell,
                 state, host_command, host, plug, sent>>

\* poll, when the heartbeat did not move for the hang timeout: the plugin's own
\* code has been running since.
MonPollStale ==
  /\ mon.pc = "idle" /\ mon.fault = "none" /\ ~mon.asked
  /\ state = "running" /\ ~heartbeat
  /\ plug.pc \in {"activating", "in_call", "stuck"}
  /\ Bypasses("hung", TRUE)
  /\ UNCHANGED <<segment, host, plug, sent>>

\* Sandbox::record after a control request: force_bypass, and the process is
\* killed when it did not answer in time.
MonForceBypass(kill) ==
  /\ "force" \in Troubles
  /\ mon.pc = "idle"
  /\ Bypasses(mon.fault, kill)
  /\ UNCHANGED <<segment, host, plug, sent>>

MonRequestShutdown ==
  /\ "shutdown" \in Troubles
  /\ mon.pc = "idle" /\ ~mon.asked
  /\ mon' = [mon EXCEPT !.pc = "ring", !.bell = "to_plugin", !.asked = TRUE]
  /\ host_command' = "shutdown"
  /\ UNCHANGED <<in, out, in_write_pos, out_write_pos, out_valid_from, events, bell,
                 state, heartbeat, host, plug, bypass, sent>>

MonRing ==
  /\ \/ mon.pc = "ring" /\ Rings(mon.bell) /\ MonAt("wake")
     \/ mon.pc = "wake" /\ Wakes(mon.bell) /\ MonAt("told")
  /\ UNCHANGED <<in, out, in_write_pos, out_write_pos, out_valid_from, events, state,
                 host_command, heartbeat, host, plug, bypass, sent>>

\* Sandbox::record kills the process of a hung plugin.
MonTold ==
  /\ mon.pc = "told"
  /\ mon' = [mon EXCEPT !.pc = "idle", !.kill = FALSE]
  /\ IF mon.kill THEN PlugAt("dead") ELSE UNCHANGED plug
  /\ UNCHANGED <<segment, host, bypass, sent>>

-----------------------------------------------------------------------------
\* Channel::create_in: the first Latency output positions are silence.
Init ==
  /\ in  = [i \in 0..(RingCapacity - 1) |-> IF i < Latency THEN i ELSE NoSample]
  /\ out = [i \in 0..(RingCapacity - 1) |-> IF i < Latency THEN i ELSE NoSample]
  /\ in_write_pos = Latency /\ out_write_pos = Latency /\ out_valid_from = 0
  /\ events = <<>>
  /\ bell = [b \in {"to_plugin", "to_host"} |-> Silent]
  /\ state = "created" /\ host_command = "run" /\ heartbeat = FALSE
  /\ host = HostIdle(Latency, 0)
  /\ plug = [pc |-> "absent", ring |-> "next", read_pos |-> Latency, w |-> Latency,
             end |-> Latency, k |-> 0, iter |-> 0, torn |-> FALSE, events |-> {}]
  /\ mon = [pc |-> "idle", bell |-> "to_host", fault |-> "none", asked |-> FALSE,
            kill |-> FALSE]
  /\ bypass = FALSE /\ sent = 0

HostStep == \/ HostStore \/ HostPublish \/ HostLive \/ HostRing \/ HostLoadWritten
            \/ HostLoadValid \/ HostWait \/ HostRead \/ HostDry

PlugStep == \/ PlugRing \/ PlugActivate \/ PlugService \/ PlugWait \/ PlugLoop
            \/ PlugResync \/ PlugLoad \/ PlugRecheck \/ PlugProcess \/ PlugStore
            \/ PlugPublish \/ PlugNext

MonStep == MonPoll \/ MonPollStale \/ MonRing \/ MonTold

\* What the environment decides: calls, timeouts, crashes and hangs.
Environment ==
  \/ \E n \in 1..MaxBlock : HostBegin(n)
  \/ \E p \in Latency..(MaxPos - 1), kind \in {"param", "reset"} : PushEvent(p, kind)
  \/ HostTimeout \/ PlugTimeout
  \/ PlugAttach \/ PlugCrash \/ PlugHang
  \/ (\E kill \in BOOLEAN : MonForceBypass(kill)) \/ MonRequestShutdown

Next == HostStep \/ PlugStep \/ MonStep \/ Environment

\* The three threads keep running; no wait is ever ended by its deadline, and
\* nothing is called, if that can be helped.
Fairness == WF_vars(HostStep) /\ WF_vars(PlugStep) /\ WF_vars(MonStep)

Spec == Init /\ [][Next]_vars /\ Fairness

-----------------------------------------------------------------------------
(* Properties *)

Pos == 0..MaxPos
Event == [pos : Pos, kind : {"param", "reset"}]

HostState == [pc : {"idle", "store", "publish", "live", "ring", "wake", "written",
                    "valid", "sample", "wait_written", "wait_valid", "announce",
                    "park", "parked", "last_written", "last_valid", "read", "missed",
                    "bypassed"},
              pos : Pos, n : 0..MaxBlock, k : 0..MaxBlock, w : Pos,
              misses : 0..StallAfter]

PlugPc == {"absent", "ring", "wake", "activating", "service", "sample", "check",
           "announce", "park", "parked", "woken", "loop", "load", "recheck", "skip",
           "skipped", "in_call", "store", "publish", "next", "gone", "stuck", "dead"}

PlugState == [pc : PlugPc, ring : {"activating", "next", "gone"}, read_pos : Pos,
              w : Pos, end : Pos, k : 0..MaxBlock, iter : 0..MaxChunks,
              torn : BOOLEAN, events : SUBSET Event]

MonState == [pc : {"idle", "ring", "wake", "told"}, bell : {"to_plugin", "to_host"},
             fault : {"none", "failed", "exited", "crashed", "hung"}, asked : BOOLEAN,
             kill : BOOLEAN]

\* The segment and the three threads have the shape of the code; the cursors
\* are ordered and a chunk fits its ring.
TypeOK ==
  /\ in \in [0..(RingCapacity - 1) -> Pos \cup {NoSample}]
  /\ out \in [0..(RingCapacity - 1) -> Pos \cup {NoSample}]
  /\ {in_write_pos, out_write_pos, out_valid_from} \subseteq Pos
  /\ out_write_pos <= in_write_pos
  /\ events \in Seq(Event) /\ Len(events) <= EventCapacity
  /\ bell \in [{"to_plugin", "to_host"} -> [rung : BOOLEAN, waiters : {0, 1}, asleep : BOOLEAN]]
  /\ state \in {"created", "running", "stopped", "failed"}
  /\ host_command \in {"run", "shutdown"} /\ heartbeat \in BOOLEAN
  /\ host \in HostState /\ plug \in PlugState /\ mon \in MonState
  /\ bypass \in BOOLEAN /\ sent \in 0..MaxEvents

\* lib.rs: the output of a call is the plugin's, or the dry signal, of exactly
\* the positions one latency earlier, however late the plugin is, whatever it
\* skipped and whatever it is writing meanwhile.
OutputIsAligned ==
  /\ host.pc = "read" => out[Slot(From + host.k)] = From + host.k
  /\ host.pc \in {"read", "missed", "bypassed"} =>
       \A p \in From..(To - 1) : in[Slot(p)] = p

\* The plugin never processes a chunk that the host overwrote while it was read.
ChunksAreWhole == plug.pc = "in_call" => ~plug.torn

\* H-55: a reset applies at the first sample of a chunk, and an event comes late
\* only when a resynchronisation skipped its position.
EventsOnTime ==
  plug.pc = "in_call" =>
    \A e \in plug.events :
      /\ e.kind = "reset" => e.pos <= plug.read_pos
      /\ e.pos >= plug.read_pos \/ e.pos < out_valid_from

\* wakeup.rs: no lost wake-ups.  A parked thread whose condition holds is woken,
\* without the help of its deadline.  (A bypassed plugin gets no more rings for
\* input.)
NoLostWakeups ==
  /\ host.pc = "parked" /\ (WetReady(out_write_pos, out_valid_from) \/ bypass)
       ~> host.pc # "parked"
  /\ plug.pc = "parked" /\ ((HasInput /\ ~bypass) \/ ShuttingDown)
       ~> plug.pc # "parked" \/ (bypass /\ ~ShuttingDown)

Serving == plug.pc \notin {"absent", "gone", "stuck", "dead"}

\* Published input is processed or skipped as long as the plugin serves and the
\* channel is not bypassed.
InputIsServed ==
  \A p \in (Latency + 1)..MaxPos :
    in_write_pos >= p ~> out_write_pos >= p \/ ~Serving \/ bypass \/ Done

\* ADR-008 5: a plugin that died or hangs is bypassed, unless it hangs after it
\* was asked to stop (the control request times out then).
FaultsAreBypassed == plug.pc \in {"stuck", "dead"} ~> bypass \/ (mon.asked /\ plug.pc = "stuck")

\* sandbox.rs:25, Hung: "No heartbeat progress for the hang timeout while fed": a
\* plugin that was never given input is not reported as hung.
OnlyFedPluginsHang == mon.fault = "hung" => in_write_pos > Latency

=============================================================================
