------------------------------- MODULE Rack -------------------------------
(***************************************************************************)
(* The live rack (crates/rack): the control thread keeps a list of slots   *)
(* and builds chains from it; the audio thread swaps the chain in, moves   *)
(* the instances that stay, crossfades those that are replaced, and sends  *)
(* back the old chain and what happened.  Plugins are created by loader    *)
(* threads.                                                                *)
(*                                                                         *)
(* An action is one call or one tick of the control thread, the commands   *)
(* the audio thread takes at the start of a callback, the rest of that     *)
(* callback, or the end of a load.  An instance has a number and the value *)
(* of one parameter.  A fade may end in any callback; sound, latencies,    *)
(* bypass, editors and notices are left out.                               *)
(***************************************************************************)
EXTENDS Naturals, SequencesExt

CONSTANTS MaxSwaps,     \* MAX_SWAPS_IN_FLIGHT
          ReturnCap,    \* RETURN_RING_CAPACITY
          CommandCap,   \* COMMAND_RING_CAPACITY
          PerCall,      \* MAX_COMMANDS_PER_CALL
          MaxSlots,     \* MAX_SLOTS
          AutoRestarts, \* AUTO_RESTARTS
          Models,       \* the stored slots a rack may start with
          MaxOps        \* bound: calls of the user, failures and requests of modules

ASSUME RackBounds ==
  /\ {MaxSwaps, ReturnCap, CommandCap, PerCall, MaxSlots, AutoRestarts, MaxOps} \subseteq Nat
  /\ MaxSwaps <= ReturnCap
  /\ Models \subseteq Seq({"builtin", "plugin", "missing", "broken"})

VARIABLES
  h,        \* RackHost
  cmds,     \* the ring of commands
  chain,    \* the slots of the installed chain
  outbox,   \* its events that are not in the ring yet
  audio,    \* what the audio thread does next
  retired,  \* the return ring: the instances of each retired chain
  events,   \* the ring of events
  loads,    \* finished loads
  ops,
  torn,     \* the rack was shut down
  lost,     \* of the properties: slots whose ReplaceDone went with a retired chain,
  moved     \* and those whose replacement took a queued change of the old instance over

vars == <<h, cmds, chain, outbox, audio, retired, events, loads, ops, torn, lost, moved>>

\* A builtin module is created by the caller, a plugin by a loader thread and runs
\* out of process; the state of a missing module is kept.
Modules == {"builtin", "plugin", "missing"}
Value   == {0, 1}
NoValue == 2
NoInst  == [id |-> 0, val |-> 0]

NewSlot(uid, m, v) ==
  [uid |-> uid, mod |-> m, val |-> v, kind |-> "placeholder", fresh |-> NoInst,
   failed |-> FALSE, autos |-> 0, due |-> FALSE, job |-> 0, asked |-> NoValue]

NewEntry(uid) ==
  [uid |-> uid, sent |-> FALSE, replace |-> FALSE, auxPending |-> FALSE, auxDone |-> FALSE,
   dying |-> FALSE, dead |-> FALSE]

\* A slot of a chain.  Without an instance it is a stand-in, or a shell to be filled.
LiveSlot(uid, plan, inst) ==
  [uid |-> uid, plan |-> plan, mod |-> inst, outgoing |-> NoInst, queue |-> NoValue,
   fading |-> FALSE, auxDone |-> FALSE, removing |-> FALSE, dead |-> FALSE,
   failed |-> FALSE, asked |-> FALSE]

Position(seq, uid) == SelectInSeq(seq, LAMBDA x : x.uid = uid)
Each(Op(_), seq) == FoldLeft(LAMBDA done, x : Append(done, Op(x)), <<>>, seq)
Ids(insts) == {i.id : i \in insts} \ {0}

-----------------------------------------------------------------------------
(* The host: what a call does to it *)

\* deactivate
Off(g, inst) == [g EXCEPT !.off = @ \cup Ids({inst})]

Made(g, v) == [id |-> g.made + 1, val |-> v]

\* spawn_load, for slot k with stored value v; a newer job supersedes an older one.
Spawned(g, k, v) ==
  [g EXCEPT !.jobs = @ \cup {[job |-> g.nextJob, uid |-> g.slots[k].uid, val |-> v]},
            !.slots[k].job = g.nextJob, !.slots[k].asked = g.slots[k].val,
            !.nextJob = @ + 1]

\* The slot gets the first instance it can have now.
Resolved(g, k) ==
  LET s == g.slots[k] IN
  CASE s.mod = "builtin" -> [g EXCEPT !.slots[k].kind = "loaded", !.made = @ + 1,
                                      !.slots[k].failed = FALSE,
                                      !.slots[k].fresh = Made(g, s.val)]
    [] s.mod = "plugin"  -> Spawned([g EXCEPT !.slots[k].kind = "loading",
                                              !.slots[k].failed = FALSE], k, s.val)
    [] OTHER             -> g

\* layout_pos_for
LayoutPosFor(g, k) ==
  IF k <= Len(g.slots) THEN Position(g.layout, g.slots[k].uid) ELSE Len(g.layout) + 1

Added(g, k, m, v) ==
  [g EXCEPT !.slots = InsertAt(@, k, NewSlot(g.nextUid, m, v)),
            !.layout = InsertAt(@, LayoutPosFor(g, k), NewEntry(g.nextUid)),
            !.nextUid = @ + 1]

\* remove_with_hold: what was not sent is gone at once, the rest fades out.
Removed(g, k) ==
  LET s  == g.slots[k]
      li == Position(g.layout, s.uid)
      r  == [Off(g, s.fresh) EXCEPT !.slots = RemoveAt(@, k)]
  IN  IF g.layout[li].sent
      THEN [r EXCEPT !.layout[li].dying = TRUE, !.layout[li].replace = FALSE,
                     !.backlog = Append(@, [op |-> "remove", uid |-> s.uid])]
      ELSE [r EXCEPT !.layout = RemoveAt(@, li)]

\* Mutant: a replacement does not wait for the crossfade of the one before.
BringsAtOnce(g, e) ==
  \/ ~e.sent
  \/ e.replace /\ Position(g.slots, e.uid) # 0

\* The next chain brings an instance or a stand-in for this entry.
Brings(g, e) ==
  \/ ~e.sent
  \/ e.replace /\ ~e.auxPending /\ Position(g.slots, e.uid) # 0

\* build_fresh_slot, or a shell that takes the live slot in.
Built(g, e) ==
  IF Brings(g, e)
  THEN LET s == g.slots[Position(g.slots, e.uid)]
           c == LiveSlot(e.uid, IF e.sent THEN "replace" ELSE "fresh", s.fresh)
       IN  IF s.kind = "loaded"
           THEN [c EXCEPT !.fading = ~e.sent,
                          !.queue = IF s.fresh.val # s.val THEN s.val ELSE NoValue]
           ELSE c
  ELSE LiveSlot(e.uid, IF e.auxDone THEN "drop" ELSE "keep", NoInst)

Sent(g, e) ==
  IF Brings(g, e)
  THEN [e EXCEPT !.sent = TRUE, !.replace = FALSE,
                 !.auxPending = IF e.sent THEN TRUE ELSE @,
                 !.auxDone = IF e.sent THEN FALSE ELSE @]
  ELSE [e EXCEPT !.auxDone = FALSE]

TooManySwaps(g) == g.inFlight >= MaxSwaps

\* flush and build_chain: a chain of shells only is not sent.
Flushed(g) ==
  IF ~g.dirty \/ TooManySwaps(g) THEN g
  ELSE LET kept == SelectSeq(g.layout, LAMBDA e : ~e.dead)
           next == Each(LAMBDA e : Built(g, e), kept)
           news == kept # g.layout \/ \E c \in Range(next) : c.plan # "keep"
           took == {e.uid : e \in {d \in Range(kept) : Brings(g, d)}}
           bare == [g EXCEPT !.dirty = FALSE, !.layout = Each(LAMBDA e : Sent(g, e), kept),
                             !.slots = Each(LAMBDA s : IF s.uid \in took
                                                       THEN [s EXCEPT !.fresh = NoInst]
                                                       ELSE s, @)]
       IN  IF news THEN [bare EXCEPT !.inFlight = @ + 1,
                                     !.backlog = Append(@, [op |-> "swap", next |-> next])]
           ELSE bare

\* The audio thread has what this slot was before: the next chain replaces it.
Replaces(g, uid) ==
  LET li == Position(g.layout, uid)
  IN  [g EXCEPT !.layout[li].replace = g.layout[li].sent \/ @, !.dirty = TRUE]

\* install_replacement; after a load, what the user changed meanwhile stays.
Installed(g, k, inst, asked) ==
  LET s == g.slots[k]
  IN  Flushed(Replaces([Off(g, s.fresh) EXCEPT
        !.slots[k].fresh = inst, !.slots[k].failed = FALSE,
        !.slots[k].val = IF asked \notin {s.val, NoValue} THEN @ ELSE inst.val], s.uid))

\* replace_with state v
Replaced(g, k, v) ==
  CASE g.slots[k].kind # "loaded"  -> g
    [] g.slots[k].mod = "plugin" -> Spawned(g, k, v)
    [] OTHER -> Installed([g EXCEPT !.made = @ + 1], k, Made(g, v), NoValue)

\* restart_now: a slot that could not start is resolved again (retry_start).
Restarted(g, k) ==
  LET s == g.slots[k] IN
  CASE s.kind # "placeholder" -> Replaced(g, k, s.val)
    [] s.failed /\ s.mod = "builtin" -> Flushed(Replaces(Resolved(g, k), s.uid))
    [] s.failed /\ s.mod = "plugin"  -> Resolved(g, k)
    [] OTHER -> g

-----------------------------------------------------------------------------
(* The host: what it learns at a tick *)

\* Mutant: a finished crossfade does not make the host look at the layout again.
DoneQuietly(g, li) ==
  [g EXCEPT !.layout[li].auxPending = FALSE, !.layout[li].auxDone = TRUE]

\* ReplaceDone
ReplaceIsDone(g, li) ==
  [g EXCEPT !.layout[li].auxPending = FALSE, !.layout[li].auxDone = TRUE, !.dirty = TRUE]

OnEvent(g, e) ==
  LET k  == Position(g.slots, e.uid)
      li == Position(g.layout, e.uid)
  IN  CASE e.ev = "restart" ->
             IF k = 0 \/ (k # 0 /\ (g.slots[k].job # 0 \/ g.layout[li].replace))
             THEN g ELSE Restarted(g, k)
        [] e.ev = "failed" ->
             IF k = 0 \/ (k # 0 /\ g.slots[k].kind # "loaded") THEN g
             ELSE [g EXCEPT !.slots[k].failed = TRUE,
                            !.slots[k].due = @ \/ (/\ e.itself /\ g.slots[k].mod = "plugin"
                                                   /\ g.slots[k].autos < AutoRestarts)]
        [] e.ev = "removed" ->
             IF li = 0 THEN g ELSE [g EXCEPT !.layout[li].dead = TRUE, !.dirty = TRUE]
        [] OTHER ->
             IF li = 0 THEN g ELSE ReplaceIsDone(g, li)

\* Mutant: an instance that comes too late is forgotten.
ForgetsLate(g, d) == g

\* The slot was removed, or another job has superseded this one.
DropsLate(g, d) == Off(g, d.inst)

OnLoadDone(g, d) ==
  LET k == Position(g.slots, d.uid)
      s == g.slots[k]
      f == [g EXCEPT !.slots[k].job = 0]
  IN  CASE k = 0 \/ (k # 0 /\ s.job # d.job) -> DropsLate(g, d)
        [] s.kind = "loading" /\ d.inst # NoInst ->
             Replaces([f EXCEPT !.slots[k].kind = "loaded", !.slots[k].fresh = d.inst,
                                !.slots[k].val = d.inst.val], d.uid)
        [] s.kind = "loading" ->
             [f EXCEPT !.slots[k].kind = "placeholder", !.slots[k].failed = TRUE]
        [] s.kind = "loaded" /\ d.inst # NoInst -> Installed(f, k, d.inst, s.asked)
        [] s.kind = "loaded" -> [f EXCEPT !.slots[k].failed = TRUE]
        [] OTHER -> Off(f, d.inst)

\* run_due_restarts, for one slot
RunDue(g, k) ==
  Replaced([g EXCEPT !.slots[k].due = FALSE, !.slots[k].autos = @ + 1], k, g.slots[k].val)

\* send and pump_backlog: commands that wait go first; only a tick sends those.
Pushes(g, ticks) ==
  LET room == IF ticks \/ h.backlog = <<>> THEN CommandCap - Len(cmds) ELSE 0
      n    == IF room < Len(g.backlog) THEN room ELSE Len(g.backlog)
  IN  /\ cmds' = cmds \o SubSeq(g.backlog, 1, n)
      /\ h' = [g EXCEPT !.backlog = SubSeq(@, n + 1, Len(@))]

\* tick: retired chains, events, loads, the restarts that are due, the next chain.
Tick ==
  /\ ~torn
  /\ LET g1 == [h EXCEPT !.inFlight = @ - Len(retired), !.off = @ \cup UNION Range(retired)]
         g2 == FoldLeft(OnEvent, g1, events)
         g3 == FoldLeft(OnLoadDone, g2, loads)
     IN  \E D \in SUBSET {k \in DOMAIN g3.slots : g3.slots[k].due} :
           Pushes(Flushed(FoldLeft(RunDue, g3, SetToSeq(D))), TRUE)
  /\ retired' = <<>> /\ events' = <<>> /\ loads' = <<>>
  /\ UNCHANGED <<chain, outbox, audio, ops, torn, lost, moved>>

-----------------------------------------------------------------------------
(* Calls *)

Call(g) ==
  /\ ~torn /\ ops < MaxOps
  /\ ops' = ops + 1
  /\ Pushes(g, FALSE)
  /\ UNCHANGED <<chain, outbox, audio, retired, events, loads, torn, lost, moved>>

Dirty(g) == [g EXCEPT !.dirty = TRUE]

Insert ==
  /\ Len(h.slots) < MaxSlots
  /\ \E k \in 1..(Len(h.slots) + 1), m \in Modules :
       Call(Flushed(Dirty(Resolved(Added(h, k, m, 0), k))))

RemoveSlot == \E k \in DOMAIN h.slots : Call(Removed(h, k))

\* The moved module starts again from its state, the old one fades out.
Move ==
  \E from, to \in DOMAIN h.slots :
    LET s == h.slots[from]
        g == Added(Removed(h, from), to, s.mod, s.val)
    IN  /\ from # to
        /\ Call(Flushed(Dirty(IF s.kind = "placeholder"
                                THEN [g EXCEPT !.slots[to].failed = s.failed]
                                ELSE Resolved(g, to))))

SetParam ==
  \E k \in DOMAIN h.slots, v \in Value :
    LET s == h.slots[k]
        g == [h EXCEPT !.slots[k].val = v]
    IN  /\ s.kind = "loaded" /\ s.val # v
        /\ Call(IF h.layout[Position(h.layout, s.uid)].sent
                  THEN [g EXCEPT !.backlog = Append(@, [op |-> "param", uid |-> s.uid, val |-> v])]
                ELSE g)

Restart ==
  \E k \in DOMAIN h.slots :
    /\ h.slots[k].kind = "loaded" \/ (h.slots[k].kind = "placeholder" /\ h.slots[k].failed)
    /\ Call(Restarted([h EXCEPT !.slots[k].autos = 0, !.slots[k].due = FALSE], k))

ReplaceState ==
  \E k \in DOMAIN h.slots, v \in Value :
    /\ h.slots[k].kind = "loaded"
    /\ Call(Replaced(h, k, v))

\* Every slot goes, the new ones (here: one) come behind those that fade out.
LoadModel ==
  \E m \in Modules :
    LET none == FoldLeft(LAMBDA g, s : Removed(g, 1), h, h.slots)
    IN  Call(Flushed(Dirty(Resolved(Added(none, 1, m, 0), 1))))

\* A loader thread has its instance, or could not make it.
LoadFinishes ==
  /\ ~torn
  /\ \E j \in h.jobs, ok \in BOOLEAN :
       /\ loads' = Append(loads, [job |-> j.job, uid |-> j.uid,
                                  inst |-> IF ok THEN Made(h, j.val) ELSE NoInst])
       /\ h' = [h EXCEPT !.jobs = @ \ {j}, !.made = IF ok THEN @ + 1 ELSE @]
  /\ UNCHANGED <<cmds, chain, outbox, audio, retired, events, ops, torn, lost, moved>>

-----------------------------------------------------------------------------
(* The audio thread *)

Insts(slots) == Ids({c.mod : c \in Range(slots)} \cup {c.outgoing : c \in Range(slots)})

\* take_over: the old instance stays until the new one has faded in.
TakenOver(new, old) ==
  [new EXCEPT !.outgoing = old.mod, !.fading = TRUE, !.auxDone = (old.mod = NoInst),
              !.queue = IF old.queue = NoValue THEN @ ELSE old.queue]

Kept(old, drops) ==
  [old EXCEPT !.plan = "keep", !.outgoing = IF drops THEN NoInst ELSE @,
              !.auxDone = IF drops THEN FALSE ELSE @]

\* apply_swap, on a state of the audio thread
Swapped(w, next) ==
  LET i(c) == Position(w.chain, c.uid)
      Now(c) == CASE i(c) = 0 \/ c.plan = "fresh" -> c
                  [] c.plan = "replace" -> TakenOver(c, w.chain[i(c)])
                  [] OTHER -> Kept(w.chain[i(c)], c.plan = "drop")
      new  == Each(Now, next)
      done == SelectSeq(next, LAMBDA c : /\ c.plan = "replace"
                                         /\ i(c) # 0 => w.chain[i(c)].mod = NoInst)
  IN  [chain   |-> new,
       outbox  |-> Each(LAMBDA c : [ev |-> "done", uid |-> c.uid], done),
       retired |-> Append(w.retired, Insts(w.chain) \ Insts(new)),
       lost    |-> w.lost \cup {e.uid : e \in Range(w.outbox)},
       moved   |-> w.moved \cup {c.uid : c \in {d \in Range(next) :
                     d.plan = "replace" /\ i(d) # 0 /\ w.chain[i(d)].queue # NoValue}}]

\* handle
Handled(w, c) ==
  LET i == IF c.op = "swap" THEN 0 ELSE Position(w.chain, c.uid) IN
  CASE c.op = "swap"   -> Swapped(w, c.next)
    [] i = 0           -> w
    [] c.op = "param"  -> [w EXCEPT !.chain[i].queue = c.val]
    \* A stand-in already plays what a removed slot fades to: no fade begins.
    [] OTHER           -> [w EXCEPT !.chain[i].removing = TRUE,
                                    !.chain[i].fading = w.chain[i].mod # NoInst]

\* The start of process.
Pump ==
  /\ ~torn /\ audio = "pump"
  /\ LET n == IF PerCall < Len(cmds) THEN PerCall ELSE Len(cmds)
         w == FoldLeft(Handled, [chain |-> chain, outbox |-> outbox, retired |-> retired,
                                 lost |-> lost, moved |-> moved],
                       SubSeq(cmds, 1, n))
     IN  /\ chain' = w.chain /\ outbox' = w.outbox
         /\ retired' = w.retired /\ lost' = w.lost /\ moved' = w.moved
         /\ cmds' = SubSeq(cmds, n + 1, Len(cmds))
  /\ audio' = "run"
  /\ UNCHANGED <<h, events, loads, ops, torn>>

Delivered(c) ==
  IF c.dead \/ c.mod = NoInst \/ c.queue = NoValue THEN c
  ELSE [c EXCEPT !.mod.val = c.queue, !.queue = NoValue]

\* The rest of process, where slots change to cs and the outbox gets posts.
Runs(cs, posts) ==
  /\ ~torn /\ audio = "run"
  /\ chain' = Each(Delivered, cs)
  /\ events' = events \o outbox \o posts
  /\ outbox' = <<>>
  /\ audio' = "pump"
  /\ UNCHANGED <<h, cmds, retired, loads, torn, lost, moved>>

Run == Runs(chain, <<>>) /\ UNCHANGED ops

\* A fade is over: the end of a removal, of a crossfade, or of both.
RunEndsFade ==
  \E i \in DOMAIN chain :
    LET c == chain[i]
        over == c.outgoing # NoInst /\ ~c.auxDone
    IN  /\ c.fading
        /\ Runs([chain EXCEPT ![i].fading = FALSE, ![i].dead = c.removing,
                              ![i].auxDone = @ \/ over],
                (IF c.removing THEN <<[ev |-> "removed", uid |-> c.uid]>> ELSE <<>>)
                  \o (IF over THEN <<[ev |-> "done", uid |-> c.uid]>> ELSE <<>>))
        /\ UNCHANGED ops

Trouble(i) ==
  /\ ops < MaxOps
  /\ ops' = ops + 1
  /\ chain[i].mod # NoInst /\ ~chain[i].dead

\* fail: once for each instance; a plugin may have failed by itself.
RunFails ==
  \E i \in DOMAIN chain, itself \in BOOLEAN :
    /\ Trouble(i) /\ ~chain[i].failed
    /\ Runs([chain EXCEPT ![i].failed = TRUE, ![i].fading = @ \/ ~chain[i].removing],
            <<[ev |-> "failed", uid |-> chain[i].uid, itself |-> itself]>>)

\* The module asks for a restart: once for each instance.
RunAsksRestart ==
  \E i \in DOMAIN chain :
    /\ Trouble(i) /\ ~chain[i].asked
    /\ Runs([chain EXCEPT ![i].asked = TRUE],
            <<[ev |-> "restart", uid |-> chain[i].uid]>>)

-----------------------------------------------------------------------------
(* Start and shutdown *)

\* "broken" is a builtin that cannot start.
NewHost(model) ==
  LET Add(g, m) ==
        LET k == Len(g.slots) + 1
        IN  IF m = "broken" THEN [Added(g, k, "builtin", 0) EXCEPT !.slots[k].failed = TRUE]
            ELSE Resolved(Added(g, k, m, 0), k)
  IN  FoldLeft(Add, [slots |-> <<>>, layout |-> <<>>, backlog |-> <<>>, inFlight |-> 0,
                     dirty |-> FALSE, nextUid |-> 1, made |-> 0, nextJob |-> 1,
                     jobs |-> {}, off |-> {}], model)

\* The first chain is not sent but handed over, and does not fade in.
Init ==
  /\ \E model \in Models :
       LET g == NewHost(model)
       IN  /\ chain = Each(LAMBDA s : LiveSlot(s.uid, "fresh", s.fresh), g.slots)
           /\ h = [g EXCEPT !.layout = Each(LAMBDA e : [e EXCEPT !.sent = TRUE], @),
                            !.slots = Each(LAMBDA s : [s EXCEPT !.fresh = NoInst], @)]
  /\ cmds = <<>> /\ outbox = <<>> /\ retired = <<>> /\ events = <<>> /\ loads = <<>>
  /\ audio = "pump" /\ ops = 0 /\ torn = FALSE /\ lost = {} /\ moved = {}

SwapInsts(q) == UNION {Insts(c.next) : c \in {d \in Range(q) : d.op = "swap"}}

\* teardown, with the stream stopped: finished loads are not taken any more.
Teardown ==
  /\ ~torn /\ audio = "pump"
  /\ torn' = TRUE
  /\ h' = [h EXCEPT !.off = @ \cup Insts(chain) \cup UNION Range(retired)
                              \cup SwapInsts(cmds) \cup SwapInsts(h.backlog)
                              \cup Ids({s.fresh : s \in Range(h.slots)})]
  /\ UNCHANGED <<cmds, chain, outbox, audio, retired, events, loads, ops, lost, moved>>

Calls == Insert \/ RemoveSlot \/ Move \/ SetParam \/ Restart \/ ReplaceState \/ LoadModel
Audio == Pump \/ Run \/ RunEndsFade \/ RunFails \/ RunAsksRestart

Next == Calls \/ Tick \/ LoadFinishes \/ Audio \/ Teardown

Spec == Init /\ [][Next]_vars

-----------------------------------------------------------------------------
(* Properties *)

\* The types; the rings never hold more than they can (ADR-002 section 3: at most 32
\* swaps are in flight, so a push of a retired chain can never fail).
TypeOK ==
  /\ Len(h.slots) <= MaxSlots /\ Len(cmds) <= CommandCap
  /\ h.inFlight \in 0..MaxSwaps /\ Len(retired) <= ReturnCap
  /\ h.off \subseteq 1..h.made
  /\ audio \in {"pump", "run"}
  /\ \A s \in Range(h.slots) :
       /\ s.kind \in {"loaded", "loading", "placeholder"} /\ s.mod \in Modules
       /\ s.val \in Value /\ s.autos \in 0..AutoRestarts

\* Every instance there is, with its multiplicity.
Held ==
  LET parts(cs) == FlattenSeq([i \in DOMAIN cs |-> <<cs[i].mod.id, cs[i].outgoing.id>>])
      swaps == SelectSeq(cmds \o h.backlog, LAMBDA c : c.op = "swap")
  IN  SelectSeq([k \in DOMAIN h.slots |-> h.slots[k].fresh.id]
                  \o parts(chain)
                  \o FlattenSeq([i \in DOMAIN swaps |-> parts(swaps[i].next)])
                  \o FlattenSeq([i \in DOMAIN retired |-> SetToSeq(retired[i])])
                  \o [i \in DOMAIN loads |-> loads[i].inst.id],
                LAMBDA n : n # 0)

\* Every instance is held by one owner until it is deactivated, and by nobody after
\* that: none plays after it was freed, none is freed twice, none is forgotten, but for
\* the finished loads that the shutdown finds.  A slot holds one exactly while a chain has
\* still to bring it (build_fresh_slot panics if it finds none).
InstancesHaveOneOwner ==
  IF torn THEN h.off = 1..h.made \ Ids({d.inst : d \in Range(loads)})
  ELSE /\ IsInjective(Held)
       /\ Range(Held) \cap h.off = {}
       /\ Range(Held) \cup h.off = 1..h.made
       /\ \A s \in Range(h.slots) :
            LET e == h.layout[Position(h.layout, s.uid)] IN
            s.kind = "loaded" => (s.fresh # NoInst <=> ~e.sent \/ e.replace)

\* Nothing is on its way, and no fade goes on.
Quiet ==
  /\ ~torn
  /\ <<h.backlog, cmds, events, outbox, retired, loads>> = [i \in 1..6 |-> <<>>]
  /\ h.jobs = {} /\ ~h.dirty
  /\ \A c \in Range(chain) : ~c.fading /\ (c.mod # NoInst => c.queue = NoValue)

\* When nothing is on its way, the chain is the host's list: the same slots in the same
\* order, each with the newest instance and the mirror's value, nothing fading out, and
\* a failure of the instance is known.  Left out are the cases of RemovedSlotsLeave,
\* ReplacementsArrive and ReplacedStatePlays.
ChainFollowsModel ==
  Quiet =>
    /\ h.inFlight = 0
    /\ SelectSeq(chain, LAMBDA c : ~(c.removing /\ c.mod = NoInst)) =
         [k \in DOMAIN h.slots |-> chain[Position(chain, h.slots[k].uid)]]
    /\ \A s \in Range(h.slots) :
         LET c == chain[Position(chain, s.uid)] IN
         s.kind = "loaded" /\ s.uid \notin lost =>
           /\ s.fresh = NoInst /\ c.mod # NoInst
           /\ s.uid \notin moved => c.mod.val = s.val
           /\ c.outgoing = NoInst
           /\ c.failed => s.failed

\* A removed slot is dropped from the chain once it has faded out (host.rs, remove).
RemovedSlotsLeave == Quiet => \A e \in Range(h.layout) : ~e.dying

\* A replacement that was held back follows when the one before is done (slot.rs,
\* take_over).
ReplacementsArrive == Quiet => \A e \in Range(h.layout) : ~e.replace

\* A replacement plays the values the mirror took from its state (host.rs,
\* replace_state), not a change that the old instance was still to get.
ReplacedStatePlays ==
  Quiet => \A s \in Range(h.slots) : s.kind = "loaded" /\ s.uid \notin lost =>
             chain[Position(chain, s.uid)].mod.val = s.val

\* An instance that is crossfaded out leaves the chain only when the crossfade is over,
\* or its slot has been removed.
OutgoingFadesOut ==
  [][\A c \in Range(chain) :
       c.outgoing # NoInst /\ c.outgoing.id \notin Insts(chain') =>
         c.auxDone \/ c.dead]_vars
=============================================================================
