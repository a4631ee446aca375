------------------------ MODULE SandboxChannelProofs ------------------------
(***************************************************************************)
(* Proofs about the channel to a sandbox, for rings of any capacity that   *)
(* holds two blocks, any latency up to a block and streams of any length:  *)
(* what the host takes out is aligned with what it put in, no torn chunk   *)
(* reaches the plugin, and events are on time.                             *)
(***************************************************************************)
EXTENDS SandboxChannel, FiniteSetTheorems, WellFoundedInduction, TLAPS

-----------------------------------------------------------------------------
(* The inductive invariant *)

\* Where the host is in its call.
Filling   == {"store", "publish"}
Published == {"live", "ring", "wake", "written", "valid", "sample", "wait_written",
              "wait_valid", "announce", "park", "parked", "last_written", "last_valid",
              "read", "missed", "bypassed"}

\* From the first look at the output on, nothing has been read yet.
Waiting == {"sample", "wait_written", "wait_valid", "announce", "park", "parked",
            "last_written", "last_valid"}

HostInv ==
  /\ host.pos = in_write_pos /\ Latency <= host.pos
  /\ host.pc # "idle" => host.n >= 1
  /\ host.pc \in Filling => host.pos + host.n <= MaxPos
  /\ host.pc \in Published => Latency + host.n <= host.pos
  /\ host.pc \in {"store", "read"} => host.k < host.n
  /\ host.pc = "publish" => host.k = host.n
  /\ host.pc \in Waiting => host.k = 0
  /\ host.w <= out_write_pos

\* Where the plugin is in a chunk, and where it skipped what was overwritten.
Loading == {"load", "recheck"}
Whole   == {"in_call", "store", "publish"}

PlugInv ==
  /\ plug.read_pos = out_write_pos
  /\ plug.read_pos <= plug.w /\ plug.w <= in_write_pos
  /\ out_valid_from <= plug.w
  /\ IF plug.pc = "skipped" THEN out_valid_from = plug.w
     ELSE plug.pc # "dead" => out_valid_from <= plug.read_pos
  /\ plug.pc \in Loading \cup Whole =>
       /\ plug.read_pos < plug.end /\ plug.end <= plug.w
       /\ plug.end <= plug.read_pos + MaxBlock
  /\ plug.pc \in {"load", "store"} => plug.read_pos + plug.k < plug.end
  /\ plug.pc = "in_call" => plug.k = 0
  /\ plug.pc = "publish" => plug.read_pos + plug.k = plug.end

\* A thread is counted at its doorbell while it is about to park or parked.
BellInv ==
  /\ bell["to_host"].waiters = IF host.pc \in {"park", "parked"} THEN 1 ELSE 0
  /\ plug.pc # "dead" =>
       bell["to_plugin"].waiters = IF plug.pc \in {"park", "parked"} THEN 1 ELSE 0

\* What the host has stored, and how much of the older input it left.
Stored == host.pos + (IF host.pc \in Filling THEN host.k ELSE 0)

InInv == \A p \in Nat : Stored - RingCapacity <= p /\ p < Stored => in[Slot(p)] = p

\* A chunk that was overwritten while it was read is one the host is ahead of.
TornInv ==
  /\ plug.pc \in Loading /\ plug.torn => in_write_pos - plug.read_pos > Window
  /\ plug.pc \in Whole => ~plug.torn

\* What the plugin has computed, in and beyond the published part.
Computed == plug.read_pos + (IF plug.pc \in {"store", "publish"} THEN plug.k ELSE 0)

OutInv ==
  \A p \in Nat : out_valid_from <= p /\ in_write_pos - RingCapacity <= p /\ p < Computed
                   => out[Slot(p)] = p

\* What the host reads stays as it is until it has read it.
ReadInv ==
  host.pc = "read" =>
    /\ To <= out_write_pos
    /\ \A p \in Nat : From <= p /\ p < To => out[Slot(p)] = p

ChannelInv == TypeOK /\ HostInv /\ PlugInv /\ BellInv /\ InInv /\ TornInv /\ OutInv /\ ReadInv

-----------------------------------------------------------------------------
(* Slots and sets of numbers *)

LEMMA Sizes ==
  /\ MaxBlock \in Nat /\ MaxBlock >= 1 /\ RingCapacity \in Nat /\ RingCapacity >= 2 * MaxBlock
  /\ Latency \in Nat /\ Latency <= MaxBlock
  /\ EventCapacity \in Nat /\ StallAfter \in Nat /\ MaxChunks \in Nat
  /\ MaxPos \in Nat /\ Latency <= MaxPos /\ MaxEvents \in Nat
BY BlockIsPositive, RingHoldsTwoBlocks, LatencyIsABlock, RestAreNat, StreamHoldsSilence

LEMMA SlotType == \A p \in Nat : Slot(p) \in 0..(RingCapacity - 1)
BY Sizes DEF Slot

LEMMA SmallSlot == \A p \in Nat : p < RingCapacity => Slot(p) = p
BY Sizes DEF Slot

\* Positions less than the ring's capacity apart have different slots.
LEMMA SlotsApart ==
  ASSUME NEW p \in Nat, NEW q \in Nat, p < q, q < p + RingCapacity
  PROVE  Slot(p) # Slot(q)
<1> SUFFICES ASSUME Slot(p) = Slot(q) PROVE FALSE
  OBVIOUS
<1>1. /\ p \div RingCapacity \in Int /\ q \div RingCapacity \in Int
      /\ p = RingCapacity * (p \div RingCapacity) + Slot(p)
      /\ q = RingCapacity * (q \div RingCapacity) + Slot(q)
  BY Sizes DEF Slot
<1> DEFINE d == (q \div RingCapacity) - (p \div RingCapacity)
<1>2. d \in Int /\ q - p = RingCapacity * d
  BY <1>1, Sizes, SlotType
<1> HIDE DEF d
<1>3. d >= 1
  BY <1>2, Sizes
<1>4. RingCapacity * d >= RingCapacity
  BY <1>2, <1>3, Sizes
<1> QED BY <1>2, <1>4, Sizes

\* A set of numbers that is not empty has a least element.
LEMMA LeastNumber ==
  ASSUME NEW S \in SUBSET Nat, S # {}
  PROVE  \E m \in S : \A n \in S : m <= n
<1> DEFINE below == {0..n : n \in S}
<1>1. below \subseteq FiniteSubsetsOf(Nat) /\ below # {}
  <2>1. ASSUME NEW n \in S
        PROVE  IsFiniteSet(0..n) /\ 0..n \in SUBSET Nat
    <3>1. n \in Int /\ 0 \in Int
      OBVIOUS
    <3> QED BY <3>1, FS_Interval
  <2> QED BY <2>1 DEF FiniteSubsetsOf
<1>2. IsWellFoundedOn(StrictSubsetOrdering(Nat), FiniteSubsetsOf(Nat))
  BY FS_StrictSubsetOrderingWellFounded
<1>3. PICK x \in below : \A y \in below : <<y, x>> \notin StrictSubsetOrdering(Nat)
  BY <1>1, <1>2, WFMin
<1>4. PICK m \in S : x = 0..m
  BY <1>3
<1>5. ASSUME NEW n \in S, n < m
      PROVE  FALSE
  <2>1. 0..n \subseteq 0..m /\ m \in 0..m /\ m \notin 0..n
    BY <1>5
  <2>2. <<0..n, x>> \in StrictSubsetOrdering(Nat)
    BY <1>4, <2>1 DEF StrictSubsetOrdering
  <2> QED BY <1>3, <2>2
<1> QED BY <1>5

\* A set of numbers up to n that holds all numbers below its own is an interval.
LEMMA PrefixIsInterval ==
  ASSUME NEW n \in Nat, NEW S \in SUBSET (1..n), \A i \in S : 1..i \subseteq S
  PROVE  Cardinality(S) \in 0..n /\ S = 1..Cardinality(S)
<1>0. \A m \in Nat : Cardinality(1..m) = m
  <2> TAKE m \in Nat
  <2>1. Cardinality(1..m) = IF 1 > m THEN 0 ELSE m - 1 + 1
    BY FS_Interval
  <2> QED BY <2>1
<1>1. CASE S = 1..n
  BY <1>0, <1>1
<1>2. CASE S # 1..n
  <2>0. (1..n) \ S \in SUBSET Nat /\ (1..n) \ S # {}
    <3>1. S \subseteq 1..n
      OBVIOUS
    <3>2. PICK i \in 1..n : i \notin S
      BY <1>2, <3>1
    <3> QED BY <3>2
  <2>1. PICK m \in (1..n) \ S : \A i \in (1..n) \ S : m <= i
    BY <2>0, LeastNumber
  <2>2. ASSUME NEW i \in S
        PROVE  i \in 1..(m - 1)
    <3>1. i \in 1..n /\ m \notin 1..i
      BY <2>1
    <3> QED BY <2>1, <3>1
  <2>3. S = 1..(m - 1)
    <3>1. ASSUME NEW i \in 1..(m - 1)
          PROVE  i \in S
      <4>1. i \in 1..n /\ ~(m <= i)
        BY <2>1
      <4> QED BY <2>1, <4>1
    <3> QED BY <2>2, <3>1
  <2>4. Cardinality(S) = m - 1
    BY <1>0, <2>1, <2>3
  <2> QED BY <2>1, <2>3, <2>4
<1> QED BY <1>1, <1>2

-----------------------------------------------------------------------------
(* Steps that leave the rings and the cursors alone *)

rings == <<in, out, in_write_pos, out_write_pos, out_valid_from>>

LEMMA RestStep ==
  ASSUME ChannelInv, TypeOK', BellInv', UNCHANGED rings, host' = host, plug' = plug
  PROVE  ChannelInv'
<1>1. HostInv' /\ PlugInv' /\ TornInv'
  BY DEF ChannelInv, HostInv, PlugInv, TornInv, rings
<1>2. InInv' /\ OutInv'
  BY DEF ChannelInv, InInv, OutInv, Stored, Computed, rings
<1>3. ReadInv'
  BY DEF ChannelInv, ReadInv, From, To, rings
<1> QED BY <1>1, <1>2, <1>3 DEF ChannelInv

\* The host goes on in its call, or ends it.
LEMMA HostStepRests ==
  ASSUME ChannelInv, TypeOK', BellInv', UNCHANGED rings, plug' = plug,
         host.pc \notin Filling, host'.pc \in Published \cup {"idle"},
         host'.pos = host.pos, host'.n = host.n \/ host'.pc = "idle",
         host'.w <= out_write_pos,
         host'.pc = "read" => host'.k < host'.n /\ ReadInv',
         host'.pc \in Waiting => host'.k = 0,
         host.pc = "idle" => host'.pc = "idle"
  PROVE  ChannelInv'
<1>1. PlugInv' /\ TornInv'
  BY DEF ChannelInv, PlugInv, TornInv, rings
<1>2. HostInv'
  BY DEF ChannelInv, TypeOK, HostState, HostInv, rings, Published, Filling, Waiting
<1>3. Stored' = Stored /\ Computed' = Computed
  BY DEF Stored, Computed, Filling, Published
<1>4. InInv' /\ OutInv'
  BY <1>3 DEF ChannelInv, InInv, OutInv, rings
<1>5. ReadInv'
  BY DEF ReadInv
<1> QED BY <1>1, <1>2, <1>4, <1>5 DEF ChannelInv

\* The plugin goes on without storing output.
LEMMA PlugStepRests ==
  ASSUME ChannelInv, TypeOK', BellInv', UNCHANGED rings, host' = host,
         PlugInv', TornInv', plug'.read_pos = plug.read_pos,
         plug'.pc \notin {"store", "publish"} \/ plug'.k = 0
  PROVE  ChannelInv'
<1>1. HostInv' /\ InInv' /\ ReadInv'
  BY DEF ChannelInv, HostInv, InInv, Stored, ReadInv, From, To, rings
<1>2. Computed' <= Computed /\ Computed' \in Int /\ Computed \in Int
  <2>1. /\ plug \in PlugState /\ plug' \in PlugState
    BY DEF ChannelInv, TypeOK
  <2>2. /\ plug.read_pos \in Nat /\ plug.k \in Nat /\ plug'.k \in Nat
    BY <2>1, Sizes DEF PlugState, Pos
  <2> QED BY <2>2 DEF Computed
<1>3. OutInv'
  BY <1>2, Sizes DEF ChannelInv, TypeOK, OutInv, rings, Pos
<1> QED BY <1>1, <1>3 DEF ChannelInv

-----------------------------------------------------------------------------
(* The host's audio thread *)

LEMMA HostBeginKeeps ==
  ASSUME ChannelInv, NEW n \in 1..MaxBlock, HostBegin(n)
  PROVE  ChannelInv'
<1>1. /\ TypeOK /\ UNCHANGED <<segment, plug, mon, bypass, sent>> /\ host.pc = "idle"
      /\ host' = [host EXCEPT !.pc = "store", !.n = n, !.k = 0] /\ host.pos + n <= MaxPos
  BY DEF ChannelInv, HostBegin
<1>2. /\ host' \in HostState /\ host'.pc = "store" /\ host'.n = n /\ host'.k = 0
      /\ host'.pos = host.pos /\ host'.w = host.w
  <2>1. host \in HostState /\ n \in 0..MaxBlock /\ 0 \in 0..MaxBlock
    BY <1>1, Sizes DEF TypeOK
  <2> QED BY <1>1, <2>1 DEF HostState
<1>3. TypeOK' /\ UNCHANGED rings
  BY <1>1, <1>2 DEF TypeOK, segment, rings
<1>4. HostInv' /\ PlugInv' /\ BellInv' /\ TornInv'
  BY <1>1, <1>2 DEF ChannelInv, HostInv, PlugInv, BellInv, TornInv, segment, Filling, Published, Waiting
<1>5. Stored' = Stored /\ Computed' = Computed
  BY <1>1, <1>2 DEF Stored, Computed, Filling, TypeOK, HostState, Pos
<1>6. InInv' /\ OutInv' /\ ReadInv'
  BY <1>2, <1>3, <1>5 DEF ChannelInv, InInv, OutInv, ReadInv, rings
<1> QED BY <1>3, <1>4, <1>6 DEF ChannelInv

\* The slot that is overwritten held a position that is a whole ring older.
LEMMA HostStoreKeeps ==
  ASSUME ChannelInv, HostStore
  PROVE  ChannelInv'
<1> DEFINE q == host.pos + host.k
<1>1. /\ TypeOK /\ host.pc = "store" /\ in' = [in EXCEPT ![Slot(q)] = q]
      /\ host' = [host EXCEPT !.k = @ + 1,
                          !.pc = IF host.k + 1 = host.n THEN "publish" ELSE "store"]
      /\ UNCHANGED <<out, in_write_pos, out_write_pos, out_valid_from, events, bell,
                     state, host_command, heartbeat, plug, mon, bypass, sent>>
  BY DEF ChannelInv, HostStore
<1>2. /\ host.pos \in Nat /\ host.k \in Nat /\ host.n \in 1..MaxBlock /\ host.k < host.n
      /\ host.pos + host.n <= MaxPos
  BY <1>1, Sizes DEF ChannelInv, TypeOK, HostState, HostInv, Pos, Filling
<1>3. /\ host' \in HostState /\ host'.pos = host.pos /\ host'.n = host.n /\ host'.w = host.w
      /\ host'.k = host.k + 1
      /\ host'.pc = IF host.k + 1 = host.n THEN "publish" ELSE "store"
  <2>1. host \in HostState
    BY <1>1 DEF TypeOK
  <2>2. host.k + 1 \in 0..MaxBlock
    BY <1>2, Sizes
  <2> QED BY <1>1, <2>1, <2>2 DEF HostState
<1>4. q \in Nat /\ q \in Pos /\ Slot(q) \in 0..(RingCapacity - 1)
  BY <1>2, Sizes, SlotType DEF Pos
<1> HIDE DEF q
<1>5. /\ in' \in [0..(RingCapacity - 1) -> Pos \cup {NoSample}]
      /\ in'[Slot(q)] = q
      /\ \A i \in 0..(RingCapacity - 1) : i # Slot(q) => in'[i] = in[i]
  BY <1>1, <1>4 DEF TypeOK
<1>6. TypeOK'
  BY <1>1, <1>3, <1>5 DEF TypeOK
<1>7. HostInv' /\ PlugInv' /\ BellInv' /\ TornInv'
  BY <1>1, <1>2, <1>3 DEF ChannelInv, HostInv, PlugInv, BellInv, TornInv, Filling, Published, Waiting
<1>8. Stored = q /\ Stored' = q + 1 /\ Computed' = Computed
  BY <1>1, <1>2, <1>3 DEF Stored, Computed, Filling, q
<1>9. InInv'
  <2>1. ASSUME NEW p \in Nat, q + 1 - RingCapacity <= p, p < q + 1
        PROVE  in'[Slot(p)] = p
    <3>1. CASE p = q
      BY <1>5, <3>1
    <3>2. CASE p # q
      <4>1. p < q /\ q < p + RingCapacity
        BY <1>4, <2>1, <3>2, Sizes
      <4>2. Slot(p) # Slot(q) /\ Slot(p) \in 0..(RingCapacity - 1)
        BY <1>4, <4>1, SlotsApart, SlotType
      <4>3. in[Slot(p)] = p
        BY <1>4, <1>8, <2>1, <4>1, Sizes DEF ChannelInv, InInv
      <4> QED BY <1>5, <4>2, <4>3
    <3> QED BY <3>1, <3>2
  <2> QED BY <1>4, <1>8, <2>1, Sizes DEF InInv
<1>10. OutInv' /\ ReadInv'
  BY <1>1, <1>3, <1>8 DEF ChannelInv, OutInv, ReadInv
<1> QED BY <1>6, <1>7, <1>9, <1>10 DEF ChannelInv

LEMMA HostPublishKeeps ==
  ASSUME ChannelInv, HostPublish
  PROVE  ChannelInv'
<1>1. /\ TypeOK /\ host.pc = "publish" /\ in_write_pos' = host.pos + host.n
      /\ host' = [host EXCEPT !.pos = @ + host.n, !.pc = "live"]
      /\ UNCHANGED <<in, out, out_write_pos, out_valid_from, events, bell, state,
                     host_command, heartbeat, plug, mon, bypass, sent>>
  BY DEF ChannelInv, HostPublish
<1>2. /\ host.pos \in Nat /\ host.n \in 1..MaxBlock /\ host.k = host.n
      /\ host.pos + host.n <= MaxPos /\ host.pos = in_write_pos /\ Latency <= host.pos
      /\ host.w \in Nat /\ host.w <= out_write_pos
  BY <1>1, Sizes DEF ChannelInv, TypeOK, HostState, HostInv, Pos, Filling
<1>3. /\ host' \in HostState /\ host'.pos = host.pos + host.n /\ host'.n = host.n
      /\ host'.w = host.w /\ host'.pc = "live"
  <2>1. host \in HostState /\ host.pos + host.n \in Pos
    <3>1. host \in HostState
      BY <1>1 DEF TypeOK
    <3>2. host.pos + host.n \in Nat
      BY ONLY <1>2, Sizes
    <3> QED BY ONLY <1>2, <3>1, <3>2, Sizes DEF Pos
  <2>2. "pos" \in DOMAIN host /\ "n" \in DOMAIN host /\ "w" \in DOMAIN host /\ "pc" \in DOMAIN host
    BY <2>1 DEF HostState
  <2>3. \A p \in Pos : [host EXCEPT !.pos = p, !.pc = "live"] \in HostState
    BY <2>1 DEF HostState
  <2>4. host' = [host EXCEPT !.pos = host.pos + host.n, !.pc = "live"]
    BY <1>1
  <2>5. host' \in HostState
    BY <2>1, <2>3, <2>4
  <2>6. /\ host'.pos = host.pos + host.n /\ host'.n = host.n
        /\ host'.w = host.w /\ host'.pc = "live"
    BY <2>2, <2>4
  <2> QED BY <2>5, <2>6
<1>4. in_write_pos' \in Pos /\ in_write_pos <= in_write_pos' /\ out_write_pos <= in_write_pos'
  <2>1. in_write_pos \in 0..MaxPos /\ out_write_pos \in 0..MaxPos /\ out_write_pos <= in_write_pos
    BY <1>1 DEF TypeOK, Pos
  <2> QED BY <1>1, <1>2, <2>1, Sizes DEF Pos
<1>5. TypeOK'
  BY <1>1, <1>3, <1>4 DEF TypeOK
<1>6. HostInv' /\ BellInv'
  BY <1>1, <1>2, <1>3, Sizes DEF ChannelInv, HostInv, BellInv, Filling, Published, Waiting
<1>7. plug.w \in Nat /\ plug.read_pos \in Nat /\ in_write_pos \in Nat /\ in_write_pos' \in Nat
  BY <1>1, <1>4 DEF TypeOK, PlugState, Pos
<1>8. PlugInv' /\ TornInv'
  BY <1>1, <1>4, <1>7, Sizes DEF ChannelInv, PlugInv, TornInv, Window
<1>9. Stored' = Stored /\ Computed' = Computed
  BY <1>1, <1>2, <1>3 DEF Stored, Computed, Filling
<1>10. InInv' /\ OutInv' /\ ReadInv'
  BY <1>1, <1>3, <1>4, <1>7, <1>9, Sizes DEF ChannelInv, InInv, OutInv, ReadInv
<1> QED BY <1>5, <1>6, <1>8, <1>10 DEF ChannelInv

-----------------------------------------------------------------------------
(* The doorbells *)

Bells == [{"to_plugin", "to_host"} -> [rung : BOOLEAN, waiters : {0, 1}, asleep : BOOLEAN]]

\* The count of a bell's waiters, and the bells besides b.
Counts(b, n) == /\ bell' \in Bells /\ bell'[b].waiters = n
                /\ \A c \in {"to_plugin", "to_host"} : c # b => bell'[c] = bell[c]

LEMMA BellCounts ==
  ASSUME TypeOK, NEW b \in {"to_plugin", "to_host"}
  PROVE  /\ Rings(b) \/ Wakes(b) \/ Samples(b) \/ Parks(b) => Counts(b, bell[b].waiters)
         /\ Announces(b) /\ bell[b].waiters = 0 => Counts(b, 1)
         /\ Unannounces(b) /\ bell[b].waiters = 1 => Counts(b, 0)
<1>1. bell \in Bells
  BY DEF TypeOK, Bells
<1>2. bell[b].rung \in BOOLEAN /\ bell[b].asleep \in BOOLEAN /\ bell[b].waiters \in {0, 1}
  BY <1>1 DEF Bells
<1>4. ASSUME NEW rung \in BOOLEAN, bell' = [bell EXCEPT ![b].rung = rung]
      PROVE  Counts(b, bell[b].waiters)
  <2>1. [bell[b] EXCEPT !.rung = rung].waiters = bell[b].waiters
    BY <1>1 DEF Bells
  <2>2. bell' \in Bells
    BY <1>1, <1>2, <1>4 DEF Bells
  <2>3. /\ bell'[b].waiters = bell[b].waiters
        /\ \A c \in {"to_plugin", "to_host"} : c # b => bell'[c] = bell[c]
    BY <1>1, <1>4, <2>1 DEF Bells
  <2> QED BY <2>2, <2>3 DEF Counts
<1>5. Rings(b) => Counts(b, bell[b].waiters)
  <2>1. Rings(b) => \E rung \in BOOLEAN : bell' = [bell EXCEPT ![b].rung = rung]
    BY DEF Rings
  <2> QED BY <1>4, <2>1
<1>3. ASSUME NEW a \in BOOLEAN, bell' = [bell EXCEPT ![b].asleep = a]
      PROVE  Counts(b, bell[b].waiters)
  <2>1. CASE a = TRUE
    BY <1>1, <1>2, <1>3, <2>1 DEF Counts, Bells
  <2>2. CASE a = FALSE
    BY <1>1, <1>2, <1>3, <2>2 DEF Counts, Bells
  <2> QED BY <2>1, <2>2
<1>6. Wakes(b) => Counts(b, bell[b].waiters)
  <2>1. (bell[b].asleep /\ bell[b].waiters = 0) \in BOOLEAN
    OBVIOUS
  <2> QED BY <1>3, <2>1 DEF Wakes
<1>7. Samples(b) => Counts(b, bell[b].waiters)
  <2>1. Samples(b) => \E rung \in BOOLEAN : bell' = [bell EXCEPT ![b].rung = rung]
    BY DEF Samples
  <2> QED BY <1>4, <2>1
<1>8. Parks(b) => Counts(b, bell[b].waiters)
  <2>1. (~bell[b].rung) \in BOOLEAN
    OBVIOUS
  <2> QED BY <1>3, <2>1 DEF Parks
<1>9. Announces(b) /\ bell[b].waiters = 0 => Counts(b, 1)
  <2> SUFFICES ASSUME bell' = [bell EXCEPT ![b].waiters = 1] PROVE Counts(b, 1)
    BY DEF Announces
  <2> QED BY <1>1, <1>2 DEF Counts, Bells
<1>10. Unannounces(b) /\ bell[b].waiters = 1 => Counts(b, 0)
  <2> SUFFICES ASSUME bell' = [bell EXCEPT ![b].waiters = 0, ![b].asleep = FALSE]
               PROVE  Counts(b, 0)
    BY DEF Unannounces
  <2> QED BY <1>1, <1>2 DEF Counts, Bells
<1> QED BY <1>5, <1>6, <1>7, <1>8, <1>9, <1>10

\* The host at another point of its call.
LEMMA HostAtEffect ==
  ASSUME TypeOK, NEW pc \in {"idle"} \cup Filling \cup Published, HostAt(pc)
  PROVE  /\ host' \in HostState /\ host'.pc = pc
         /\ host'.pos = host.pos /\ host'.n = host.n /\ host'.k = host.k /\ host'.w = host.w
<1>1. host \in HostState
  BY DEF TypeOK
<1> QED BY <1>1 DEF HostAt, HostState, Filling, Published

LEMMA HostIdleEffect ==
  ASSUME TypeOK, NEW misses \in 0..StallAfter, host' = HostIdle(host.pos, misses)
  PROVE  host' \in HostState /\ host'.pc = "idle" /\ host'.pos = host.pos /\ host'.w = 0
<1>1. host.pos \in Pos
  BY DEF TypeOK, HostState
<1> QED BY <1>1, Sizes DEF HostIdle, HostState, Pos

\* The host rings, waits and looks around without a word to the rings.
LEMMA HostQuietKeeps ==
  ASSUME ChannelInv, HostLive \/ HostRing \/ HostWait \/ HostTimeout
  PROVE  ChannelInv'
<1>1. /\ TypeOK /\ UNCHANGED rings /\ plug' = plug
      /\ UNCHANGED <<events, state, host_command, heartbeat, mon, bypass, sent>>
  BY DEF ChannelInv, HostLive, HostRing, HostWait, HostTimeout, rings, segment
<1>2. PICK pc \in Published \ {"read"} : HostAt(pc) /\
        /\ host.pc \in Published /\ (pc \in Waiting => host.pc \in Waiting)
        /\ \/ host.pc \notin {"park", "parked"} /\ pc \notin {"park", "parked"}
              /\ (bell' = bell \/ Counts("to_host", bell["to_host"].waiters)
                               \/ Counts("to_plugin", bell["to_plugin"].waiters))
           \/ host.pc = "announce" /\ pc = "park" /\ Announces("to_host")
           \/ host.pc = "park" /\ pc = "parked" /\ Parks("to_host")
           \/ host.pc = "parked" /\ pc \notin {"park", "parked"} /\ Unannounces("to_host")
  <2>1. CASE HostLive
    BY <2>1 DEF HostLive, segment, Published, Waiting
  <2>2. CASE HostRing
    BY <1>1, <2>2, BellCounts DEF HostRing, Published, Waiting
  <2>3. CASE HostWait
    BY <1>1, <2>3, BellCounts DEF HostWait, Published, Waiting
  <2>4. CASE HostTimeout
    BY <2>4 DEF HostTimeout, Published, Waiting
  <2> QED BY <2>1, <2>2, <2>3, <2>4
<1>3. /\ host' \in HostState /\ host'.pc = pc
      /\ host'.pos = host.pos /\ host'.n = host.n /\ host'.w = host.w /\ host'.k = host.k
  BY <1>1, <1>2, HostAtEffect
<1>4. bell \in Bells /\ BellInv
  BY <1>1 DEF ChannelInv, TypeOK, Bells
<1>5. bell' \in Bells /\ BellInv'
  BY <1>1, <1>2, <1>3, <1>4, BellCounts DEF BellInv, Counts
<1>6. TypeOK'
  BY <1>1, <1>3, <1>5 DEF TypeOK, rings, Bells
<1>7. host.w <= out_write_pos /\ (host.pc \in Waiting => host.k = 0)
  BY DEF ChannelInv, HostInv
<1> QED BY <1>1, <1>2, <1>3, <1>5, <1>6, <1>7, HostStepRests DEF Published, Filling

LEMMA HostLoadWrittenKeeps ==
  ASSUME ChannelInv, HostLoadWritten
  PROVE  ChannelInv'
<1>1. /\ TypeOK /\ BellInv /\ host.pc \in {"written", "wait_written", "last_written"}
      /\ UNCHANGED <<segment, plug, mon, bypass, sent>>
      /\ host' = [host EXCEPT !.w = out_write_pos, !.pc = NextLoad[host.pc]]
      /\ host.pc \in Waiting => host.k = 0
  BY DEF ChannelInv, HostInv, HostLoadWritten, NextLoad
<1>2. /\ NextLoad[host.pc] \in {"valid", "wait_valid", "last_valid"}
      /\ NextLoad[host.pc] # "valid" => host.pc \in Waiting
  BY <1>1 DEF NextLoad, Waiting
<1>3. /\ host' \in HostState /\ host'.pc \in {"valid", "wait_valid", "last_valid"}
      /\ host'.pos = host.pos /\ host'.n = host.n /\ host'.w = out_write_pos
      /\ host'.k = host.k /\ (host'.pc # "valid" => host.pc \in Waiting)
  <2>1. host \in HostState /\ out_write_pos \in Pos
    BY <1>1 DEF TypeOK
  <2> QED BY <1>1, <1>2, <2>1 DEF HostState
<1>4. TypeOK' /\ BellInv' /\ UNCHANGED rings
  BY <1>1, <1>3 DEF TypeOK, BellInv, segment, rings
<1>5. out_write_pos <= out_write_pos
  BY <1>1 DEF TypeOK, Pos
<1>6. /\ host.pc \notin Filling /\ host.pc # "idle"
      /\ host'.pc \in Published \cup {"idle"} /\ host'.pc # "read"
      /\ host'.pc \in Waiting => host'.k = 0
  BY <1>1, <1>3 DEF Published, Filling, Waiting
<1> QED BY <1>1, <1>3, <1>4, <1>5, <1>6, HostStepRests

\* wet_ready is right: what it accepts is in the ring.
LEMMA HostLoadValidKeeps ==
  ASSUME ChannelInv, HostLoadValid
  PROVE  ChannelInv'
<1>1. /\ TypeOK /\ BellInv /\ host.pc \in {"valid", "wait_valid", "last_valid"}
      /\ UNCHANGED <<segment, plug, mon, bypass, sent>>
      /\ host.w <= out_write_pos /\ Latency + host.n <= host.pos /\ host.n >= 1
      /\ host.pos = in_write_pos /\ plug.read_pos = out_write_pos
      /\ host.pc # "valid" => host.k = 0
  BY DEF ChannelInv, HostLoadValid, HostInv, PlugInv, Published, Waiting
<1>2. /\ host' \in HostState /\ host'.pos = host.pos /\ host'.n = host.n /\ host'.w = host.w
      /\ host'.pc \in {"read", "sample", "missed", "last_written", "announce"}
      /\ host'.pc = "read" => WetReady(host.w, out_valid_from)
      /\ host'.k = 0
  <2>1. host \in HostState /\ 0 \in 0..MaxBlock
    BY <1>1, Sizes DEF TypeOK
  <2>2. CASE host.pc = "valid"
    <3>1. PICK pc \in {"read", "sample", "missed"} :
            /\ host' = [host EXCEPT !.k = 0, !.pc = pc]
            /\ pc = "read" => WetReady(host.w, out_valid_from)
      BY <2>2 DEF HostLoadValid
    <3> QED BY <2>1, <3>1 DEF HostState
  <2>3. CASE host.pc = "wait_valid"
    <3>1. PICK pc \in {"last_written", "announce"} : HostAt(pc)
      BY <2>3 DEF HostLoadValid
    <3> QED BY <1>1, <2>3, <3>1, HostAtEffect DEF Published
  <2>4. CASE host.pc = "last_valid"
    <3>1. PICK pc \in {"read", "missed"} :
            HostAt(pc) /\ (pc = "read" => WetReady(host.w, out_valid_from))
      BY <2>4 DEF HostLoadValid
    <3> QED BY <1>1, <2>4, <3>1, HostAtEffect DEF Published
  <2> QED BY <1>1, <2>2, <2>3, <2>4
<1>3. TypeOK' /\ BellInv' /\ UNCHANGED rings
  BY <1>1, <1>2 DEF TypeOK, BellInv, segment, rings
<1>4. /\ host.pos \in Nat /\ host.n \in 1..MaxBlock /\ host.w \in Nat
      /\ out_write_pos \in Nat /\ out_valid_from \in Nat
  BY <1>1, Sizes DEF TypeOK, HostState, Pos
<1>5. From' = From /\ To' = To /\ From \in Nat /\ To = host.pos - Latency
      /\ in_write_pos - RingCapacity <= From
  BY <1>1, <1>2, <1>4, Sizes DEF From, To
<1>6. host'.pc = "read" => ReadInv'
  <2> SUFFICES ASSUME WetReady(host.w, out_valid_from) PROVE ReadInv'
    BY <1>2
  <2>1. out_valid_from <= From /\ To <= out_write_pos
    BY <1>1, <1>4, <1>5 DEF WetReady
  <2>2. out_write_pos <= Computed /\ Computed \in Nat
    <3>1. plug \in PlugState
      BY <1>1 DEF TypeOK
    <3>2. plug.k \in Nat
      BY <3>1, Sizes DEF PlugState
    <3>3. plug.read_pos = out_write_pos
      BY <1>1
    <3> QED BY ONLY <1>4, <3>2, <3>3 DEF Computed
  <2>3. ASSUME NEW p \in Nat, From <= p, p < To
        PROVE  out[Slot(p)] = p
    <3>1. From \in Int /\ To \in Int /\ in_write_pos - RingCapacity \in Int
      BY <1>1, <1>4, <1>5, Sizes
    <3>2. out_valid_from <= p
      BY ONLY <1>4, <2>1, <2>3, <3>1
    <3>3. in_write_pos - RingCapacity <= p
      <4> DEFINE old == in_write_pos - RingCapacity
      <4>1. old \in Int /\ old <= From
        BY ONLY <1>5, <3>1
      <4> HIDE DEF old
      <4>2. old <= p
        BY ONLY <2>3, <3>1, <4>1
      <4> QED BY <4>2 DEF old
    <3>4. p < Computed
      BY ONLY <1>4, <2>1, <2>2, <2>3, <3>1
    <3> QED BY ONLY ChannelInv, <2>3, <3>2, <3>3, <3>4 DEF ChannelInv, OutInv
  <2> QED BY <1>3, <1>5, <2>1, <2>3 DEF ReadInv, rings
<1>7. /\ host.pc \notin Filling /\ host.pc # "idle" /\ host'.pc \in Published \cup {"idle"}
      /\ host'.k < host'.n
  BY <1>1, <1>2, <1>4 DEF Published, Filling
<1> QED BY <1>1, <1>2, <1>3, <1>6, <1>7, HostStepRests

LEMMA HostReadKeeps ==
  ASSUME ChannelInv, HostRead
  PROVE  ChannelInv'
<1>1. /\ TypeOK /\ BellInv /\ host.pc = "read" /\ UNCHANGED <<segment, plug, mon, bypass, sent>>
      /\ host.k < host.n /\ host.w <= out_write_pos /\ ReadInv
      /\ \/ host.k + 1 < host.n /\ host' = [host EXCEPT !.k = @ + 1]
         \/ host' = HostIdle(host.pos, 0)
  BY DEF ChannelInv, HostRead, HostInv
<1>2. host \in HostState /\ host.k \in Nat /\ host.n \in 0..MaxBlock
  BY <1>1, Sizes DEF TypeOK, HostState
<1>3. /\ host' \in HostState /\ host'.pos = host.pos
      /\ \/ /\ host'.pc = "read" /\ host'.n = host.n /\ host'.w = host.w
            /\ host'.k < host'.n
         \/ host'.pc = "idle" /\ host'.w = 0
  <2>1. CASE host.k + 1 < host.n /\ host' = [host EXCEPT !.k = @ + 1]
    <3>1. host.k + 1 \in 0..MaxBlock
      BY <1>2, <2>1, Sizes
    <3> QED BY <1>1, <1>2, <2>1, <3>1 DEF HostState
  <2>2. CASE host' = HostIdle(host.pos, 0)
    BY <1>1, <2>2, HostIdleEffect, Sizes
  <2> QED BY <1>1, <2>1, <2>2
<1>4. TypeOK' /\ BellInv' /\ UNCHANGED rings
  BY <1>1, <1>3 DEF TypeOK, BellInv, segment, rings
<1>5. host'.pc = "read" => ReadInv'
  BY <1>1, <1>3, <1>4 DEF ReadInv, From, To, rings
<1>6. 0 <= out_write_pos
  BY <1>1 DEF TypeOK, Pos
<1>7. /\ host.pc \notin Filling /\ host.pc # "idle" /\ host'.pc \in Published \cup {"idle"}
      /\ host'.pc \notin Waiting
  BY <1>1, <1>3 DEF Published, Filling, Waiting
<1> QED BY <1>1, <1>3, <1>4, <1>5, <1>6, <1>7, HostStepRests

LEMMA HostDryKeeps ==
  ASSUME ChannelInv, HostDry
  PROVE  ChannelInv'
<1>1. /\ TypeOK /\ BellInv /\ host.pc \in {"missed", "bypassed"}
      /\ UNCHANGED <<segment, plug, mon, bypass, sent>>
  BY DEF ChannelInv, HostDry
<1>2. PICK misses \in 0..StallAfter : host' = HostIdle(host.pos, misses)
  <2>1. host.misses \in 0..StallAfter
    BY <1>1 DEF TypeOK, HostState
  <2>2. host.misses < StallAfter => host.misses + 1 \in 0..StallAfter
    BY <2>1, Sizes
  <2> QED BY <2>1, <2>2 DEF HostDry
<1>3. host' \in HostState /\ host'.pos = host.pos /\ host'.pc = "idle" /\ host'.w = 0
  BY <1>1, <1>2, HostIdleEffect
<1>4. TypeOK' /\ BellInv' /\ UNCHANGED rings
  BY <1>1, <1>3 DEF TypeOK, BellInv, segment, rings
<1>5. 0 <= out_write_pos
  BY <1>1 DEF TypeOK, Pos
<1>6. host.pc \notin Filling /\ host.pc # "idle" /\ "idle" \notin Waiting
  BY <1>1 DEF Filling, Waiting
<1> QED BY <1>1, <1>3, <1>4, <1>5, <1>6, HostStepRests

-----------------------------------------------------------------------------
(* The plugin's audio thread *)

\* Where it neither reads a chunk nor stores one, nor is in the middle of a skip.
Quiet == PlugPc \ (Loading \cup Whole \cup {"skipped"})

LEMMA PlugQuietStep ==
  ASSUME ChannelInv, TypeOK', BellInv', UNCHANGED rings, host' = host,
         plug'.pc \in Quiet, plug'.pc = "dead" \/ plug.pc \notin {"dead", "skipped"},
         plug'.read_pos = plug.read_pos, plug'.w = plug.w \/ plug'.w = in_write_pos
  PROVE  ChannelInv'
<1>1. plug.w \in Nat /\ in_write_pos \in Nat /\ out_valid_from \in Nat /\ plug.read_pos \in Nat
  BY DEF ChannelInv, TypeOK, PlugState, Pos
<1>2. PlugInv'
  BY <1>1 DEF ChannelInv, PlugInv, Quiet, Loading, Whole, rings
<1>3. TornInv'
  BY DEF TornInv, Quiet
<1> QED BY <1>2, <1>3, PlugStepRests DEF Quiet, Whole

\* The plugin at another point.
LEMMA PlugAtEffect ==
  ASSUME TypeOK, NEW pc \in PlugPc, PlugAt(pc)
  PROVE  /\ plug' \in PlugState /\ plug'.pc = pc
         /\ plug' = [plug EXCEPT !.pc = pc]
         /\ plug'.read_pos = plug.read_pos /\ plug'.w = plug.w /\ plug'.k = plug.k
         /\ plug'.end = plug.end /\ plug'.torn = plug.torn /\ plug'.events = plug.events
<1>1. plug \in PlugState
  BY DEF TypeOK
<1> QED BY <1>1 DEF PlugAt, PlugState

LEMMA PlugRingsEffect ==
  ASSUME TypeOK, NEW next \in {"activating", "next", "gone"}, PlugRings(next)
  PROVE  /\ plug' \in PlugState /\ plug'.pc = "ring"
         /\ plug'.read_pos = plug.read_pos /\ plug'.w = plug.w /\ plug'.events = plug.events
<1>1. plug \in PlugState
  BY DEF TypeOK
<1>2. "ring" \in PlugPc
  BY DEF PlugPc
<1> QED BY <1>1, <1>2 DEF PlugRings, PlugState

LEMMA PlugAttachKeeps ==
  ASSUME ChannelInv, PlugAttach
  PROVE  ChannelInv'
<1>1. /\ TypeOK /\ BellInv /\ plug.pc = "absent" /\ UNCHANGED rings /\ PlugRings("activating")
      /\ state' = "running" /\ heartbeat' = TRUE
      /\ UNCHANGED <<events, bell, host_command, host, mon, bypass, sent>>
  BY DEF ChannelInv, PlugAttach, rings
<1>2. /\ plug' \in PlugState /\ plug'.pc = "ring"
      /\ plug'.read_pos = plug.read_pos /\ plug'.w = plug.w
  BY <1>1, PlugRingsEffect
<1>3. TypeOK' /\ BellInv'
  BY <1>1, <1>2 DEF TypeOK, BellInv, rings
<1>4. plug'.pc \in Quiet
  BY <1>2 DEF Quiet, PlugPc, Loading, Whole
<1> QED BY <1>1, <1>2, <1>3, <1>4, PlugQuietStep

LEMMA PlugRingKeeps ==
  ASSUME ChannelInv, PlugRing
  PROVE  ChannelInv'
<1>1. /\ TypeOK /\ BellInv /\ plug.pc \in {"ring", "wake"} /\ UNCHANGED rings
      /\ UNCHANGED <<events, state, host_command, heartbeat, host, mon, bypass, sent>>
      /\ Rings("to_host") \/ Wakes("to_host")
  BY DEF ChannelInv, PlugRing, rings
<1>2. plug.ring \in {"activating", "next", "gone"}
  BY <1>1 DEF TypeOK, PlugState
<1>3. PICK pc \in {"wake", "activating", "next", "gone"} : PlugAt(pc)
  BY <1>2 DEF PlugRing
<1>4. pc \in Quiet /\ pc \in PlugPc
  BY DEF Quiet, PlugPc, Loading, Whole
<1>5. /\ plug' \in PlugState /\ plug'.pc = pc
      /\ plug'.read_pos = plug.read_pos /\ plug'.w = plug.w
  BY <1>1, <1>3, <1>4, PlugAtEffect
<1>6. Counts("to_host", bell["to_host"].waiters)
  BY <1>1, BellCounts
<1>7. TypeOK' /\ BellInv'
  BY <1>1, <1>5, <1>6 DEF TypeOK, BellInv, Counts, Bells, rings
<1> QED BY <1>1, <1>4, <1>5, <1>7, PlugQuietStep

LEMMA PlugActivateKeeps ==
  ASSUME ChannelInv, PlugActivate
  PROVE  ChannelInv'
<1>1. /\ TypeOK /\ BellInv /\ plug.pc = "activating" /\ UNCHANGED rings
      /\ UNCHANGED <<events, bell, host_command, heartbeat, host, mon, bypass, sent>>
      /\ state' = state \/ state' = "failed"
  BY DEF ChannelInv, PlugActivate, rings
<1>2. /\ plug' \in PlugState /\ plug'.pc \in {"service", "ring"}
      /\ plug'.read_pos = plug.read_pos /\ plug'.w = plug.w
  <2>1. CASE PlugAt("service")
    BY <1>1, <2>1, PlugAtEffect DEF PlugPc
  <2>2. CASE PlugRings("gone")
    BY <1>1, <2>2, PlugRingsEffect
  <2> QED BY <2>1, <2>2 DEF PlugActivate
<1>3. TypeOK' /\ BellInv'
  BY <1>1, <1>2 DEF TypeOK, BellInv, rings
<1>4. plug'.pc \in Quiet
  BY <1>2 DEF Quiet, PlugPc, Loading, Whole
<1> QED BY <1>1, <1>2, <1>3, <1>4, PlugQuietStep

LEMMA PlugServiceKeeps ==
  ASSUME ChannelInv, PlugService
  PROVE  ChannelInv'
<1>1. /\ TypeOK /\ BellInv /\ plug.pc \in {"service", "woken"} /\ UNCHANGED rings
      /\ UNCHANGED <<events, bell, host_command, host, mon, bypass, sent>>
      /\ heartbeat' = TRUE /\ (state' = state \/ state' = "stopped")
  BY DEF ChannelInv, PlugService, rings
<1>2. /\ plug' \in PlugState /\ plug'.pc \in {"ring", "loop", "sample", "service"}
      /\ plug'.read_pos = plug.read_pos /\ (plug'.w = plug.w \/ plug'.w = in_write_pos)
  <2>1. CASE PlugRings("gone")
    BY <1>1, <2>1, PlugRingsEffect
  <2>2. CASE ~PlugRings("gone")
    <3>1. PICK pc \in {"loop", "sample", "service"} :
            plug' = [plug EXCEPT !.w = in_write_pos, !.iter = 0, !.pc = pc]
      BY <2>2 DEF PlugService
    <3>2. plug \in PlugState /\ in_write_pos \in Pos /\ pc \in PlugPc /\ 0 \in 0..MaxChunks
      BY <1>1, Sizes DEF TypeOK, PlugPc
    <3> QED BY <3>1, <3>2 DEF PlugState
  <2> QED BY <2>1, <2>2
<1>3. TypeOK' /\ BellInv'
  BY <1>1, <1>2 DEF TypeOK, BellInv, rings
<1>4. plug'.pc \in Quiet
  BY <1>2 DEF Quiet, PlugPc, Loading, Whole
<1> QED BY <1>1, <1>2, <1>3, <1>4, PlugQuietStep

\* The wait for input, however it ends.
LEMMA PlugWaitKeeps ==
  ASSUME ChannelInv, PlugWait \/ PlugTimeout
  PROVE  ChannelInv'
<1>1. /\ TypeOK /\ BellInv /\ UNCHANGED rings
      /\ UNCHANGED <<events, state, host_command, heartbeat, host, mon, bypass, sent>>
  BY DEF ChannelInv, PlugWait, PlugTimeout, rings
<1>2. PICK pc \in {"sample", "check", "woken", "announce", "park", "parked"} : PlugAt(pc) /\
        /\ plug.pc \in {"sample", "check", "announce", "park", "parked"}
        /\ \/ plug.pc \notin {"park", "parked"} /\ pc \notin {"park", "parked"}
              /\ (bell' = bell \/ Counts("to_plugin", bell["to_plugin"].waiters))
           \/ plug.pc = "announce" /\ pc = "park" /\ Announces("to_plugin")
           \/ plug.pc = "park" /\ pc = "parked" /\ Parks("to_plugin")
           \/ plug.pc = "parked" /\ pc \notin {"park", "parked"} /\ Unannounces("to_plugin")
  <2>1. CASE PlugWait
    BY <1>1, <2>1, BellCounts DEF PlugWait
  <2>2. CASE PlugTimeout
    BY <2>2 DEF PlugTimeout
  <2> QED BY <2>1, <2>2
<1>3. pc \in Quiet /\ pc \in PlugPc
  BY DEF Quiet, PlugPc, Loading, Whole
<1>4. /\ plug' \in PlugState /\ plug'.pc = pc
      /\ plug'.read_pos = plug.read_pos /\ plug'.w = plug.w
  BY <1>1, <1>2, <1>3, PlugAtEffect
<1>5. bell \in Bells
  BY <1>1 DEF TypeOK, Bells
<1>6. bell' \in Bells /\ BellInv'
  BY <1>1, <1>2, <1>4, <1>5, BellCounts DEF BellInv, Counts
<1>7. TypeOK'
  BY <1>1, <1>4, <1>6 DEF TypeOK, Bells, rings
<1> QED BY <1>1, <1>2, <1>3, <1>4, <1>6, <1>7, PlugQuietStep

\* The process dies or the plugin's own code never returns.
LEMMA PlugStopsKeeps ==
  ASSUME ChannelInv, PlugCrash \/ PlugHang
  PROVE  ChannelInv'
<1>1. /\ TypeOK /\ BellInv /\ UNCHANGED rings /\ UNCHANGED <<segment, host, mon, bypass, sent>>
  BY DEF ChannelInv, PlugCrash, PlugHang, rings, segment
<1>2. /\ plug' \in PlugState
      /\ \/ plug'.pc = "dead"
         \/ plug.pc \in {"activating", "in_call"} /\ plug'.pc = "stuck"
      /\ plug'.read_pos = plug.read_pos /\ plug'.w = plug.w
  <2>1. CASE PlugAt("dead")
    BY <1>1, <2>1, PlugAtEffect DEF PlugPc
  <2>2. CASE PlugHang
    <3>1. plug \in PlugState /\ "stuck" \in PlugPc
      BY <1>1 DEF TypeOK, PlugPc
    <3> QED BY <2>2, <3>1 DEF PlugHang, PlugState
  <2> QED BY <2>1, <2>2 DEF PlugCrash
<1>3. TypeOK' /\ BellInv'
  BY <1>1, <1>2 DEF TypeOK, BellInv, segment
<1>4. plug'.pc \in Quiet
  BY <1>2 DEF Quiet, PlugPc, Loading, Whole
<1> QED BY <1>1, <1>2, <1>3, <1>4, PlugQuietStep

\* A chunk ends at most a block later, and at a reset before that.
LEMMA ChunkEndRange ==
  ASSUME TypeOK, plug.read_pos < plug.w
  PROVE  ChunkEnd(plug.read_pos) \in Pos
         /\ plug.read_pos < ChunkEnd(plug.read_pos)
         /\ ChunkEnd(plug.read_pos) <= plug.w
         /\ ChunkEnd(plug.read_pos) <= plug.read_pos + MaxBlock
<1> DEFINE start == plug.read_pos
           end == IF plug.w < start + MaxBlock THEN plug.w ELSE start + MaxBlock
<1>1. start \in Nat /\ plug.w \in Nat /\ plug.w <= MaxPos
  BY Sizes DEF TypeOK, PlugState, Pos
<1>2. end \in Nat /\ start < end /\ end <= plug.w /\ end <= start + MaxBlock
  BY <1>1, Sizes
<1> HIDE DEF end, start
<1> DEFINE resets == {i \in DOMAIN events : events[i].kind = "reset"
                                            /\ start < events[i].pos /\ events[i].pos < end}
<1>3. CASE resets = {}
  BY <1>1, <1>2, <1>3, Sizes DEF ChunkEnd, Barrier, start, end, Pos
<1>4. CASE resets # {}
  <2>1. resets \subseteq 1..Len(events) /\ Len(events) \in Nat
    BY DEF TypeOK
  <2>1a. \A i \in resets : start < events[i].pos /\ events[i].pos < end
    OBVIOUS
  <2>1b. resets \in SUBSET Nat
    BY <2>1
  <2>2. \E i \in resets : \A j \in resets : i <= j
    <3> HIDE DEF resets
    <3> QED BY <1>4, <2>1b, LeastNumber
  <2> DEFINE first == CHOOSE i \in resets : \A j \in resets : i <= j
  <2>3. first \in resets
    BY <2>2
  <2>4. ChunkEnd(start) = events[first].pos
    BY <1>4 DEF ChunkEnd, Barrier, end
  <2> HIDE DEF first
  <2>5. events[first].pos \in Pos /\ start < events[first].pos /\ events[first].pos < end
    <3> HIDE DEF resets
    <3>1. first \in 1..Len(events) /\ events \in Seq(Event)
      BY <2>1, <2>3 DEF TypeOK
    <3>2. events[first] \in Event
      BY <3>1
    <3> QED BY <2>1a, <2>3, <3>2 DEF Event
  <2> QED BY <1>1, <1>2, <2>4, <2>5, Sizes DEF Pos, start
<1> QED BY <1>3, <1>4

LEMMA PlugLoopKeeps ==
  ASSUME ChannelInv, PlugLoop
  PROVE  ChannelInv'
<1>1. /\ TypeOK /\ BellInv /\ PlugInv /\ plug.pc = "loop"
      /\ UNCHANGED <<segment, host, mon, bypass, sent>>
      /\ plug \in PlugState /\ plug.read_pos <= plug.w
  BY DEF ChannelInv, PlugLoop, TypeOK, PlugInv
<1>2. UNCHANGED rings
  BY <1>1 DEF rings, segment
<1>3. CASE PlugAt("service")
  <2>1. /\ plug' \in PlugState /\ plug'.pc = "service"
        /\ plug'.read_pos = plug.read_pos /\ plug'.w = plug.w
    BY <1>1, <1>3, PlugAtEffect DEF PlugPc
  <2>2. TypeOK' /\ BellInv' /\ plug'.pc \in Quiet
    BY <1>1, <2>1 DEF TypeOK, BellInv, segment, Quiet, PlugPc, Loading, Whole
  <2> QED BY <1>1, <1>2, <2>1, <2>2, PlugQuietStep
<1>4. ASSUME plug.w # plug.read_pos, plug.iter # MaxChunks
      PROVE  plug.iter + 1 \in 0..MaxChunks /\ plug.read_pos < plug.w
  BY <1>1, <1>4, Sizes DEF PlugState, Pos
<1>5. CASE /\ plug.w # plug.read_pos /\ plug.iter # MaxChunks
           /\ plug' = [plug EXCEPT !.pc = "skip", !.iter = @ + 1]
  <2>1. "skip" \in PlugPc /\ "skip" \in Quiet
    BY DEF PlugPc, Quiet, Loading, Whole
  <2>2. /\ plug' \in PlugState /\ plug'.pc = "skip"
        /\ plug'.read_pos = plug.read_pos /\ plug'.w = plug.w
    BY <1>1, <1>4, <1>5, <2>1 DEF PlugState
  <2>3. TypeOK' /\ BellInv'
    BY <1>1, <2>2 DEF TypeOK, BellInv, segment
  <2> QED BY <1>1, <1>2, <2>1, <2>2, <2>3, PlugQuietStep
<1>6. CASE /\ plug.w # plug.read_pos /\ plug.iter # MaxChunks
           /\ plug' = [plug EXCEPT !.pc = "load", !.iter = @ + 1, !.k = 0,
                                   !.torn = FALSE, !.end = ChunkEnd(plug.read_pos)]
  <2>1. "load" \in PlugPc /\ 0 \in 0..MaxBlock
    BY Sizes DEF PlugPc
  <2>2. ChunkEnd(plug.read_pos) \in Pos
    BY <1>1, <1>4, <1>6, ChunkEndRange
  <2>3. /\ plug' \in PlugState /\ plug'.pc = "load" /\ plug'.k = 0 /\ plug'.torn = FALSE
        /\ plug'.end = ChunkEnd(plug.read_pos)
        /\ plug'.read_pos = plug.read_pos /\ plug'.w = plug.w
    BY <1>1, <1>4, <1>6, <2>1, <2>2 DEF PlugState
  <2>4. TypeOK' /\ BellInv'
    BY <1>1, <2>3 DEF TypeOK, BellInv, segment
  <2>5. /\ plug.read_pos < plug'.end /\ plug'.end <= plug.w
        /\ plug'.end <= plug.read_pos + MaxBlock /\ plug.read_pos + 0 = plug.read_pos
    BY <1>1, <1>4, <1>6, <2>3, ChunkEndRange, Sizes DEF PlugState, Pos
  <2>6. PlugInv' /\ TornInv'
    BY <1>1, <1>2, <2>3, <2>5 DEF PlugInv, TornInv, Loading, Whole, rings
  <2> QED BY <1>1, <1>2, <2>3, <2>4, <2>6, PlugStepRests
<1> QED BY <1>3, <1>5, <1>6 DEF PlugLoop

\* What is torn was overwritten by a host that is more than a window ahead.
LEMMA PlugLoadKeeps ==
  ASSUME ChannelInv, PlugLoad
  PROVE  ChannelInv'
<1> DEFINE p == plug.read_pos + plug.k
<1>1. /\ TypeOK /\ BellInv /\ PlugInv /\ TornInv /\ HostInv /\ InInv /\ plug.pc = "load"
      /\ UNCHANGED <<segment, host, mon, bypass, sent>>
      /\ plug' = [plug EXCEPT !.k = @ + 1, !.torn = @ \/ in[Slot(p)] # p,
                              !.pc = IF p + 1 = plug.end THEN "recheck" ELSE "load"]
  BY DEF ChannelInv, PlugLoad
<1>2. /\ plug.read_pos \in Nat /\ plug.k \in Nat /\ plug.w \in Nat /\ plug.end \in Nat
      /\ in_write_pos \in Nat /\ plug.torn \in BOOLEAN
      /\ host.pos \in Nat /\ host.k \in Nat /\ host.n \in 0..MaxBlock
  BY <1>1, Sizes DEF TypeOK, PlugState, HostState, Pos
<1>3. /\ p < plug.end /\ plug.end <= plug.w /\ plug.w <= in_write_pos
      /\ plug.end <= plug.read_pos + MaxBlock
  BY <1>1 DEF PlugInv, Loading
<1>4. p \in Nat /\ plug.k + 1 \in 0..MaxBlock
  BY <1>2, <1>3, Sizes
<1>5. Stored <= in_write_pos + MaxBlock /\ Stored \in Nat /\ p < Stored
  BY <1>1, <1>2, <1>3, <1>4, Sizes DEF Stored, HostInv, Filling
<1> HIDE DEF p
<1>6. in[Slot(p)] # p => in_write_pos - plug.read_pos > Window
  <2>1. in[Slot(p)] # p => p < Stored - RingCapacity
    BY <1>1, <1>4, <1>5, Sizes DEF InInv
  <2>2. plug.read_pos <= p
    BY <1>2 DEF p
  <2> QED BY <1>2, <1>4, <1>5, <2>1, <2>2, Sizes DEF Window
<1>7. PICK torn \in BOOLEAN :
        /\ plug' = [plug EXCEPT !.k = plug.k + 1, !.torn = torn,
                                !.pc = IF p + 1 = plug.end THEN "recheck" ELSE "load"]
        /\ torn => plug.torn \/ in[Slot(p)] # p
  <2>1. (plug.torn \/ in[Slot(p)] # p) \in BOOLEAN
    OBVIOUS
  <2> QED BY <1>1, <2>1
<1>8. /\ plug' \in PlugState /\ plug'.k = plug.k + 1 /\ plug'.torn = torn
      /\ plug'.pc = (IF p + 1 = plug.end THEN "recheck" ELSE "load")
      /\ plug'.read_pos = plug.read_pos /\ plug'.w = plug.w /\ plug'.end = plug.end
  <2>1. plug \in PlugState /\ {"load", "recheck"} \subseteq PlugPc
    BY <1>1 DEF TypeOK, PlugPc
  <2> QED BY <1>4, <1>7, <2>1 DEF PlugState
<1>9. TypeOK' /\ BellInv' /\ UNCHANGED rings
  BY <1>1, <1>8 DEF TypeOK, BellInv, segment, rings
<1>10. PlugInv'
  BY <1>1, <1>2, <1>3, <1>8, <1>9 DEF PlugInv, Loading, Whole, rings, p
<1>11. TornInv'
  BY <1>1, <1>6, <1>7, <1>8, <1>9 DEF TornInv, Loading, Whole, Window, rings
<1> QED BY <1>1, <1>8, <1>9, <1>10, <1>11, PlugStepRests

\* The plugin's events are a prefix of the ring.
LEMMA DueIsPrefix ==
  ASSUME TypeOK
  PROVE  /\ Cardinality(Due) \in 0..Len(events) /\ Due = 1..Cardinality(Due)
         /\ Due \subseteq DOMAIN events
<1>1. Len(events) \in Nat /\ DOMAIN events = 1..Len(events)
  BY DEF TypeOK
<1>2. Due \subseteq 1..Len(events)
  BY <1>1 DEF Due
<1>3. ASSUME NEW i \in Due
      PROVE  1..i \subseteq Due
  <2>1. i \in 1..Len(events) /\ \A j \in 1..i : events[j].pos < plug.end
    BY <1>1 DEF Due
  <2>2. ASSUME NEW j \in 1..i
        PROVE  j \in Due
    <3>1. j \in 1..Len(events) /\ 1..j \subseteq 1..i
      BY <1>1, <2>1
    <3> QED BY <1>1, <2>1, <3>1 DEF Due
  <2> QED BY <2>2
<1> QED BY <1>1, <1>2, <1>3, PrefixIsInterval

LEMMA PlugRecheckKeeps ==
  ASSUME ChannelInv, PlugRecheck
  PROVE  ChannelInv'
<1>1. /\ TypeOK /\ BellInv /\ PlugInv /\ TornInv /\ plug.pc = "recheck" /\ UNCHANGED rings
      /\ UNCHANGED <<bell, state, host_command, heartbeat, host, mon, bypass, sent>>
      /\ plug \in PlugState /\ in_write_pos \in Pos
  BY DEF ChannelInv, PlugRecheck, TypeOK, rings
<1>2. CASE /\ Overrun(in_write_pos) /\ UNCHANGED events
           /\ plug' = [plug EXCEPT !.w = in_write_pos, !.pc = "skip"]
  <2>1. "skip" \in PlugPc /\ "skip" \in Quiet
    BY DEF PlugPc, Quiet, Loading, Whole
  <2>2. /\ plug' \in PlugState /\ plug'.pc = "skip"
        /\ plug'.read_pos = plug.read_pos /\ plug'.w = in_write_pos
    BY <1>1, <1>2, <2>1 DEF PlugState
  <2>3. TypeOK' /\ BellInv'
    BY <1>1, <1>2, <2>2 DEF TypeOK, BellInv, rings
  <2> QED BY <1>1, <2>1, <2>2, <2>3, PlugQuietStep
<1>3. CASE /\ ~Overrun(in_write_pos)
           /\ plug' = [plug EXCEPT !.pc = "in_call", !.k = 0,
                                   !.events = {events[i] : i \in Due}]
           /\ events' = [i \in 1..(Len(events) - Cardinality(Due)) |->
                           events[i + Cardinality(Due)]]
  <2>1. "in_call" \in PlugPc /\ 0 \in 0..MaxBlock
    BY Sizes DEF PlugPc
  <2>2. {events[i] : i \in Due} \in SUBSET Event
    BY <1>1, DueIsPrefix DEF TypeOK
  <2>3. /\ plug' \in PlugState /\ plug'.pc = "in_call" /\ plug'.torn = plug.torn /\ plug'.k = 0
        /\ plug'.read_pos = plug.read_pos /\ plug'.w = plug.w /\ plug'.end = plug.end
    BY <1>1, <1>3, <2>1, <2>2 DEF PlugState
  <2>4. events' \in Seq(Event) /\ Len(events') <= EventCapacity
    <3> DEFINE d == Cardinality(Due)
    <3>1. events \in Seq(Event) /\ Len(events) <= EventCapacity /\ d \in 0..Len(events)
      BY <1>1, DueIsPrefix DEF TypeOK
    <3> HIDE DEF d
    <3>2. events' = [i \in 1..(Len(events) - d) |-> events[i + d]]
      BY <1>3 DEF d
    <3>3. Len(events) - d \in Nat /\ \A i \in 1..(Len(events) - d) : events[i + d] \in Event
      BY <3>1
    <3>4. events' \in Seq(Event) /\ Len(events') = Len(events) - d
      BY <3>2, <3>3
    <3> QED BY <3>1, <3>4, Sizes
  <2>5. TypeOK' /\ BellInv'
    BY <1>1, <2>3, <2>4 DEF TypeOK, BellInv, rings
  <2>6. ~plug.torn
    BY <1>1, <1>3 DEF TornInv, Overrun, Loading
  <2>7. PlugInv' /\ TornInv'
    BY <1>1, <2>3, <2>6 DEF PlugInv, TornInv, Loading, Whole, rings
  <2> QED BY <1>1, <2>3, <2>5, <2>7, PlugStepRests
<1> QED BY <1>2, <1>3 DEF PlugRecheck

LEMMA PlugProcessKeeps ==
  ASSUME ChannelInv, PlugProcess
  PROVE  ChannelInv'
<1>1. /\ TypeOK /\ BellInv /\ PlugInv /\ TornInv /\ plug.pc = "in_call" /\ UNCHANGED rings
      /\ UNCHANGED <<segment, host, mon, bypass, sent>> /\ plug.k = 0
      /\ plug' = [plug EXCEPT !.pc = "store", !.events = {}]
  BY DEF ChannelInv, PlugProcess, PlugInv, segment, rings
<1>2. /\ plug' \in PlugState /\ plug'.pc = "store" /\ plug'.torn = plug.torn /\ plug'.k = 0
      /\ plug'.read_pos = plug.read_pos /\ plug'.w = plug.w /\ plug'.end = plug.end
  <2>1. plug \in PlugState /\ "store" \in PlugPc /\ {} \in SUBSET Event
    BY <1>1 DEF TypeOK, PlugPc
  <2> QED BY <1>1, <2>1 DEF PlugState
<1>3. TypeOK' /\ BellInv'
  BY <1>1, <1>2 DEF TypeOK, BellInv, segment
<1>4. plug.read_pos \in Nat
  BY <1>1 DEF TypeOK, PlugState, Pos
<1>5. PlugInv' /\ TornInv'
  BY <1>1, <1>2, <1>4 DEF PlugInv, TornInv, Loading, Whole, rings
<1> QED BY <1>1, <1>2, <1>3, <1>5, PlugStepRests

\* The slot that is overwritten held a position that is a whole ring older: it is
\* none of those the host may be reading, which are published.
LEMMA PlugStoreKeeps ==
  ASSUME ChannelInv, PlugStore
  PROVE  ChannelInv'
<1> DEFINE q == plug.read_pos + plug.k
<1>1. /\ TypeOK /\ HostInv /\ BellInv /\ PlugInv /\ TornInv /\ OutInv /\ ReadInv
      /\ plug.pc = "store"
      /\ out' = [out EXCEPT ![Slot(q)] = IF plug.torn THEN NoSample ELSE q]
      /\ plug' = [plug EXCEPT !.k = @ + 1,
                              !.pc = IF q + 1 = plug.end THEN "publish" ELSE "store"]
      /\ UNCHANGED <<in, in_write_pos, out_write_pos, out_valid_from, events, bell, state,
                     host_command, heartbeat, host, mon, bypass, sent>>
  BY DEF ChannelInv, PlugStore
<1>2. /\ plug.read_pos \in Nat /\ plug.k \in Nat /\ plug.w \in Nat /\ plug.end \in Nat
      /\ in_write_pos \in Nat /\ out_valid_from \in Nat /\ out_write_pos \in Nat
      /\ in_write_pos <= MaxPos
  BY <1>1, Sizes DEF TypeOK, PlugState, Pos
<1>3. /\ q < plug.end /\ plug.end <= plug.w /\ plug.w <= in_write_pos
      /\ plug.end <= plug.read_pos + MaxBlock
      /\ plug.read_pos = out_write_pos /\ ~plug.torn
  BY <1>1 DEF PlugInv, TornInv, Whole
<1>4. /\ q \in Nat /\ q \in Pos /\ Slot(q) \in 0..(RingCapacity - 1)
      /\ plug.k + 1 \in 0..MaxBlock
  BY <1>2, <1>3, Sizes, SlotType DEF Pos
<1>5. /\ plug' \in PlugState /\ plug'.k = plug.k + 1 /\ plug'.torn = plug.torn
      /\ plug'.pc = (IF q + 1 = plug.end THEN "publish" ELSE "store")
      /\ plug'.read_pos = plug.read_pos /\ plug'.w = plug.w /\ plug'.end = plug.end
  <2>1. plug \in PlugState /\ {"publish", "store"} \subseteq PlugPc
    BY <1>1 DEF TypeOK, PlugPc
  <2> QED BY <1>1, <1>4, <2>1 DEF PlugState
<1>6. Computed = q /\ Computed' = q + 1
  BY <1>1, <1>2, <1>5 DEF Computed
<1>7. PlugInv'
  BY <1>1, <1>2, <1>3, <1>5 DEF PlugInv, Loading, Whole
<1> HIDE DEF q
<1>8. /\ out' \in [0..(RingCapacity - 1) -> Pos \cup {NoSample}]
      /\ out'[Slot(q)] = q
      /\ \A i \in 0..(RingCapacity - 1) : i # Slot(q) => out'[i] = out[i]
  BY <1>1, <1>3, <1>4 DEF TypeOK
<1>9. TypeOK' /\ HostInv' /\ BellInv' /\ TornInv' /\ InInv'
  BY <1>1, <1>3, <1>5, <1>8
     DEF ChannelInv, TypeOK, HostInv, BellInv, TornInv, InInv, Stored, Loading, Whole
<1>10. ASSUME NEW p \in Nat, p < q, in_write_pos - RingCapacity <= p
       PROVE  out'[Slot(p)] = out[Slot(p)]
  <2>1. q < p + RingCapacity
    BY <1>2, <1>3, <1>4, <1>10, Sizes
  <2>2. Slot(p) # Slot(q) /\ Slot(p) \in 0..(RingCapacity - 1)
    BY <1>4, <1>10, <2>1, SlotsApart, SlotType
  <2> QED BY <1>8, <2>2
<1>11. OutInv'
  <2>1. ASSUME NEW p \in Nat, out_valid_from <= p, in_write_pos - RingCapacity <= p, p < q + 1
        PROVE  out'[Slot(p)] = p
    <3>1. CASE p = q
      BY <1>8, <3>1
    <3>2. CASE p # q
      <4>1. p < q
        BY <1>4, <2>1, <3>2
      <4>2. out[Slot(p)] = p
        BY <1>1, <1>6, <2>1, <4>1 DEF OutInv
      <4> QED BY <1>10, <2>1, <4>1, <4>2
    <3> QED BY <3>1, <3>2
  <2> QED BY <1>1, <1>6, <2>1 DEF OutInv
<1>12. ReadInv'
  <2>1. ASSUME host.pc = "read"
        PROVE  /\ To <= out_write_pos
               /\ \A p \in Nat : From <= p /\ p < To => out'[Slot(p)] = p
    <3>1. /\ To <= out_write_pos
          /\ \A p \in Nat : From <= p /\ p < To => out[Slot(p)] = p
      BY <1>1, <2>1 DEF ReadInv
    <3>2. /\ host.pos = in_write_pos /\ host.n \in 0..MaxBlock /\ host.pos \in Nat
      BY <1>1 DEF HostInv, TypeOK, HostState, Pos
    <3>3. ASSUME NEW p \in Nat, From <= p, p < To
          PROVE  out'[Slot(p)] = p
      <4>1. in_write_pos - RingCapacity <= p
        BY <1>2, <3>2, <3>3, Sizes DEF From
      <4>2. p < q
        BY <1>2, <1>3, <1>4, <3>1, <3>2, <3>3, Sizes DEF q, To, From
      <4> QED BY <1>10, <3>1, <3>3, <4>1, <4>2
    <3> QED BY <3>1, <3>3
  <2> QED BY <1>1, <2>1 DEF ReadInv, From, To
<1> QED BY <1>7, <1>9, <1>11, <1>12 DEF ChannelInv

LEMMA PlugPublishKeeps ==
  ASSUME ChannelInv, PlugPublish
  PROVE  ChannelInv'
<1>1. /\ TypeOK /\ HostInv /\ BellInv /\ PlugInv /\ OutInv /\ ReadInv /\ InInv
      /\ plug.pc = "publish" /\ out_write_pos' = plug.end /\ heartbeat' = TRUE
      /\ plug' = [plug EXCEPT !.read_pos = plug.end, !.pc = "ring", !.ring = "next"]
      /\ UNCHANGED <<in, out, in_write_pos, out_valid_from, events, bell, state,
                     host_command, host, mon, bypass, sent>>
  BY DEF ChannelInv, PlugPublish
<1>2. /\ plug.read_pos \in Nat /\ plug.k \in Nat /\ plug.w \in Nat /\ plug.end \in Nat
      /\ in_write_pos \in Nat /\ out_valid_from \in Nat /\ out_write_pos \in Nat
      /\ in_write_pos <= MaxPos /\ plug.end \in Pos
  BY <1>1, Sizes DEF TypeOK, PlugState, Pos
<1>3. /\ plug.read_pos < plug.end /\ plug.end <= plug.w /\ plug.w <= in_write_pos
      /\ plug.read_pos = out_write_pos /\ plug.read_pos + plug.k = plug.end
      /\ out_valid_from <= plug.read_pos
  BY <1>1 DEF PlugInv, Whole
<1>4. /\ plug' \in PlugState /\ plug'.pc = "ring" /\ plug'.read_pos = plug.end
      /\ plug'.w = plug.w
  <2>1. plug \in PlugState /\ "ring" \in PlugPc
    BY <1>1 DEF TypeOK, PlugPc
  <2> QED BY <1>1, <1>2, <2>1 DEF PlugState
<1>5. TypeOK' /\ BellInv'
  BY <1>1, <1>2, <1>3, <1>4 DEF TypeOK, BellInv
<1>6. HostInv'
  <2>1. host.w \in Nat /\ host.w <= out_write_pos
    BY <1>1 DEF HostInv, TypeOK, HostState, Pos
  <2>2. host'.w <= out_write_pos'
    BY <1>1, <1>2, <1>3, <2>1
  <2> QED BY <1>1, <2>2 DEF HostInv
<1>7. PlugInv' /\ TornInv'
  <2>1. out_valid_from' <= plug'.w /\ out_valid_from' <= plug'.read_pos
    BY <1>1, <1>2, <1>3, <1>4
  <2>2. PlugInv'
    BY <1>1, <1>2, <1>3, <1>4, <2>1 DEF PlugInv, Loading, Whole
  <2>3. TornInv'
    BY <1>4 DEF TornInv, Loading, Whole
  <2> QED BY <2>2, <2>3
<1>8. Computed = plug.end /\ Computed' = plug.end
  BY <1>1, <1>2, <1>3, <1>4 DEF Computed
<1>9. OutInv' /\ InInv'
  BY <1>1, <1>8 DEF OutInv, InInv, Stored
<1>10. ReadInv'
  <2>1. host.pos \in Int /\ host.n \in Int
    BY <1>1, Sizes DEF TypeOK, HostState, Pos
  <2>2. To \in Int
    BY <2>1, Sizes DEF To, From
  <2>3. host'.pc = "read" => To <= out_write_pos'
    BY <1>1, <1>2, <1>3, <2>2 DEF ReadInv
  <2>4. To' = To /\ From' = From
    BY <1>1 DEF To, From
  <2> QED BY <1>1, <2>3, <2>4 DEF ReadInv
<1> QED BY <1>5, <1>6, <1>7, <1>9, <1>10 DEF ChannelInv

LEMMA PlugNextKeeps ==
  ASSUME ChannelInv, PlugNext
  PROVE  ChannelInv'
<1>1. /\ TypeOK /\ BellInv /\ plug.pc = "next" /\ UNCHANGED rings
      /\ UNCHANGED <<segment, host, mon, bypass, sent>>
      /\ plug' = [plug EXCEPT !.w = in_write_pos, !.pc = "loop"]
  BY DEF ChannelInv, PlugNext, segment, rings
<1>2. /\ plug' \in PlugState /\ plug'.pc = "loop"
      /\ plug'.read_pos = plug.read_pos /\ plug'.w = in_write_pos
  <2>1. plug \in PlugState /\ "loop" \in PlugPc /\ in_write_pos \in Pos
    BY <1>1 DEF TypeOK, PlugPc
  <2> QED BY <1>1, <2>1 DEF PlugState
<1>3. TypeOK' /\ BellInv' /\ plug'.pc \in Quiet
  BY <1>1, <1>2 DEF TypeOK, BellInv, segment, Quiet, PlugPc, Loading, Whole
<1> QED BY <1>1, <1>2, <1>3, PlugQuietStep

\* resync: first nothing before the new position is valid, then the plugin is there.
LEMMA PlugResyncKeeps ==
  ASSUME ChannelInv, PlugResync
  PROVE  ChannelInv'
<1>1. /\ TypeOK /\ HostInv /\ BellInv /\ PlugInv /\ TornInv /\ OutInv /\ ReadInv /\ InInv
      /\ plug.pc \in {"skip", "skipped"}
      /\ UNCHANGED <<in, out, in_write_pos, events, bell, state, host_command, heartbeat,
                     host, mon, bypass, sent>>
  BY DEF ChannelInv, PlugResync
<1>2. /\ plug \in PlugState /\ plug.read_pos \in Nat /\ plug.w \in Pos /\ plug.w \in Nat
      /\ in_write_pos \in Nat /\ out_valid_from \in Nat /\ out_write_pos \in Nat
      /\ plug.read_pos = out_write_pos /\ plug.read_pos <= plug.w /\ plug.w <= in_write_pos
      /\ out_valid_from <= plug.w
  BY <1>1, Sizes DEF TypeOK, PlugInv, PlugState, Pos
<1>3. InInv'
  BY <1>1 DEF InInv, Stored
<1>4. CASE /\ plug.pc = "skip" /\ out_valid_from' = plug.w /\ PlugAt("skipped")
           /\ UNCHANGED out_write_pos
  <2>1. /\ plug' \in PlugState /\ plug'.pc = "skipped"
        /\ plug'.read_pos = plug.read_pos /\ plug'.w = plug.w
    BY <1>1, <1>4, PlugAtEffect DEF PlugPc
  <2>2. TypeOK' /\ BellInv' /\ HostInv' /\ ReadInv'
    BY <1>1, <1>2, <1>4, <2>1 DEF TypeOK, BellInv, HostInv, ReadInv, To, From
  <2>3. PlugInv' /\ TornInv'
    <3>1. PlugInv'
      BY <1>1, <1>2, <1>4, <2>1 DEF PlugInv, Loading, Whole
    <3>2. TornInv'
      BY <2>1 DEF TornInv, Loading, Whole
    <3> QED BY <3>1, <3>2
  <2>4. Computed' = plug.read_pos
    BY <1>2, <2>1 DEF Computed
  <2>5. OutInv'
    BY <1>2, <1>4, <2>4 DEF OutInv
  <2> QED BY <1>3, <2>2, <2>3, <2>5 DEF ChannelInv
<1>5. CASE /\ plug.pc = "skipped" /\ out_write_pos' = plug.w /\ UNCHANGED out_valid_from
           /\ plug' = [plug EXCEPT !.read_pos = plug.w, !.pc = "loop"]
  <2>1. /\ plug' \in PlugState /\ plug'.pc = "loop"
        /\ plug'.read_pos = plug.w /\ plug'.w = plug.w
    <3>1. "loop" \in PlugPc
      BY DEF PlugPc
    <3> QED BY <1>2, <1>5, <3>1 DEF PlugState
  <2>2. TypeOK' /\ BellInv'
    BY <1>1, <1>2, <1>5, <2>1 DEF TypeOK, BellInv
  <2>3. /\ host.w \in Nat /\ host.w <= out_write_pos /\ host.pos \in Int /\ host.n \in Int
    BY <1>1, Sizes DEF HostInv, TypeOK, HostState, Pos
  <2>4. host'.w <= out_write_pos'
    BY <1>1, <1>2, <1>5, <2>3
  <2>5. HostInv'
    BY <1>1, <2>4 DEF HostInv
  <2>6. To \in Int /\ To' = To /\ From' = From
    BY <1>1, <2>3, Sizes DEF To, From
  <2>7. host'.pc = "read" => To <= out_write_pos'
    BY <1>1, <1>2, <1>5, <2>6 DEF ReadInv
  <2>8. ReadInv'
    BY <1>1, <2>6, <2>7 DEF ReadInv
  <2>9. PlugInv' /\ TornInv'
    <3>1. out_valid_from' = plug.w
      BY <1>1, <1>5 DEF PlugInv
    <3>2. PlugInv'
      BY <1>1, <1>2, <1>5, <2>1, <3>1 DEF PlugInv, Loading, Whole
    <3>3. TornInv'
      BY <2>1 DEF TornInv, Loading, Whole
    <3> QED BY <3>2, <3>3
  <2>10. Computed' = plug.w /\ out_valid_from' = plug.w
    BY <1>1, <1>2, <1>5, <2>1 DEF Computed, PlugInv
  <2>11. OutInv'
    BY <1>2, <2>10 DEF OutInv
  <2> QED BY <1>3, <2>2, <2>5, <2>8, <2>9, <2>11 DEF ChannelInv
<1> QED BY <1>4, <1>5 DEF PlugResync

-----------------------------------------------------------------------------
(* The control thread, and the events *)

LEMMA PushEventKeeps ==
  ASSUME ChannelInv, NEW p \in Latency..(MaxPos - 1), NEW kind \in {"param", "reset"},
         PushEvent(p, kind)
  PROVE  ChannelInv'
<1>1. /\ TypeOK /\ BellInv /\ sent < MaxEvents /\ sent' = sent + 1
      /\ UNCHANGED <<in, out, in_write_pos, out_write_pos, out_valid_from, bell, state,
                     host_command, heartbeat, host, plug, mon, bypass>>
  BY DEF ChannelInv, PushEvent
<1>2. sent' \in 0..MaxEvents
  BY <1>1, Sizes DEF TypeOK
<1>3. [pos |-> p, kind |-> kind] \in Event
  BY Sizes DEF Event, Pos
<1>4. events' \in Seq(Event) /\ Len(events') <= EventCapacity
  <2>1. events \in Seq(Event) /\ Len(events) <= EventCapacity
    BY <1>1 DEF TypeOK
  <2>2. CASE Len(events) < EventCapacity
    <3>1. events' = Append(events, [pos |-> p, kind |-> kind])
      BY <2>2 DEF PushEvent
    <3>2. events' \in Seq(Event) /\ Len(events') = Len(events) + 1
      BY <1>3, <2>1, <3>1
    <3>3. Len(events) \in Nat
      BY <2>1
    <3> QED BY <2>2, <3>2, <3>3, Sizes
  <2>3. CASE ~(Len(events) < EventCapacity)
    BY <2>1, <2>3 DEF PushEvent
  <2> QED BY <2>2, <2>3
<1>5. TypeOK' /\ BellInv' /\ UNCHANGED rings
  BY <1>1, <1>2, <1>4 DEF TypeOK, BellInv, rings
<1> QED BY <1>1, <1>5, RestStep

LEMMA BypassesEffect ==
  ASSUME TypeOK, NEW fault \in {"none", "failed", "exited", "crashed", "hung"},
         NEW kill \in BOOLEAN, Bypasses(fault, kill)
  PROVE  bypass' \in BOOLEAN /\ mon' \in MonState
<1>1. mon \in MonState
  BY DEF TypeOK
<1>2. PICK pc \in {"told", "ring"} :
        mon' = [mon EXCEPT !.pc = pc, !.bell = "to_host", !.fault = fault, !.kill = kill]
  BY DEF Bypasses
<1> QED BY <1>1, <1>2 DEF Bypasses, MonState

LEMMA MonPollKeeps ==
  ASSUME ChannelInv, MonPoll
  PROVE  ChannelInv'
<1>1. /\ TypeOK /\ BellInv /\ UNCHANGED rings /\ heartbeat' = FALSE
      /\ UNCHANGED <<events, bell, state, host_command, host, plug, sent>>
  BY DEF ChannelInv, MonPoll, rings
<1>2. PeerFault \in {"none", "failed", "exited", "crashed", "hung"}
  BY <1>1 DEF PeerFault, TypeOK, MonState
<1>3. bypass' \in BOOLEAN /\ mon' \in MonState
  <2>1. CASE Bypasses(PeerFault, FALSE)
    BY <1>1, <1>2, <2>1, BypassesEffect
  <2>2. CASE UNCHANGED <<bypass, mon>>
    BY <1>1, <2>2 DEF TypeOK
  <2> QED BY <2>1, <2>2 DEF MonPoll
<1>4. TypeOK' /\ BellInv'
  BY <1>1, <1>3 DEF TypeOK, BellInv, rings
<1> QED BY <1>1, <1>4, RestStep

LEMMA MonBypassKeeps ==
  ASSUME ChannelInv, MonPollStale \/ \E kill \in BOOLEAN : MonForceBypass(kill)
  PROVE  ChannelInv'
<1>1. /\ TypeOK /\ BellInv /\ UNCHANGED rings /\ UNCHANGED <<segment, host, plug, sent>>
  BY DEF ChannelInv, MonPollStale, MonForceBypass, segment, rings
<1>2. bypass' \in BOOLEAN /\ mon' \in MonState
  <2>1. CASE MonPollStale
    <3>1. Bypasses("hung", TRUE) /\ TRUE \in BOOLEAN
      BY <2>1 DEF MonPollStale
    <3> QED BY <1>1, <3>1, BypassesEffect
  <2>2. CASE \E kill \in BOOLEAN : MonForceBypass(kill)
    <3>1. PICK kill \in BOOLEAN : Bypasses(mon.fault, kill)
      BY <2>2 DEF MonForceBypass
    <3>2. mon.fault \in {"none", "failed", "exited", "crashed", "hung"}
      BY <1>1 DEF TypeOK, MonState
    <3> QED BY <1>1, <3>1, <3>2, BypassesEffect
  <2> QED BY <2>1, <2>2
<1>3. TypeOK' /\ BellInv'
  BY <1>1, <1>2 DEF TypeOK, BellInv, segment
<1> QED BY <1>1, <1>3, RestStep

LEMMA MonRequestShutdownKeeps ==
  ASSUME ChannelInv, MonRequestShutdown
  PROVE  ChannelInv'
<1>1. /\ TypeOK /\ BellInv /\ UNCHANGED rings /\ host_command' = "shutdown"
      /\ UNCHANGED <<events, bell, state, heartbeat, host, plug, bypass, sent>>
      /\ mon' = [mon EXCEPT !.pc = "ring", !.bell = "to_plugin", !.asked = TRUE]
  BY DEF ChannelInv, MonRequestShutdown, rings
<1>2. mon' \in MonState
  <2>1. mon \in MonState
    BY <1>1 DEF TypeOK
  <2> QED BY <1>1, <2>1 DEF MonState
<1>3. TypeOK' /\ BellInv'
  BY <1>1, <1>2 DEF TypeOK, BellInv, rings
<1> QED BY <1>1, <1>3, RestStep

LEMMA MonRingKeeps ==
  ASSUME ChannelInv, MonRing
  PROVE  ChannelInv'
<1>1. /\ TypeOK /\ BellInv /\ UNCHANGED rings
      /\ UNCHANGED <<events, state, host_command, heartbeat, host, plug, bypass, sent>>
      /\ mon \in MonState
  BY DEF ChannelInv, MonRing, TypeOK, rings
<1>2. PICK pc \in {"wake", "told"} : MonAt(pc)
  BY DEF MonRing
<1>3. mon' \in MonState
  BY <1>1, <1>2 DEF MonAt, MonState
<1>4. PICK b \in {"to_plugin", "to_host"} : Rings(b) \/ Wakes(b)
  BY <1>1 DEF MonRing, MonState
<1>5. Counts(b, bell[b].waiters)
  BY <1>1, <1>4, BellCounts
<1>6. TypeOK' /\ BellInv'
  BY <1>1, <1>3, <1>5 DEF TypeOK, BellInv, Counts, Bells, rings
<1> QED BY <1>1, <1>6, RestStep

\* A hung plugin is killed.
LEMMA MonToldKeeps ==
  ASSUME ChannelInv, MonTold
  PROVE  ChannelInv'
<1>1. /\ TypeOK /\ BellInv /\ UNCHANGED rings /\ UNCHANGED <<segment, host, bypass, sent>>
      /\ mon' = [mon EXCEPT !.pc = "idle", !.kill = FALSE]
  BY DEF ChannelInv, MonTold, segment, rings
<1>2. mon' \in MonState
  <2>1. mon \in MonState
    BY <1>1 DEF TypeOK
  <2> QED BY <1>1, <2>1 DEF MonState
<1>3. CASE PlugAt("dead")
  <2>1. /\ plug' \in PlugState /\ plug'.pc = "dead"
        /\ plug'.read_pos = plug.read_pos /\ plug'.w = plug.w
    BY <1>1, <1>3, PlugAtEffect DEF PlugPc
  <2>2. TypeOK' /\ BellInv' /\ plug'.pc \in Quiet
    BY <1>1, <1>2, <2>1 DEF TypeOK, BellInv, segment, Quiet, PlugPc, Loading, Whole
  <2> QED BY <1>1, <2>1, <2>2, PlugQuietStep
<1>4. CASE UNCHANGED plug
  <2>1. TypeOK' /\ BellInv'
    BY <1>1, <1>2, <1>4 DEF TypeOK, BellInv, segment
  <2> QED BY <1>1, <1>4, <2>1, RestStep
<1> QED BY <1>3, <1>4 DEF MonTold

-----------------------------------------------------------------------------
(* The invariant *)

LEMMA ChannelInvInit == Init => ChannelInv
<1> SUFFICES ASSUME Init PROVE ChannelInv
  OBVIOUS
<1>1. /\ in_write_pos = Latency /\ out_write_pos = Latency /\ out_valid_from = 0
      /\ events = <<>> /\ bell = [b \in {"to_plugin", "to_host"} |-> Silent]
      /\ in = [i \in 0..(RingCapacity - 1) |-> IF i < Latency THEN i ELSE NoSample]
      /\ out = in
      /\ state = "created" /\ host_command = "run" /\ heartbeat = FALSE
      /\ bypass = FALSE /\ sent = 0
      /\ host = HostIdle(Latency, 0)
      /\ mon = [pc |-> "idle", bell |-> "to_host", fault |-> "none", asked |-> FALSE,
                kill |-> FALSE]
      /\ plug = [pc |-> "absent", ring |-> "next", read_pos |-> Latency, w |-> Latency,
                 end |-> Latency, k |-> 0, iter |-> 0, torn |-> FALSE, events |-> {}]
  BY DEF Init
<1>2. Latency \in Pos /\ 0 \in Pos /\ 0 \in 0..MaxBlock /\ 0 \in 0..StallAfter
      /\ 0 \in 0..MaxChunks /\ 0 \in 0..MaxEvents
  BY Sizes DEF Pos
<1>3. host \in HostState /\ host.pc = "idle" /\ host.pos = Latency /\ host.w = 0
  BY <1>1, <1>2 DEF HostIdle, HostState
<1>4. plug \in PlugState /\ plug.pc = "absent" /\ plug.read_pos = Latency /\ plug.w = Latency
  BY <1>1, <1>2 DEF PlugState, PlugPc
<1>5. mon \in MonState
  BY <1>1 DEF MonState
<1>6. in \in [0..(RingCapacity - 1) -> Pos \cup {NoSample}]
  <2>1. \A i \in 0..(RingCapacity - 1) : i < Latency => i \in Pos
    BY Sizes DEF Pos
  <2> QED BY <1>1, <2>1
<1>7. bell \in [{"to_plugin", "to_host"} -> [rung : BOOLEAN, waiters : {0, 1}, asleep : BOOLEAN]]
  BY <1>1 DEF Silent
<1>8. events \in Seq(Event) /\ Len(events) = 0
  BY <1>1
<1>9. TypeOK
  <2>1. /\ {in_write_pos, out_write_pos, out_valid_from} \subseteq Pos
        /\ out_write_pos <= in_write_pos
    BY <1>1, <1>2, Sizes
  <2>2. Len(events) <= EventCapacity /\ sent \in 0..MaxEvents
    BY <1>1, <1>2, <1>8, Sizes
  <2>2a. /\ heartbeat \in BOOLEAN /\ bypass \in BOOLEAN
         /\ state \in {"created", "running", "stopped", "failed"}
         /\ host_command \in {"run", "shutdown"}
    BY <1>1
  <2>3. out \in [0..(RingCapacity - 1) -> Pos \cup {NoSample}]
    BY <1>1, <1>6
  <2> QED BY <1>3, <1>4, <1>5, <1>6, <1>7, <1>8, <2>1, <2>2, <2>2a, <2>3 DEF TypeOK
<1>10. HostInv /\ PlugInv /\ TornInv /\ ReadInv
  BY <1>1, <1>3, <1>4, Sizes
     DEF HostInv, PlugInv, TornInv, ReadInv, Filling, Published, Waiting, Loading, Whole
<1>11. BellInv
  BY <1>1, <1>3, <1>4 DEF BellInv, Silent
<1>12. \A p \in Nat : p < Latency => in[Slot(p)] = p
  BY <1>1, SmallSlot, Sizes
<1>13. Stored = Latency /\ Computed = Latency
  BY <1>3, <1>4, Sizes DEF Stored, Computed, Filling
<1>14. InInv /\ OutInv
  BY <1>1, <1>12, <1>13 DEF InInv, OutInv
<1> QED BY <1>9, <1>10, <1>11, <1>14 DEF ChannelInv

LEMMA ChannelInvStutter ==
  ASSUME ChannelInv, UNCHANGED vars
  PROVE  ChannelInv'
<1>1. TypeOK' /\ BellInv' /\ UNCHANGED rings /\ host' = host /\ plug' = plug
  BY DEF ChannelInv, TypeOK, BellInv, vars, segment, rings
<1> QED BY <1>1, RestStep

LEMMA HostStepKeeps ==
  ASSUME ChannelInv, HostStep
  PROVE  ChannelInv'
BY HostStoreKeeps, HostPublishKeeps, HostQuietKeeps, HostLoadWrittenKeeps,
   HostLoadValidKeeps, HostReadKeeps, HostDryKeeps DEF HostStep

LEMMA PlugStepKeeps ==
  ASSUME ChannelInv, PlugStep
  PROVE  ChannelInv'
BY PlugRingKeeps, PlugActivateKeeps, PlugServiceKeeps, PlugWaitKeeps, PlugLoopKeeps,
   PlugResyncKeeps, PlugLoadKeeps, PlugRecheckKeeps, PlugProcessKeeps, PlugStoreKeeps,
   PlugPublishKeeps, PlugNextKeeps DEF PlugStep

LEMMA MonStepKeeps ==
  ASSUME ChannelInv, MonStep
  PROVE  ChannelInv'
BY MonPollKeeps, MonBypassKeeps, MonRingKeeps, MonToldKeeps DEF MonStep

LEMMA EnvironmentKeeps ==
  ASSUME ChannelInv, Environment
  PROVE  ChannelInv'
<1>1. CASE \E n \in 1..MaxBlock : HostBegin(n)
  BY <1>1, HostBeginKeeps
<1>2. CASE \E p \in Latency..(MaxPos - 1), kind \in {"param", "reset"} : PushEvent(p, kind)
  BY <1>2, PushEventKeeps
<1>3. CASE HostTimeout
  BY <1>3, HostQuietKeeps
<1>4. CASE PlugTimeout
  BY <1>4, PlugWaitKeeps
<1>5. CASE PlugAttach
  BY <1>5, PlugAttachKeeps
<1>6. CASE PlugCrash \/ PlugHang
  BY <1>6, PlugStopsKeeps
<1>7. CASE \E kill \in BOOLEAN : MonForceBypass(kill)
  BY <1>7, MonBypassKeeps
<1>8. CASE MonRequestShutdown
  BY <1>8, MonRequestShutdownKeeps
<1> QED BY <1>1, <1>2, <1>3, <1>4, <1>5, <1>6, <1>7, <1>8 DEF Environment

LEMMA ChannelInvNext == ChannelInv /\ [Next]_vars => ChannelInv'
BY HostStepKeeps, PlugStepKeeps, MonStepKeeps, EnvironmentKeeps, ChannelInvStutter DEF Next

LEMMA ChannelInvHolds == Spec => []ChannelInv
BY ChannelInvInit, ChannelInvNext, PTL DEF Spec

\* What the host reads, and the dry signal next to it, are the positions asked for.
LEMMA InvImpliesAligned == ChannelInv => OutputIsAligned
<1> SUFFICES ASSUME ChannelInv PROVE OutputIsAligned
  OBVIOUS
<1>1. /\ HostInv /\ InInv /\ ReadInv /\ host.pos \in Nat /\ host.n \in 0..MaxBlock /\ host.k \in Nat
  BY Sizes DEF ChannelInv, TypeOK, HostState, Pos
<1>2. CASE host.pc = "read"
  <2>1. From + host.k \in Nat /\ From <= From + host.k /\ From + host.k < To
    BY <1>1, <1>2, Sizes DEF HostInv, Published, From, To
  <2>2. out[Slot(From + host.k)] = From + host.k
    BY <1>1, <1>2, <2>1 DEF ReadInv
  <2>3. \A p \in From..(To - 1) : in[Slot(p)] = p
    <3> TAKE p \in From..(To - 1)
    <3>1. p \in Nat /\ Stored = host.pos /\ Stored - RingCapacity <= p /\ p < Stored
      BY <1>1, <1>2, Sizes DEF HostInv, Published, Filling, From, To, Stored
    <3> QED BY <1>1, <3>1 DEF InInv
  <2> QED BY <2>2, <2>3 DEF OutputIsAligned
<1>3. CASE host.pc \in {"missed", "bypassed"}
  <2>1. \A p \in From..(To - 1) : in[Slot(p)] = p
    <3> TAKE p \in From..(To - 1)
    <3>1. p \in Nat /\ Stored = host.pos /\ Stored - RingCapacity <= p /\ p < Stored
      BY <1>1, <1>3, Sizes DEF HostInv, Published, Filling, From, To, Stored
    <3> QED BY <1>1, <3>1 DEF InInv
  <2> QED BY <1>3, <2>1 DEF OutputIsAligned
<1>4. CASE host.pc \notin {"read", "missed", "bypassed"}
  BY <1>4 DEF OutputIsAligned
<1> QED BY <1>2, <1>3, <1>4


-----------------------------------------------------------------------------
(* Events *)

\* Up to where the plugin has taken events out of the ring.
Taken == IF plug.pc \in Whole THEN plug.end ELSE plug.read_pos

\* Events are in the order of their positions; only those a resynchronisation
\* skipped are behind the plugin; a chunk that is being read ends at its first reset.
EventInv ==
  /\ \A i, j \in DOMAIN events : i <= j => events[i].pos <= events[j].pos
  /\ \A i \in DOMAIN events : events[i].pos >= Taken \/ events[i].pos < out_valid_from
  /\ plug.pc \in Loading =>
       \A i \in DOMAIN events : events[i].kind = "reset" =>
         events[i].pos <= plug.read_pos \/ events[i].pos >= plug.end
  /\ EventsOnTime

LEMMA EventTypes ==
  ASSUME ChannelInv
  PROVE  /\ events \in Seq(Event) /\ Len(events) \in Nat /\ DOMAIN events = 1..Len(events)
         /\ \A i \in DOMAIN events : events[i].pos \in Nat
         /\ plug \in PlugState /\ plug.read_pos \in Nat /\ plug.end \in Nat /\ plug.w \in Nat
         /\ out_valid_from \in Nat /\ in_write_pos \in Nat
         /\ plug.read_pos <= Taken /\ Taken <= in_write_pos /\ Taken \in Nat
<1>1. /\ events \in Seq(Event) /\ plug \in PlugState /\ PlugInv
      /\ {in_write_pos, out_valid_from} \subseteq Pos
  BY DEF ChannelInv, TypeOK
<1>2. /\ plug.read_pos \in Nat /\ plug.end \in Nat /\ plug.w \in Nat
      /\ out_valid_from \in Nat /\ in_write_pos \in Nat
  BY <1>1, Sizes DEF PlugState, Pos
<1>3. /\ Len(events) \in Nat /\ DOMAIN events = 1..Len(events)
      /\ \A i \in DOMAIN events : events[i] \in Event
  BY <1>1
<1>4. \A e \in Event : e.pos \in Nat
  BY Sizes DEF Event, Pos
<1>5. plug.read_pos <= Taken /\ Taken <= in_write_pos /\ Taken \in Nat
  BY <1>1, <1>2 DEF PlugInv, Taken
<1> QED BY <1>1, <1>2, <1>3, <1>4, <1>5

\* Steps that leave the events and the plugin alone.
LEMMA EventRestKeeps ==
  ASSUME EventInv, UNCHANGED <<events, out_valid_from, plug>>
  PROVE  EventInv'
BY DEF EventInv, EventsOnTime, Taken

\* The plugin is outside of a chunk, or stores one.
LEMMA EventPlugKeeps ==
  ASSUME ChannelInv, EventInv, UNCHANGED <<events, out_valid_from>>,
         plug'.pc \notin Loading \cup {"in_call"}, Taken' \in Nat, Taken' <= Taken
  PROVE  EventInv'
<1>1. \A i \in DOMAIN events : events[i].pos >= Taken' \/ events[i].pos < out_valid_from
  BY EventTypes DEF EventInv
<1>2. EventsOnTime'
  BY DEF EventsOnTime
<1> QED BY <1>1, <1>2 DEF EventInv, Taken

\* The plugin leaves its chunk, or was in none.
LEMMA EventQuietKeeps ==
  ASSUME ChannelInv, EventInv, UNCHANGED <<events, out_valid_from>>,
         plug'.pc \notin Loading \cup Whole, plug'.read_pos = plug.read_pos
  PROVE  EventInv'
<1>1. Taken' = plug.read_pos
  BY DEF Taken
<1> QED BY <1>1, EventTypes, EventPlugKeeps DEF Whole

LEMMA PlugSetsPc ==
  ASSUME TypeOK, NEW pc, PlugAt(pc) \/ PlugRings(pc)
  PROVE  plug'.read_pos = plug.read_pos /\ plug'.pc \in {pc, "ring"}
<1>1. plug \in PlugState
  BY DEF TypeOK
<1> QED BY <1>1 DEF PlugAt, PlugRings, PlugState

LEMMA EventOutsideKeeps ==
  ASSUME ChannelInv, EventInv,
         PlugAttach \/ PlugRing \/ PlugActivate \/ PlugService \/ PlugWait \/ PlugTimeout
         \/ PlugNext \/ PlugCrash \/ PlugHang \/ MonTold
  PROVE  EventInv'
<1>0. TypeOK /\ plug \in PlugState
  BY DEF ChannelInv, TypeOK
<1>1. CASE UNCHANGED plug
  <2>1. UNCHANGED <<events, out_valid_from>>
    BY DEF PlugAttach, PlugRing, PlugActivate, PlugService, PlugWait, PlugTimeout, PlugNext,
           PlugCrash, PlugHang, MonTold, segment
  <2> QED BY <1>1, <2>1, EventRestKeeps
<1>2. CASE PlugRing
  <2>1. plug.ring \in {"activating", "next", "gone"}
    BY <1>0 DEF PlugState
  <2>2. PICK pc \in {"wake", "activating", "next", "gone"} : PlugAt(pc)
    BY <1>2, <2>1 DEF PlugRing
  <2>3. plug'.read_pos = plug.read_pos /\ plug'.pc \notin Loading \cup Whole
    BY <1>0, <2>2, PlugSetsPc DEF Loading, Whole
  <2> QED BY <1>2, <2>3, EventQuietKeeps DEF PlugRing
<1>3. CASE PlugService \/ PlugNext \/ PlugHang
  <2>1. plug'.read_pos = plug.read_pos /\ plug'.pc \notin Loading \cup Whole
    <3>1. CASE PlugRings("gone")
      BY <1>0, <3>1, PlugSetsPc DEF Loading, Whole
    <3>2. CASE PlugService /\ ~PlugRings("gone")
      <4>1. PICK pc \in {"loop", "sample", "service"} :
              plug' = [plug EXCEPT !.w = in_write_pos, !.iter = 0, !.pc = pc]
        BY <3>2 DEF PlugService
      <4> QED BY <1>0, <4>1 DEF PlugState, Loading, Whole
    <3>3. CASE PlugNext \/ PlugHang
      BY <1>0, <3>3 DEF PlugNext, PlugHang, PlugState, Loading, Whole
    <3> QED BY <1>3, <3>1, <3>2, <3>3
  <2>2. UNCHANGED <<events, out_valid_from>>
    BY <1>3 DEF PlugService, PlugNext, PlugHang, segment
  <2> QED BY <2>1, <2>2, EventQuietKeeps
<1>4. CASE ~(UNCHANGED plug) /\ (PlugAttach \/ PlugActivate \/ PlugWait \/ PlugTimeout
           \/ PlugCrash \/ MonTold)
  <2>1. PICK pc \in PlugPc \ (Loading \cup Whole) : PlugAt(pc) \/ PlugRings(pc)
    <3>1. {"activating", "service", "gone", "check", "woken", "announce", "park", "parked",
           "sample", "dead"} \subseteq PlugPc \ (Loading \cup Whole)
      BY DEF PlugPc, Loading, Whole
    <3>2. \E pc \in {"activating", "service", "gone", "check", "woken", "announce", "park",
                     "parked", "sample", "dead"} : PlugAt(pc) \/ PlugRings(pc)
      BY <1>4 DEF PlugAttach, PlugActivate, PlugWait, PlugTimeout, PlugCrash, MonTold
    <3> QED BY <3>1, <3>2
  <2>2. plug'.read_pos = plug.read_pos /\ plug'.pc \notin Loading \cup Whole
    BY <1>0, <2>1, PlugSetsPc DEF Loading, Whole
  <2>3. UNCHANGED <<events, out_valid_from>>
    BY <1>4 DEF PlugAttach, PlugActivate, PlugWait, PlugTimeout, PlugCrash, MonTold, segment
  <2> QED BY <2>2, <2>3, EventQuietKeeps
<1> QED BY <1>1, <1>2, <1>3, <1>4

\* No reset is inside the chunk that begins.
LEMMA ChunkEndsAtReset ==
  ASSUME ChannelInv, EventInv, plug.read_pos < plug.w, NEW j \in DOMAIN events,
         events[j].kind = "reset", plug.read_pos < events[j].pos
  PROVE  events[j].pos >= ChunkEnd(plug.read_pos)
<1> DEFINE start == plug.read_pos
           end == IF plug.w < start + MaxBlock THEN plug.w ELSE start + MaxBlock
           resets == {i \in DOMAIN events : events[i].kind = "reset"
                                            /\ start < events[i].pos /\ events[i].pos < end}
<1>1. events[j].pos \in Nat /\ end \in Int
  BY EventTypes, Sizes
<1>2. CASE resets = {}
  <2>1. ChunkEnd(start) = end
    BY <1>2 DEF ChunkEnd, Barrier
  <2>2. ~(events[j].pos < end)
    BY <1>2
  <2> QED BY <1>1, <2>1, <2>2
<1>3. CASE resets # {}
  <2> DEFINE first == CHOOSE i \in resets : \A k \in resets : i <= k
  <2>1. ChunkEnd(start) = events[first].pos
    BY <1>3 DEF ChunkEnd, Barrier
  <2>2. resets \subseteq DOMAIN events /\ resets \in SUBSET Nat
    BY EventTypes
  <2>3. \E i \in resets : \A k \in resets : i <= k
    <3> HIDE DEF resets
    <3> QED BY <1>3, <2>2, LeastNumber
  <2>4. first \in resets /\ \A k \in resets : first <= k
    BY <2>3
  <2>5. events[first].pos \in Nat /\ events[first].pos < end /\ first \in DOMAIN events
    BY <2>4, EventTypes
  <2>6. CASE j \in resets
    <3>1. first <= j
      BY <2>4, <2>6
    <3>2. events[first].pos <= events[j].pos
      <4> HIDE DEF first
      <4> QED BY <2>5, <3>1 DEF EventInv
    <3> QED BY <1>1, <2>1, <2>5, <3>2
  <2>7. CASE j \notin resets
    <3>1. ~(events[j].pos < end)
      BY <2>7
    <3> HIDE DEF first, end
    <3> QED BY <1>1, <2>1, <2>5, <3>1
  <2> QED BY <2>6, <2>7
<1> QED BY <1>2, <1>3

LEMMA EventLoopKeeps ==
  ASSUME ChannelInv, EventInv, PlugLoop
  PROVE  EventInv'
<1>1. /\ plug \in PlugState /\ plug.pc = "loop" /\ UNCHANGED <<events, out_valid_from>>
      /\ plug.read_pos <= plug.w /\ TypeOK
  BY DEF ChannelInv, TypeOK, PlugInv, PlugLoop, segment
<1>2. CASE PlugAt("service")
  <2>1. plug'.read_pos = plug.read_pos /\ plug'.pc \notin Loading \cup Whole
    BY <1>1, <1>2, PlugSetsPc DEF Loading, Whole
  <2> QED BY <1>1, <2>1, EventQuietKeeps
<1>3. CASE plug' = [plug EXCEPT !.pc = "skip", !.iter = @ + 1]
  <2>1. plug'.read_pos = plug.read_pos /\ plug'.pc \notin Loading \cup Whole
    BY <1>1, <1>3 DEF PlugState, Loading, Whole
  <2> QED BY <1>1, <2>1, EventQuietKeeps
<1>4. CASE /\ plug.w # plug.read_pos
           /\ plug' = [plug EXCEPT !.pc = "load", !.iter = @ + 1, !.k = 0,
                                   !.torn = FALSE, !.end = ChunkEnd(plug.read_pos)]
  <2>1. /\ plug'.read_pos = plug.read_pos /\ plug'.pc = "load"
        /\ plug'.end = ChunkEnd(plug.read_pos) /\ plug.read_pos < plug.w
    BY <1>1, <1>4, EventTypes DEF PlugState
  <2>2. \A i \in DOMAIN events : events[i].kind = "reset" =>
          events[i].pos <= plug'.read_pos \/ events[i].pos >= plug'.end
    BY <2>1, ChunkEndsAtReset, EventTypes
  <2>3. Taken' = Taken
    BY <1>1, <2>1 DEF Taken, Whole
  <2>4. EventsOnTime'
    BY <2>1 DEF EventsOnTime
  <2> QED BY <1>1, <2>2, <2>3, <2>4 DEF EventInv
<1> QED BY <1>2, <1>3, <1>4 DEF PlugLoop

\* The events of the chunk are those before its end; the others are at or after it.
LEMMA EventRecheckKeeps ==
  ASSUME ChannelInv, EventInv, PlugRecheck
  PROVE  EventInv'
<1>1. /\ plug \in PlugState /\ plug.pc = "recheck" /\ UNCHANGED out_valid_from /\ TypeOK
      /\ plug.read_pos < plug.end
  BY DEF ChannelInv, TypeOK, PlugRecheck, PlugInv, Loading
<1>2. CASE UNCHANGED events /\ plug' = [plug EXCEPT !.w = in_write_pos, !.pc = "skip"]
  <2>1. plug'.read_pos = plug.read_pos /\ plug'.pc \notin Loading \cup Whole
    BY <1>1, <1>2 DEF PlugState, Loading, Whole
  <2> QED BY <1>1, <1>2, <2>1, EventQuietKeeps
<1>3. CASE /\ plug' = [plug EXCEPT !.pc = "in_call", !.k = 0,
                                   !.events = {events[i] : i \in Due}]
           /\ events' = [i \in 1..(Len(events) - Cardinality(Due)) |->
                           events[i + Cardinality(Due)]]
  <2> DEFINE d == Cardinality(Due)
  <2>1. d \in 0..Len(events) /\ Due = 1..d /\ Due \subseteq DOMAIN events
    BY <1>1, DueIsPrefix
  <2>2. events' = [i \in 1..(Len(events) - d) |-> events[i + d]]
    BY <1>3
  <2>3. \A i \in Due : events[i].pos < plug.end
    <3> TAKE i \in Due
    <3>1. i \in 1..i
      BY <2>1, EventTypes
    <3> QED BY <3>1 DEF Due
  <2>4. ASSUME NEW i \in 1..Len(events), i \notin Due
        PROVE  \E j \in 1..i : ~(events[j].pos < plug.end)
    <3>1. i \in DOMAIN events
      BY EventTypes
    <3> QED BY <2>4, <3>1 DEF Due
  <2> HIDE DEF d
  <2>5. ASSUME NEW i \in 1..Len(events), i > d
        PROVE  events[i].pos >= plug.end
    <3>1. PICK j \in 1..i : ~(events[j].pos < plug.end)
      BY <2>1, <2>4, <2>5
    <3>2. /\ i \in DOMAIN events /\ j \in DOMAIN events /\ j <= i
          /\ events[i].pos \in Nat /\ events[j].pos \in Nat /\ plug.end \in Nat
      BY EventTypes
    <3>3. events[j].pos <= events[i].pos
      BY <3>2 DEF EventInv
    <3> QED BY <3>1, <3>2, <3>3
  <2>6. /\ plug'.read_pos = plug.read_pos /\ plug'.pc = "in_call" /\ plug'.end = plug.end
        /\ plug'.events = {events[i] : i \in Due}
    BY <1>1, <1>3 DEF PlugState
  <2>7. Taken' = plug.end
    BY <2>6 DEF Taken, Whole
  <2>8. DOMAIN events' = 1..(Len(events) - d) /\ Len(events) \in Nat
    BY <2>2, EventTypes
  <2>9. ASSUME NEW i \in DOMAIN events'
        PROVE  i + d \in 1..Len(events) /\ i + d > d /\ events'[i] = events[i + d]
    BY <2>1, <2>2, <2>8
  <2>10. \A i \in DOMAIN events' : events'[i].pos >= Taken'
    BY <2>5, <2>7, <2>9
  <2>11. \A i, j \in DOMAIN events' : i <= j => events'[i].pos <= events'[j].pos
    <3> TAKE i, j \in DOMAIN events'
    <3> HAVE i <= j
    <3>1. i + d <= j + d /\ i + d \in DOMAIN events /\ j + d \in DOMAIN events
      BY <2>1, <2>8, <2>9, EventTypes
    <3> QED BY <2>9, <3>1 DEF EventInv
  <2>12. EventsOnTime'
    <3>1. ASSUME NEW i \in Due
          PROVE  /\ events[i].kind = "reset" => events[i].pos <= plug.read_pos
                 /\ events[i].pos >= plug.read_pos \/ events[i].pos < out_valid_from
      <4>1. i \in DOMAIN events /\ events[i].pos \in Nat /\ plug.end \in Nat
            /\ events[i].pos < plug.end
        BY <2>1, <2>3, EventTypes
      <4>2. Taken = plug.read_pos
        BY <1>1 DEF Taken, Whole
      <4> QED BY <1>1, <4>1, <4>2 DEF EventInv, Loading
    <3> QED BY <1>1, <2>6, <3>1 DEF EventsOnTime
  <2> QED BY <2>6, <2>10, <2>11, <2>12 DEF EventInv, Loading
<1> QED BY <1>2, <1>3 DEF PlugRecheck

\* In a chunk, the plugin takes no further events.
LEMMA EventChunkKeeps ==
  ASSUME ChannelInv, EventInv, PlugLoad \/ PlugProcess \/ PlugStore \/ PlugPublish
  PROVE  EventInv'
<1>1. /\ plug \in PlugState /\ UNCHANGED <<events, out_valid_from>>
      /\ plug.read_pos \in Nat /\ plug.end \in Nat
  BY EventTypes DEF PlugLoad, PlugProcess, PlugStore, PlugPublish, segment
<1>2. CASE PlugLoad
  <2>1. plug.pc = "load" /\ \E torn, pc : pc \in {"recheck", "load"} /\
          plug' = [plug EXCEPT !.k = @ + 1, !.torn = torn, !.pc = pc]
    BY <1>2 DEF PlugLoad
  <2>2. /\ plug'.read_pos = plug.read_pos /\ plug'.pc \in {"recheck", "load"}
        /\ plug'.end = plug.end
    BY <1>1, <2>1 DEF PlugState
  <2>3. Taken' = Taken
    BY <2>1, <2>2 DEF Taken, Whole
  <2>4. EventsOnTime'
    BY <2>2 DEF EventsOnTime
  <2> QED BY <1>1, <2>1, <2>2, <2>3, <2>4 DEF EventInv, Loading
<1>3. CASE PlugProcess
  <2>1. plug.pc = "in_call" /\ plug'.pc = "store" /\ plug'.end = plug.end
    BY <1>1, <1>3 DEF PlugProcess, PlugState
  <2>2. Taken = plug.end /\ Taken' = plug.end
    BY <2>1 DEF Taken, Whole
  <2> QED BY <1>1, <2>1, <2>2, EventPlugKeeps DEF Loading
<1>4. CASE PlugStore
  <2>1. plug.pc = "store" /\ \E pc : pc \in {"store", "publish"} /\
          plug' = [plug EXCEPT !.k = @ + 1, !.pc = pc]
    BY <1>4 DEF PlugStore
  <2>2. plug'.pc \in {"store", "publish"} /\ plug'.end = plug.end
    BY <1>1, <2>1 DEF PlugState
  <2>3. Taken = plug.end /\ Taken' = plug.end
    BY <2>1, <2>2 DEF Taken, Whole
  <2> QED BY <1>1, <2>2, <2>3, EventPlugKeeps DEF Loading
<1>5. CASE PlugPublish
  <2>1. plug.pc = "publish" /\ plug'.pc = "ring" /\ plug'.read_pos = plug.end
    BY <1>1, <1>5 DEF PlugPublish, PlugState
  <2>2. Taken = plug.end /\ Taken' = plug.end
    BY <2>1 DEF Taken, Whole
  <2> QED BY <1>1, <2>1, <2>2, EventPlugKeeps DEF Loading
<1> QED BY <1>2, <1>3, <1>4, <1>5

\* What a resynchronisation skips is no longer valid.
LEMMA EventResyncKeeps ==
  ASSUME ChannelInv, EventInv, PlugResync
  PROVE  EventInv'
<1>1. /\ plug \in PlugState /\ UNCHANGED events /\ TypeOK
      /\ plug.pc \in {"skip", "skipped"} /\ out_valid_from <= plug.w
      /\ plug.pc = "skipped" => out_valid_from = plug.w
      /\ plug.w \in Nat /\ out_valid_from \in Nat
      /\ \A i \in DOMAIN events : events[i].pos \in Nat
  BY EventTypes DEF ChannelInv, TypeOK, PlugInv, PlugResync
<1>2. out_valid_from' = plug.w /\ plug'.pc \in {"skipped", "loop"}
      /\ (Taken' = Taken \/ Taken' = plug.w)
  <2>1. CASE out_valid_from' = plug.w /\ PlugAt("skipped")
    <3>1. plug'.read_pos = plug.read_pos /\ plug'.pc = "skipped"
      BY <1>1, <2>1, PlugAtEffect DEF PlugPc
    <3> QED BY <1>1, <2>1, <3>1 DEF Taken, Whole
  <2>2. CASE /\ plug.pc = "skipped" /\ UNCHANGED out_valid_from
             /\ plug' = [plug EXCEPT !.read_pos = plug.w, !.pc = "loop"]
    <3>1. plug'.read_pos = plug.w /\ plug'.pc = "loop"
      BY <1>1, <2>2 DEF PlugState
    <3> QED BY <1>1, <2>2, <3>1 DEF Taken, Whole
  <2> QED BY <2>1, <2>2 DEF PlugResync
<1>3. \A i \in DOMAIN events : events[i].pos >= Taken' \/ events[i].pos < plug.w
  <2> TAKE i \in DOMAIN events
  <2>1. events[i].pos >= Taken \/ events[i].pos < out_valid_from
    BY DEF EventInv
  <2> QED BY <1>1, <1>2, <2>1
<1>4. EventsOnTime'
  BY <1>2 DEF EventsOnTime
<1> QED BY <1>1, <1>2, <1>3, <1>4 DEF EventInv, Loading

\* A new event is in input that is not published yet, after all the others.
LEMMA EventPushKeeps ==
  ASSUME ChannelInv, EventInv, NEW p \in Latency..(MaxPos - 1),
         NEW kind \in {"param", "reset"}, PushEvent(p, kind)
  PROVE  EventInv'
<1>1. /\ UNCHANGED <<plug, out_valid_from>> /\ p >= host.pos /\ host.pos = in_write_pos
      /\ events # <<>> => p >= events[Len(events)].pos
      /\ p \in Nat /\ in_write_pos \in Nat
  BY EventTypes, Sizes DEF ChannelInv, HostInv, PushEvent
<1>2. CASE events' = events
  BY <1>1, <1>2, EventRestKeeps
<1>3. CASE events' = Append(events, [pos |-> p, kind |-> kind])
  <2> DEFINE n == Len(events)
  <2>1. /\ n \in Nat /\ DOMAIN events = 1..n /\ DOMAIN events' = 1..(n + 1)
        /\ events'[n + 1].pos = p /\ events'[n + 1].kind = kind
        /\ \A i \in DOMAIN events : events'[i] = events[i]
    BY <1>3, EventTypes
  <2>2. \A i \in DOMAIN events : events[i].pos <= p
    <3> TAKE i \in DOMAIN events
    <3>1. n \in DOMAIN events /\ i <= n /\ events # <<>>
      BY <2>1
    <3>2. events[i].pos <= events[n].pos
      BY <3>1 DEF EventInv
    <3>3. events[i].pos \in Nat /\ events[n].pos \in Nat
      BY <3>1, EventTypes
    <3> QED BY <1>1, <3>1, <3>2, <3>3
  <2> HIDE DEF n
  <2>3. ASSUME NEW i \in DOMAIN events'
        PROVE  \/ i \in DOMAIN events /\ events'[i] = events[i]
               \/ i = n + 1
    BY <2>1
  <2>4. \A i, j \in DOMAIN events' : i <= j => events'[i].pos <= events'[j].pos
    <3> TAKE i, j \in DOMAIN events'
    <3> HAVE i <= j
    <3>1. CASE j \in DOMAIN events
      <4>1. i \in DOMAIN events
        BY <2>1, <3>1
      <4> QED BY <2>1, <3>1, <4>1 DEF EventInv
    <3>2. CASE j = n + 1
      BY <1>1, <2>1, <2>2, <2>3, <3>2
    <3> QED BY <2>3, <3>1, <3>2
  <2>5. /\ Taken' = Taken /\ Taken <= p
    BY <1>1, EventTypes DEF Taken
  <2>6. \A i \in DOMAIN events' : events'[i].pos >= Taken \/ events'[i].pos < out_valid_from
    <3> TAKE i \in DOMAIN events'
    <3>1. CASE i \in DOMAIN events
      BY <2>1, <3>1 DEF EventInv
    <3>2. CASE i = n + 1
      BY <1>1, <2>1, <2>5, <3>2, EventTypes
    <3> QED BY <2>3, <3>1, <3>2
  <2>7. plug.pc \in Loading =>
          \A i \in DOMAIN events' : events'[i].kind = "reset" =>
            events'[i].pos <= plug.read_pos \/ events'[i].pos >= plug.end
    <3> SUFFICES ASSUME plug.pc \in Loading, NEW i \in DOMAIN events',
                        events'[i].kind = "reset"
                 PROVE  events'[i].pos <= plug.read_pos \/ events'[i].pos >= plug.end
      OBVIOUS
    <3>1. CASE i \in DOMAIN events
      BY <2>1, <3>1 DEF EventInv
    <3>2. CASE i = n + 1
      <4>1. plug.end <= plug.w /\ plug.w <= in_write_pos
        BY DEF ChannelInv, PlugInv
      <4> QED BY <1>1, <2>1, <3>2, <4>1, EventTypes
    <3> QED BY <2>3, <3>1, <3>2
  <2>8. EventsOnTime'
    BY <1>1 DEF EventInv, EventsOnTime
  <2> QED BY <1>1, <2>4, <2>5, <2>6, <2>7, <2>8 DEF EventInv
<1> QED BY <1>2, <1>3 DEF PushEvent

LEMMA EventInvNext ==
  ASSUME ChannelInv, EventInv, [Next]_vars
  PROVE  EventInv'
<1>1. CASE UNCHANGED vars
  BY <1>1, EventRestKeeps DEF vars, segment
<1>2. CASE HostStep
  BY <1>2, EventRestKeeps
     DEF HostStep, HostStore, HostPublish, HostLive, HostRing, HostLoadWritten, HostLoadValid,
         HostWait, HostRead, HostDry, segment
<1>3. CASE PlugStep
  BY <1>3, EventOutsideKeeps, EventLoopKeeps, EventResyncKeeps, EventRecheckKeeps,
     EventChunkKeeps DEF PlugStep
<1>4. CASE MonPoll \/ MonPollStale \/ MonRing \/ (\E kill \in BOOLEAN : MonForceBypass(kill))
           \/ MonRequestShutdown
  BY <1>4, EventRestKeeps
     DEF MonPoll, MonPollStale, MonRing, MonForceBypass, MonRequestShutdown, segment
<1>5. CASE MonTold \/ PlugTimeout \/ PlugAttach \/ PlugCrash \/ PlugHang
  BY <1>5, EventOutsideKeeps
<1>6. CASE (\E n \in 1..MaxBlock : HostBegin(n)) \/ HostTimeout
  BY <1>6, EventRestKeeps DEF HostBegin, HostTimeout, segment
<1>7. CASE \E p \in Latency..(MaxPos - 1), kind \in {"param", "reset"} : PushEvent(p, kind)
  BY <1>7, EventPushKeeps
<1> QED BY <1>1, <1>2, <1>3, <1>4, <1>5, <1>6, <1>7 DEF Next, MonStep, Environment

LEMMA EventInvInit == Init => EventInv
<1> SUFFICES ASSUME Init PROVE EventInv
  OBVIOUS
<1>1. events = <<>> /\ plug.pc = "absent"
  BY DEF Init
<1>2. DOMAIN events = {}
  BY <1>1
<1> QED BY <1>1, <1>2 DEF EventInv, EventsOnTime, Loading

-----------------------------------------------------------------------------
(* The theorems *)

\* The cursors, the rings and the three threads keep their shape: no cursor runs
\* past the one it follows, a doorbell counts at most one waiter.
THEOREM ChannelTypeOK == Spec => []TypeOK
<1>1. ChannelInv => TypeOK
  BY DEF ChannelInv
<1> QED BY <1>1, ChannelInvHolds, PTL

\* HostEnd::process: the output of a call is the plugin's, or the dry signal, of
\* exactly the positions one latency earlier, for rings of any capacity of at
\* least two blocks.
THEOREM ChannelOutputIsAligned == Spec => []OutputIsAligned
BY InvImpliesAligned, ChannelInvHolds, PTL

\* PluginEnd::service: a chunk that the host overwrote while it was read never
\* reaches the plugin.
THEOREM ChannelChunksAreWhole == Spec => []ChunksAreWhole
<1>1. ChannelInv => ChunksAreWhole
  BY DEF ChannelInv, TornInv, Whole, ChunksAreWhole
<1> QED BY <1>1, ChannelInvHolds, PTL

\* PluginEnd::service: a reset applies at the first sample of a chunk, and an event
\* comes late only when a resynchronisation skipped its position.
THEOREM ChannelEventsOnTime == Spec => []EventsOnTime
<1>1. Init => ChannelInv /\ EventInv
  BY ChannelInvInit, EventInvInit
<1>2. ChannelInv /\ EventInv /\ [Next]_vars => (ChannelInv /\ EventInv)'
  BY ChannelInvNext, EventInvNext
<1>3. EventInv => EventsOnTime
  BY DEF EventInv
<1> QED BY <1>1, <1>2, <1>3, PTL DEF Spec

=============================================================================
