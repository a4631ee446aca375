-------------------------- MODULE ChunkStoreProofs --------------------------
(***************************************************************************)
(* Proofs about the chunk store, for any number of threads, segments,      *)
(* sizes and crashes.                                                      *)
(***************************************************************************)
EXTENDS ChunkStore, TLAPS

-----------------------------------------------------------------------------
(* Arithmetic of slots *)

\* Multiplication by a natural number is monotonic.
LEMMA TimesMonotonic ==
  ASSUME NEW a \in Nat, NEW b \in Nat, NEW k \in Nat, a <= b
  PROVE  a * k <= b * k
BY SMT

\* A number lies in the block of length k that division puts it in.
LEMMA DivBounds ==
  ASSUME NEW n \in Nat, NEW k \in Nat \ {0}
  PROVE  /\ n \div k \in Nat
         /\ (n \div k) * k <= n
         /\ n < (n \div k + 1) * k
BY SMT

\* The block of a number is the only one it lies in.
LEMMA DivUnique ==
  ASSUME NEW n \in Nat, NEW k \in Nat \ {0}, NEW q \in Nat,
         q * k <= n, n < (q + 1) * k
  PROVE  n \div k = q
BY SMT

LEMMA LenIsPositive == \A len \in Len_s : len \in Nat /\ 1 <= len /\ len <= SegLen
BY ChunksFitSegment, SizesArePositive

\* A slot starts at or after the allocation cursor and stays in one segment.
LEMMA SlotFits ==
  ASSUME NEW from \in Nat, NEW len \in Len_s
  PROVE  /\ Slot(from, len) \in Nat
         /\ from <= Slot(from, len)
         /\ Slot(from, len) + len <= (SegOf(Slot(from, len)) + 1) * SegLen
         /\ SegOf(Slot(from, len)) \in Nat
         /\ SegOf(Slot(from, len)) = SegOf(Slot(from, len) + len - 1)
<1> DEFINE q == (from + Align - 1) \div Align
           offset == q * Align
           seg == offset \div SegLen
           jump == (seg + 1) * SegLen
<1>1. len \in Nat /\ 1 <= len /\ len <= SegLen
  BY ChunksFitSegment, SizesArePositive
<1>2. q \in Nat /\ offset \in Nat /\ from <= offset
  <2>1. from + Align - 1 \in Nat
    BY SizesArePositive
  <2>2. q \in Nat /\ from + Align - 1 < (q + 1) * Align
    BY <2>1, DivBounds, SizesArePositive
  <2>3. (q + 1) * Align = q * Align + Align
    BY <2>2, SizesArePositive
  <2> QED BY <2>2, <2>3, SizesArePositive
<1>3. seg \in Nat /\ offset < jump /\ seg * SegLen <= offset /\ jump \in Nat
  BY <1>2, DivBounds, SizesArePositive
<1>4. seg + 1 \in Nat /\ jump + SegLen = ((seg + 1) + 1) * SegLen
  BY <1>3, SizesArePositive
<1>5. CASE offset + len > jump
  <2>1. Slot(from, len) = jump
    BY <1>5 DEF Slot, SegOf
  <2>2. SegOf(jump) = seg + 1
    BY <1>1, <1>3, <1>4, DivUnique, SizesArePositive DEF SegOf
  <2>3. SegOf(jump + len - 1) = seg + 1
    <3>1. jump + len - 1 \in Nat /\ jump <= jump + len - 1
          /\ jump + len - 1 < jump + SegLen
      BY <1>1, <1>3, SizesArePositive
    <3> HIDE DEF seg
    <3>2. (jump + len - 1) \div SegLen = seg + 1
      BY <1>3, <1>4, <3>1, DivUnique, SizesArePositive
    <3> QED BY <3>2 DEF SegOf
  <2> QED BY <1>1, <1>2, <1>3, <1>4, <2>1, <2>2, <2>3, SizesArePositive
<1>6. CASE ~(offset + len > jump)
  <2>1. Slot(from, len) = offset
    BY <1>6 DEF Slot, SegOf
  <2>2. SegOf(offset + len - 1) = seg
    <3>1. offset + len - 1 \in Nat /\ offset <= offset + len - 1
          /\ offset + len - 1 < jump
      BY <1>1, <1>2, <1>3, <1>6
    <3> HIDE DEF offset, seg
    <3>2. (offset + len - 1) \div SegLen = seg
      BY <1>2, <1>3, <3>1, DivUnique, SizesArePositive
    <3> QED BY <3>2 DEF SegOf
  <2> QED BY <1>1, <1>2, <1>3, <1>6, <2>1, <2>2 DEF SegOf
<1> QED BY <1>5, <1>6

\* An offset lies in one of the file's segments.
LEMMA SegOfOffset ==
  /\ \A o \in Offset : o \in Nat /\ SegOf(o) \in Segment
  /\ \A o \in Nat : SegOf(o) < MaxSeg => o \in Offset
<1>1. ASSUME NEW o \in Offset PROVE o \in Nat /\ SegOf(o) \in Segment
  <2>1. o \in Nat /\ o < MaxSeg * SegLen
    BY SizesArePositive, LimitsAreNat DEF Offset
  <2>2. SegOf(o) \in Nat /\ SegOf(o) * SegLen <= o
    BY <2>1, DivBounds, SizesArePositive DEF SegOf
  <2>3. ~(MaxSeg <= SegOf(o))
    BY <2>1, <2>2, TimesMonotonic, SizesArePositive, LimitsAreNat
  <2> QED BY <2>1, <2>2, <2>3, LimitsAreNat DEF Segment
<1>2. ASSUME NEW o \in Nat, SegOf(o) < MaxSeg PROVE o \in Offset
  <2>1. SegOf(o) \in Nat /\ o < (SegOf(o) + 1) * SegLen
    BY DivBounds, SizesArePositive DEF SegOf
  <2>2. (SegOf(o) + 1) * SegLen <= MaxSeg * SegLen
    BY <1>2, <2>1, TimesMonotonic, SizesArePositive, LimitsAreNat
  <2> QED BY <2>1, <2>2, SizesArePositive, LimitsAreNat DEF Offset
<1> QED BY <1>1, <1>2

-----------------------------------------------------------------------------
(* The inductive invariant *)

Apart(a, b) == EndOf(a) <= b.offset \/ EndOf(b) <= a.offset

InOneSegment(a) == SegOf(a.offset) = SegOf(EndOf(a) - 1)

\* Slots lie below the cursor, in one segment each, apart from each other.
SlotInv ==
  /\ \A i \in DOMAIN index : index[i] \in Entry =>
        EndOf(index[i]) <= nextOffset /\ InOneSegment(index[i])
  /\ \A t \in Writer : w[t] \in WriterState =>
        EndOf(w[t]) <= nextOffset /\ InOneSegment(w[t])
  /\ \A i, j \in DOMAIN index :
        i # j /\ index[i] \in Entry /\ index[j] \in Entry => Apart(index[i], index[j])
  /\ \A i \in DOMAIN index, t \in Writer :
        index[i] \in Entry /\ w[t] \in WriterState => Apart(index[i], w[t])
  /\ \A t, u \in Writer :
        t # u /\ w[t] \in WriterState /\ w[u] \in WriterState => Apart(w[t], w[u])

\* What a reader looked up is still there.
ReaderInv ==
  \A t \in Reader : r[t] \in ReaderState =>
    /\ r[t].id \in DOMAIN index
    /\ index[r[t].id] \in Entry
    /\ index[r[t].id].offset = r[t].offset

\* Published chunks and copied ones have their bytes.
WrittenInv ==
  /\ \A i \in DOMAIN index : index[i] \in Entry =>
        index[i].offset \in Written /\ index[i].state # "corrupt"
  /\ \A t \in Writer : w[t] \in WriterState /\ w[t].pc \in {"copied", "marked"} =>
        w[t].offset \in Written

\* Whoever holds a reference to a segment's map keeps it mapped.
HeldInv ==
  /\ \A t \in Writer : w[t] \in WriterState /\ w[t].pc \in {"mapped", "copied"} =>
        SegOf(w[t].offset) \in mapped
  /\ \A t \in Reader : r[t].cache # NoSegment => r[t].cache \in mapped
  /\ \A t \in Syncer : s[t] \in SyncerState =>
        /\ s[t].todo \subseteq s[t].maps
        /\ s[t].maps \subseteq mapped \cap s[t].cleared

\* The segment of bytes that were not flushed is marked, or is about to be by
\* the writer of these bytes, or will be flushed by a sync.
Covered(o) ==
  \/ SegOf(o) \in dirty
  \/ \E t \in Writer : /\ w[t] \in WriterState /\ w[t].pc = "copied"
                       /\ w[t].offset = o
  \/ \E t \in Syncer : s[t] \in SyncerState /\ SegOf(o) \in s[t].todo

ViewedInv == \A o \in viewed : SegOf(o) \in mapped /\ Covered(o)

\* A sync in progress has the rest of its promise still to flush.
SyncInv ==
  /\ acked \subseteq durable
  /\ \A t \in Syncer : s[t] \in SyncerState =>
        \A o \in s[t].covers :
          \/ o \in durable \cup started
          \/ o \in viewed /\ SegOf(o) \in s[t].todo

IInv == TypeOK /\ SlotInv /\ ReaderInv /\ WrittenInv /\ HeldInv /\ ViewedInv /\ SyncInv

-----------------------------------------------------------------------------
(* Type correctness *)

\* What acquiring a segment, with eviction to make room, does to the maps, also when
\* it fails.
LEMMA AcquiresMaps ==
  ASSUME NEW seg \in Segment, NEW guards, mapped \subseteq Segment,
         Acquires(seg, guards) \/ MapFails(seg, guards)
  PROVE  /\ mapped' \subseteq Segment
         /\ Acquires(seg, guards) => seg \in mapped'
         /\ mapped \cap guards \subseteq mapped'
         /\ viewed' \subseteq viewed
         /\ started \subseteq started'
         /\ viewed \cup started = viewed' \cup started'
         /\ \A o \in viewed' : SegOf(o) \in mapped \cap (dirty \cup guards)
                              => SegOf(o) \in mapped'
<1>1. CASE seg \in mapped
  BY <1>1 DEF Acquires, MapFails
<1>2. CASE seg \notin mapped
  <2>1. PICK E \in SUBSET mapped, Got \in SUBSET {seg} :
          /\ Evicts(E, 1, guards)
          /\ mapped' = (mapped \ E) \cup Got
          /\ viewed' = viewed \ FlushedByEviction(E)
          /\ started' = started \cup FlushedByEviction(E)
          /\ Acquires(seg, guards) => Got = {seg}
    <3>1. CASE Acquires(seg, guards)
      BY <1>2, <3>1 DEF Acquires, MapsAfterEviction
    <3>2. CASE ~Acquires(seg, guards)
      <4>1. MapFails(seg, guards) /\ {} \in SUBSET {seg}
        BY <3>2
      <4> QED BY <3>2, <4>1 DEF MapFails, MapsAfterEviction
    <3> QED BY <3>1, <3>2
  <2>2. E \cap guards = {}
    BY <2>1 DEF Evicts, Evictable
  <2> QED BY <2>1, <2>2 DEF FlushedByEviction
<1> QED BY <1>1, <1>2

\* The same for a reservation by another cache.
LEMMA ReserveExternalMaps ==
  ASSUME NEW n \in External, mapped \subseteq Segment, ReserveExternal(n)
  PROVE  /\ mapped' \subseteq Segment
         /\ mapped \cap Guarded \subseteq mapped'
         /\ viewed' \subseteq viewed
         /\ started \subseteq started'
         /\ viewed \cup started = viewed' \cup started'
         /\ \A o \in viewed' : SegOf(o) \in mapped \cap (dirty \cup Guarded)
                              => SegOf(o) \in mapped'
<1>1. CASE n <= external
  BY <1>1 DEF ReserveExternal
<1>2. CASE ~(n <= external)
  <2>1. PICK E \in SUBSET mapped :
          /\ Evicts(E, n - external, Guarded)
          /\ mapped' = mapped \ E
          /\ viewed' = viewed \ FlushedByEviction(E)
          /\ started' = started \cup FlushedByEviction(E)
    BY <1>2 DEF ReserveExternal
  <2>2. E \cap Guarded = {}
    BY <2>1 DEF Evicts, Evictable
  <2> QED BY <2>1, <2>2 DEF FlushedByEviction
<1> QED BY <1>1, <1>2

\* An entry is a hole exactly if it is not an Entry.
LEMMA EntriesAreNotHoles ==
  \A e \in Entry \cup {Hole} : IsHole(e) <=> e \notin Entry
BY ChunksFitSegment, SizesArePositive DEF Entry, Hole, IsHole

LEMMA InitTypeOK == Init => TypeOK
BY LimitsAreNat, SizesArePositive
   DEF Init, TypeOK, Segment, NoSegment, WriterIdle, ReaderIdle, SyncerIdle

\* Reserving a slot keeps what is allocated inside the file.
LEMMA ReserveTypeOK ==
  ASSUME TypeOK, NEW t \in Writer, NEW len \in Len_s, Reserve(t, len)
  PROVE  TypeOK'
<1> DEFINE offset == Slot(nextOffset, len)
<1>1. /\ nextOffset \in Nat /\ segments \in Nat /\ len \in Nat
      /\ MaxSeg \in Nat /\ SegLen \in Nat
  BY LimitsAreNat, SizesArePositive, ChunksFitSegment DEF TypeOK
<1>2. /\ offset \in Nat /\ SegOf(offset) \in Nat
      /\ offset + len <= (SegOf(offset) + 1) * SegLen
  BY <1>1, SlotFits
<1> HIDE DEF offset
<1>3. /\ SegOf(offset) < MaxSeg
      /\ segments' = SegmentsFor(offset) /\ nextOffset' = offset + len
      /\ tail' = SegOf(offset)
      /\ w' = [w EXCEPT ![t] = [pc |-> "reserved", offset |-> offset, len |-> len]]
  BY DEF Reserve, offset
<1>4. segments' \in 0..MaxSeg /\ SegOf(offset) + 1 <= segments'
  BY <1>1, <1>2, <1>3 DEF SegmentsFor, TypeOK
<1>5. (SegOf(offset) + 1) * SegLen <= segments' * SegLen
  BY <1>1, <1>2, <1>4, TimesMonotonic
<1>6. nextOffset' \in 0..(segments' * SegLen)
  BY <1>1, <1>2, <1>3, <1>4, <1>5
<1>7. offset \in Offset /\ tail' \in Segment
  BY <1>1, <1>2, <1>3, SegOfOffset DEF Segment
<1>8. w' \in [Writer -> WriterState \cup {WriterIdle}]
  BY <1>3, <1>7 DEF TypeOK, WriterState
<1> QED BY <1>4, <1>6, <1>7, <1>8 DEF TypeOK, Reserve, bytes

\* Reopening gives an index of entries and holes, and a cursor inside the file.
LEMMA ReopenTypeOK ==
  ASSUME TypeOK, NEW named \in SUBSET DOMAIN index, Reopen(named), SlotInv
  PROVE  TypeOK'
<1>1. \A i \in named : index[i] \in Entry /\ EndOf(index[i]) \in 0..nextOffset
  <2>1. \A i \in named : index[i] \in Entry \cup {Hole} /\ ~IsHole(index[i])
    BY DEF Reopen, TypeOK
  <2>2. \A i \in named : index[i] \in Entry
    BY <2>1, EntriesAreNotHoles
  <2>3. ASSUME NEW e \in Entry PROVE EndOf(e) \in Nat
    <3>1. e.offset \in Nat
      BY SegOfOffset DEF Entry
    <3>2. e.len \in Nat
      BY LenIsPositive DEF Entry
    <3> QED BY <3>1, <3>2 DEF EndOf
  <2> QED BY <2>2, <2>3 DEF TypeOK, SlotInv
<1>2. index' \in Seq(Entry \cup {Hole})
  <2>1. PICK n \in named \cup {0} :
          index' = [i \in 1..n |-> IF i \in named
                                   THEN [index[i] EXCEPT !.state = "unverified"]
                                   ELSE Hole]
    BY DEF Reopen
  <2>2. n \in Nat
    BY DEF TypeOK
  <2>3. \A i \in named : [index[i] EXCEPT !.state = "unverified"] \in Entry
    BY <1>1 DEF Entry
  <2> QED BY <2>1, <2>2, <2>3
<1>3. nextOffset' \in 0..nextOffset
  BY <1>1 DEF Reopen, TypeOK
<1>4. {index[i].offset : i \in named} \subseteq Offset
  BY <1>1 DEF Entry
<1>5. /\ nextOffset' \in 0..(segments' * SegLen)
      /\ segments' \in 0..MaxSeg
  BY <1>3, SizesArePositive, LimitsAreNat DEF TypeOK, Reopen
<1>6. reopened' \in Nat /\ external' \in External
  BY LimitsAreNat DEF TypeOK, Reopen
<1> QED
  BY <1>2, <1>4, <1>5, <1>6
     DEF TypeOK, Reopen, WriterIdle, ReaderIdle, SyncerIdle, NoSegment

\* Every other step.
LEMMA StepTypeOK ==
  ASSUME TypeOK, SlotInv, ReaderInv, [Next]_vars
  PROVE  TypeOK'
<1> USE DEF alloc, table, bytes
<1>1. ASSUME NEW t \in Writer, NEW len \in Len_s, Reserve(t, len) PROVE TypeOK'
  BY <1>1, ReserveTypeOK
<1>2. ASSUME NEW t \in Writer, WriterAcquire(t) PROVE TypeOK'
  <2>1. w[t] \in WriterState /\ SegOf(w[t].offset) \in Segment
    BY <1>2, SegOfOffset DEF TypeOK, WriterAcquire, WriterIdle, WriterState
  <2>2. mapped' \subseteq Segment /\ viewed' \cup started' = viewed \cup started
    BY <1>2, <2>1, AcquiresMaps DEF TypeOK, WriterAcquire
  <2>3. w' \in [Writer -> WriterState \cup {WriterIdle}]
    BY <1>2, <2>1 DEF TypeOK, WriterAcquire, WriterState
  <2> QED BY <1>2, <2>2, <2>3 DEF TypeOK, WriterAcquire
<1>3. ASSUME NEW t \in Writer, Copy(t) PROVE TypeOK'
  <2>1. w[t] \in WriterState
    BY <1>3 DEF TypeOK, Copy, WriterIdle
  <2>2. w' \in [Writer -> WriterState \cup {WriterIdle}] /\ w[t].offset \in Offset
    BY <1>3, <2>1 DEF TypeOK, Copy, WriterState
  <2> QED BY <1>3, <2>2 DEF TypeOK, Copy
<1>4. ASSUME NEW t \in Writer, MarkDirty(t) PROVE TypeOK'
  <2>1. w[t] \in WriterState
    BY <1>4 DEF TypeOK, MarkDirty, WriterIdle
  <2>2. w' \in [Writer -> WriterState \cup {WriterIdle}] /\ SegOf(w[t].offset) \in Segment
    BY <1>4, <2>1, SegOfOffset DEF TypeOK, MarkDirty, WriterState
  <2> QED BY <1>4, <2>2 DEF TypeOK, MarkDirty, MarkedDirty
<1>5. ASSUME NEW t \in Writer, Publish(t) PROVE TypeOK'
  <2>1. w[t] \in WriterState
    BY <1>5 DEF TypeOK, Publish, WriterIdle
  <2>2. [offset |-> w[t].offset, len |-> w[t].len, state |-> "unverified"] \in Entry
    BY <2>1 DEF WriterState, Entry
  <2>3. index' \in Seq(Entry \cup {Hole})
    BY <1>5, <2>2 DEF TypeOK, Publish
  <2> QED BY <1>5, <2>3 DEF TypeOK, Publish
<1>6. ASSUME NEW t \in Reader, NEW id \in DOMAIN index, Lookup(t, id) PROVE TypeOK'
  <2>1. index[id] \in Entry /\ id \in Nat
    BY <1>6 DEF TypeOK, Lookup, Hole
  <2>2. r' \in [Reader -> ReaderState \cup [pc : {"idle"}, cache : Segment \cup {NoSegment}]]
    BY <1>6, <2>1 DEF TypeOK, Lookup, Entry, ReaderState
  <2> QED BY <1>6, <2>2 DEF TypeOK, Lookup
<1>7. ASSUME NEW t \in Reader, ReaderAcquire(t) PROVE TypeOK'
  <2>1. r[t] \in ReaderState /\ SegOf(r[t].offset) \in Segment
    BY <1>7, SegOfOffset DEF TypeOK, ReaderAcquire, ReaderState
  <2>2. mapped' \subseteq Segment /\ viewed' \cup started' = viewed \cup started
    BY <1>7, <2>1, AcquiresMaps DEF TypeOK, ReaderAcquire
  <2>3. r' \in [Reader -> ReaderState \cup [pc : {"idle"}, cache : Segment \cup {NoSegment}]]
    BY <1>7, <2>1 DEF TypeOK, ReaderAcquire, ReaderState, ReaderIdle
  <2> QED BY <1>7, <2>2, <2>3 DEF TypeOK, ReaderAcquire
<1>8. ASSUME NEW t \in Reader, Read(t) PROVE TypeOK'
  <2>1. r[t] \in ReaderState
    BY <1>8 DEF TypeOK, Read
  <2>2. r' \in [Reader -> ReaderState \cup [pc : {"idle"}, cache : Segment \cup {NoSegment}]]
    BY <1>8, <2>1 DEF TypeOK, Read, ReaderState, ReaderIdle
  <2>3. index' \in Seq(Entry \cup {Hole})
    <3>1. index[r[t].id] \in Entry /\ r[t].id \in DOMAIN index
      BY <2>1 DEF ReaderInv
    <3>2. \A x \in {"verified", "corrupt"} :
            [index EXCEPT ![r[t].id].state = x] \in Seq(Entry \cup {Hole})
      BY <3>1 DEF TypeOK, Entry
    <3> QED BY <1>8, <3>2 DEF TypeOK, Read
  <2> QED BY <1>8, <2>2, <2>3 DEF TypeOK, Read
<1>9. ASSUME NEW t \in Reader, ReleaseSegment(t) PROVE TypeOK'
  BY <1>9 DEF TypeOK, ReleaseSegment, ReaderIdle
<1>10. ASSUME NEW t \in Syncer, SyncBegin(t) PROVE TypeOK'
  <2>1. Published \subseteq Offset
    BY EntriesAreNotHoles DEF TypeOK, Published, Offsets, Entry
  <2>2. s' \in [Syncer -> SyncerState \cup {SyncerIdle}]
    BY <1>10, <2>1 DEF TypeOK, SyncBegin, SyncerState
  <2> QED BY <1>10, <2>2 DEF TypeOK, SyncBegin
<1>11. ASSUME NEW t \in Syncer, NEW seg \in Segment, SyncFlush(t, seg) PROVE TypeOK'
  <2>1. s[t] \in SyncerState
    BY <1>11 DEF TypeOK, SyncFlush, SyncerIdle
  <2>2. s' \in [Syncer -> SyncerState \cup {SyncerIdle}]
    BY <1>11, <2>1 DEF TypeOK, SyncFlush, SyncerState
  <2> QED BY <1>11, <2>2 DEF TypeOK, SyncFlush
<1>12. ASSUME NEW t \in Syncer, SyncData(t) PROVE TypeOK'
  <2>1. s[t] \in SyncerState
    BY <1>12 DEF TypeOK, SyncData, SyncerIdle
  <2> QED BY <1>12, <2>1 DEF TypeOK, SyncData, SyncerState
<1>13. ASSUME NEW t \in Syncer, SyncFails(t) PROVE TypeOK'
  <2>1. s[t] \in SyncerState
    BY <1>13 DEF TypeOK, SyncFails, SyncerIdle
  <2> QED BY <1>13, <2>1 DEF TypeOK, SyncFails, SyncerState
<1>14. ASSUME NEW n \in External, ReserveExternal(n) PROVE TypeOK'
  <2>1. mapped' \subseteq Segment /\ viewed' \cup started' = viewed \cup started
    BY <1>14, ReserveExternalMaps DEF TypeOK
  <2> QED BY <1>14, <2>1 DEF TypeOK, ReserveExternal
<1>15. ASSUME NEW named \in SUBSET DOMAIN index, Reopen(named) PROVE TypeOK'
  BY <1>15, ReopenTypeOK
<1>16. CASE UNCHANGED vars
  BY <1>16 DEF TypeOK, vars
<1> QED
  BY <1>1, <1>2, <1>3, <1>4, <1>5, <1>6, <1>7, <1>8, <1>9, <1>10, <1>11, <1>12,
     <1>13, <1>14, <1>15, <1>16
     DEF Next, WriterStep, ReaderStep, SyncerStep

-----------------------------------------------------------------------------
(* Slots *)

\* Ends and starts of slots are numbers, and a slot is not empty.
LEMMA SlotNumbers ==
  \A e \in Entry \cup WriterState :
    e.offset \in Nat /\ e.len \in Nat /\ 1 <= e.len /\ EndOf(e) = e.offset + e.len
<1>1. \A e \in Entry \cup WriterState : e.offset \in Offset /\ e.len \in Len_s
  BY DEF Entry, WriterState
<1> QED BY <1>1, SegOfOffset, LenIsPositive DEF EndOf

\* A step that makes no new slot, and does not move the cursor below one, keeps
\* SlotInv.
LEMMA OldSlots ==
  ASSUME TypeOK, TypeOK', SlotInv,
         \A i \in DOMAIN index' : index'[i] \in Entry =>
           /\ i \in DOMAIN index /\ index[i] \in Entry
           /\ index'[i].offset = index[i].offset /\ index'[i].len = index[i].len
           /\ EndOf(index[i]) <= nextOffset'
         , \A t \in Writer : w'[t] \in WriterState =>
           /\ w[t] \in WriterState
           /\ w'[t].offset = w[t].offset /\ w'[t].len = w[t].len
           /\ EndOf(w[t]) <= nextOffset'
  PROVE  SlotInv'
BY DEF SlotInv, Apart, InOneSegment, EndOf

LEMMA StepSlotInv ==
  ASSUME TypeOK, TypeOK', SlotInv, ReaderInv, [Next]_vars
  PROVE  SlotInv'
<1> USE DEF alloc, table, bytes
<1>0. /\ \A i \in DOMAIN index : index[i] \in Entry => EndOf(index[i]) <= nextOffset
      /\ \A t \in Writer : w[t] \in WriterState => EndOf(w[t]) <= nextOffset
  BY DEF SlotInv
<1>1. ASSUME NEW t \in Writer, NEW len \in Len_s, Reserve(t, len) PROVE SlotInv'
  <2> DEFINE offset == Slot(nextOffset, len)
             new == [pc |-> "reserved", offset |-> offset, len |-> len]
  <2>1. /\ nextOffset \in Nat /\ len \in Nat /\ 1 <= len
        /\ offset \in Nat /\ nextOffset <= offset
        /\ SegOf(offset) = SegOf(offset + len - 1)
    <3>1. nextOffset \in Nat
      BY LimitsAreNat, SizesArePositive DEF TypeOK
    <3> QED BY <3>1, SlotFits, LenIsPositive
  <2> HIDE DEF offset
  <2>2. /\ nextOffset' = offset + len /\ w' = [w EXCEPT ![t] = new]
        /\ index' = index
    BY <1>1 DEF Reserve, offset
  <2>3. /\ w'[t] = new /\ \A u \in Writer \ {t} : w'[u] = w[u]
    BY <2>2 DEF TypeOK
  <2>4. EndOf(new) = nextOffset' /\ InOneSegment(new)
    BY <2>1, <2>2 DEF EndOf, InOneSegment
  <2>5. \A i \in DOMAIN index : index[i] \in Entry =>
          EndOf(index[i]) <= nextOffset' /\ Apart(index[i], new)
    BY <1>0, <2>1, <2>2, SlotNumbers DEF Apart
  <2>6. \A u \in Writer : w[u] \in WriterState =>
          EndOf(w[u]) <= nextOffset' /\ Apart(w[u], new) /\ Apart(new, w[u])
    BY <1>0, <2>1, <2>2, SlotNumbers DEF Apart
  <2> HIDE DEF new
  <2> QED BY <2>1, <2>2, <2>3, <2>4, <2>5, <2>6 DEF SlotInv
<1>2. ASSUME NEW t \in Writer, WriterAcquire(t) \/ Copy(t) \/ MarkDirty(t) PROVE SlotInv'
  <2>1. /\ index' = index /\ nextOffset' = nextOffset
        /\ \A u \in Writer : w'[u] \in WriterState =>
             w[u] \in WriterState /\ w'[u].offset = w[u].offset /\ w'[u].len = w[u].len
    BY <1>2 DEF WriterAcquire, Copy, MarkDirty, TypeOK, WriterState, WriterIdle
  <2> QED BY <1>0, <2>1, OldSlots
<1>3. ASSUME NEW t \in Writer, Publish(t) PROVE SlotInv'
  <2> DEFINE new == [offset |-> w[t].offset, len |-> w[t].len, state |-> "unverified"]
             n == Len(index) + 1
  <2>1. w[t] \in WriterState /\ EndOf(new) = EndOf(w[t]) /\ new.offset = w[t].offset
    BY <1>3 DEF TypeOK, Publish, WriterIdle, EndOf
  <2>2. /\ index' = Append(index, new) /\ nextOffset' = nextOffset
        /\ w' = [w EXCEPT ![t] = WriterIdle]
    BY <1>3 DEF Publish
  <2> HIDE DEF new
  <2>3. /\ DOMAIN index' = DOMAIN index \cup {n} /\ n \notin DOMAIN index
        /\ index'[n] = new /\ \A i \in DOMAIN index : index'[i] = index[i]
    BY <2>2 DEF TypeOK
  <2>4. /\ \A u \in Writer : w'[u] \in WriterState => u # t /\ w'[u] = w[u]
    BY <2>2 DEF TypeOK, WriterState, WriterIdle
  <2>5. /\ \A i \in DOMAIN index : index[i] \in Entry =>
             Apart(index[i], new) /\ Apart(new, index[i])
        /\ \A u \in Writer \ {t} : w[u] \in WriterState => Apart(new, w[u])
        /\ EndOf(new) <= nextOffset /\ InOneSegment(new)
    BY <2>1 DEF SlotInv, Apart, InOneSegment
  <2> HIDE DEF n
  <2> QED BY <2>2, <2>3, <2>4, <2>5 DEF SlotInv
<1>4. ASSUME NEW t \in Reader, Read(t) PROVE SlotInv'
  <2>1. r[t] \in ReaderState /\ index[r[t].id] \in Entry
    BY <1>4 DEF TypeOK, Read, ReaderInv
  <2>2. /\ nextOffset' = nextOffset /\ w' = w
        /\ \A i \in DOMAIN index' : index'[i] \in Entry =>
             /\ i \in DOMAIN index /\ index[i] \in Entry
             /\ index'[i].offset = index[i].offset /\ index'[i].len = index[i].len
    BY <1>4, <2>1 DEF TypeOK, Read, Entry
  <2> QED BY <1>0, <2>2, OldSlots
<1>5. ASSUME NEW named \in SUBSET DOMAIN index, Reopen(named) PROVE SlotInv'
  <2>1. \A i \in named : index[i] \in Entry /\ EndOf(index[i]) <= nextOffset'
    BY <1>5, EntriesAreNotHoles DEF Reopen, TypeOK
  <2>2. \A t \in Writer : w'[t] \notin WriterState
    BY <1>5 DEF Reopen, WriterState, WriterIdle
  <2>3. \A i \in DOMAIN index' : index'[i] \in Entry =>
          i \in named /\ index'[i] = [index[i] EXCEPT !.state = "unverified"]
    BY <1>5, EntriesAreNotHoles DEF Reopen, IsHole, Hole
  <2>4. \A i \in named :
          LET e == [index[i] EXCEPT !.state = "unverified"] IN
          e.offset = index[i].offset /\ e.len = index[i].len
    BY <2>1 DEF Entry
  <2> QED BY <2>1, <2>2, <2>3, <2>4, OldSlots
<1>6. CASE UNCHANGED <<index, w, nextOffset>>
  BY <1>0, <1>6, OldSlots
<1> QED
  BY <1>1, <1>2, <1>3, <1>4, <1>5, <1>6
     DEF Next, WriterStep, ReaderStep, SyncerStep, Lookup, ReaderAcquire,
         ReleaseSegment, SyncBegin, SyncFlush, SyncData, SyncFails,
         ReserveExternal, vars

-----------------------------------------------------------------------------
(* Readers and written bytes *)

LEMMA StepReaderInv ==
  ASSUME TypeOK, TypeOK', ReaderInv, [Next]_vars
  PROVE  ReaderInv'
<1> USE DEF alloc, table, bytes
<1>1. ASSUME NEW t \in Reader, NEW id \in DOMAIN index, Lookup(t, id) PROVE ReaderInv'
  <2>1. index[id] \in Entry
    BY <1>1 DEF TypeOK, Lookup, Hole
  <2> QED BY <1>1, <2>1 DEF TypeOK, ReaderInv, Lookup
<1>2. ASSUME NEW t \in Reader, ReaderAcquire(t) \/ ReleaseSegment(t) PROVE ReaderInv'
  <2>1. ASSUME NEW u \in Reader, r'[u] \in ReaderState
        PROVE  /\ r[u] \in ReaderState
               /\ r'[u].id = r[u].id /\ r'[u].offset = r[u].offset
    <3>1. CASE u # t
      BY <1>2, <2>1, <3>1 DEF TypeOK, ReaderAcquire, ReleaseSegment
    <3>2. CASE u = t /\ ReleaseSegment(t)
      BY <2>1, <3>2 DEF TypeOK, ReleaseSegment, ReaderState, ReaderIdle
    <3>3. CASE u = t /\ ReaderAcquire(t)
      <4>1. r[t] \in ReaderState
        BY <3>3 DEF TypeOK, ReaderAcquire, ReaderState
      <4> QED BY <2>1, <3>3, <4>1 DEF TypeOK, ReaderAcquire, ReaderState, ReaderIdle
    <3> QED BY <1>2, <3>1, <3>2, <3>3
  <2>2. index' = index
    BY <1>2 DEF ReaderAcquire, ReleaseSegment
  <2> QED BY <2>1, <2>2 DEF ReaderInv
<1>3. ASSUME NEW t \in Reader, Read(t) PROVE ReaderInv'
  <2>1. r[t] \in ReaderState /\ index[r[t].id] \in Entry /\ r[t].id \in DOMAIN index
    BY <1>3 DEF TypeOK, Read, ReaderInv
  <2>2. \A i \in DOMAIN index : index[i] \in Entry =>
          /\ i \in DOMAIN index' /\ index'[i] \in Entry
          /\ index'[i].offset = index[i].offset
    BY <1>3, <2>1 DEF TypeOK, Read, Entry
  <2>3. \A u \in Reader : r'[u] \in ReaderState => r'[u] = r[u]
    BY <1>3 DEF TypeOK, Read, ReaderState, ReaderIdle
  <2> QED BY <2>2, <2>3 DEF ReaderInv
<1>4. ASSUME NEW t \in Writer, Publish(t) PROVE ReaderInv'
  <2>1. \A i \in DOMAIN index : i \in DOMAIN index' /\ index'[i] = index[i]
    BY <1>4 DEF Publish, TypeOK
  <2> QED BY <1>4, <2>1 DEF ReaderInv, Publish
<1>5. ASSUME NEW named \in SUBSET DOMAIN index, Reopen(named) PROVE ReaderInv'
  BY <1>5 DEF Reopen, ReaderInv, ReaderState, ReaderIdle
<1>6. CASE UNCHANGED <<index, r>>
  BY <1>6 DEF ReaderInv
<1> QED
  BY <1>1, <1>2, <1>3, <1>4, <1>5, <1>6
     DEF Next, WriterStep, ReaderStep, SyncerStep, Reserve, WriterAcquire, Copy,
         MarkDirty, SyncBegin, SyncFlush, SyncData, SyncFails, ReserveExternal, vars

\* Bytes that were written stay written, except through a crash.
LEMMA WrittenGrows ==
  ASSUME TypeOK, [Next]_vars, \A named \in SUBSET DOMAIN index : ~Reopen(named)
  PROVE  Written \subseteq Written'
<1> USE DEF alloc, table, bytes, Written
<1>1. ASSUME NEW t \in Writer, WriterAcquire(t) PROVE Written \subseteq Written'
  <2>1. SegOf(w[t].offset) \in Segment
    BY <1>1, SegOfOffset DEF TypeOK, WriterAcquire, WriterIdle, WriterState
  <2>2. viewed' \cup started' = viewed \cup started
    BY <1>1, <2>1, AcquiresMaps DEF TypeOK, WriterAcquire
  <2> QED BY <1>1, <2>2 DEF WriterAcquire
<1>2. ASSUME NEW t \in Reader, ReaderAcquire(t) PROVE Written \subseteq Written'
  <2>1. SegOf(r[t].offset) \in Segment
    BY <1>2, SegOfOffset DEF TypeOK, ReaderAcquire, ReaderState
  <2>2. viewed' \cup started' = viewed \cup started
    BY <1>2, <2>1, AcquiresMaps DEF TypeOK, ReaderAcquire
  <2> QED BY <1>2, <2>2 DEF ReaderAcquire
<1>3. ASSUME NEW n \in External, ReserveExternal(n) PROVE Written \subseteq Written'
  <2>1. viewed' \cup started' = viewed \cup started
    BY <1>3, ReserveExternalMaps DEF TypeOK
  <2> QED BY <1>3, <2>1 DEF ReserveExternal
<1>4. ASSUME NEW t \in Writer, Copy(t) PROVE Written \subseteq Written'
  BY <1>4 DEF Copy
<1>5. ASSUME NEW t \in Syncer, NEW seg \in Segment, SyncFlush(t, seg)
      PROVE  Written \subseteq Written'
  BY <1>5 DEF SyncFlush
<1>6. ASSUME NEW t \in Syncer, SyncData(t) PROVE Written \subseteq Written'
  BY <1>6 DEF SyncData
<1>7. CASE UNCHANGED bytes
  BY <1>7
<1> QED
  BY <1>1, <1>2, <1>3, <1>4, <1>5, <1>6, <1>7
     DEF Next, WriterStep, ReaderStep, SyncerStep, Reserve, MarkDirty, Publish,
         Lookup, Read, ReleaseSegment, SyncBegin, SyncFails, vars

LEMMA StepWrittenInv ==
  ASSUME TypeOK, TypeOK', ReaderInv, WrittenInv, SyncInv, [Next]_vars
  PROVE  WrittenInv'
<1> USE DEF alloc, table, bytes
<1>1. ASSUME NEW named \in SUBSET DOMAIN index, Reopen(named) PROVE WrittenInv'
  <2>1. \A i \in named : index[i] \in Entry /\ index[i].offset \in durable'
    BY <1>1, EntriesAreNotHoles DEF Reopen, TypeOK, SyncInv
  <2>2. \A i \in DOMAIN index' : index'[i] \in Entry =>
          i \in named /\ index'[i] = [index[i] EXCEPT !.state = "unverified"]
    BY <1>1, EntriesAreNotHoles DEF Reopen, IsHole, Hole
  <2>3. \A i \in named :
          LET e == [index[i] EXCEPT !.state = "unverified"] IN
          e.offset = index[i].offset /\ e.state = "unverified"
    BY <2>1 DEF Entry
  <2>4. \A t \in Writer : w'[t] \notin WriterState
    BY <1>1 DEF Reopen, WriterState, WriterIdle
  <2> QED BY <2>1, <2>2, <2>3, <2>4 DEF WrittenInv, Written
<1>2. CASE \A named \in SUBSET DOMAIN index : ~Reopen(named)
  <2>1. Written \subseteq Written'
    BY <1>2, WrittenGrows
  <2>2. ASSUME NEW t \in Writer, Copy(t) PROVE WrittenInv'
    <3>1. w[t].offset \in Written'
      BY <2>2 DEF Copy, Written
    <3> QED BY <2>1, <2>2, <3>1 DEF TypeOK, WrittenInv, Copy, WriterState, WriterIdle
  <2>3. ASSUME NEW t \in Writer,
               \/ \E len \in Len_s : Reserve(t, len)
               \/ WriterAcquire(t) \/ MarkDirty(t)
        PROVE  WrittenInv'
    BY <2>1, <2>3 DEF TypeOK, WrittenInv, Reserve, WriterAcquire, MarkDirty,
                      WriterState, WriterIdle
  <2>4. ASSUME NEW t \in Writer, Publish(t) PROVE WrittenInv'
    <3>1. w[t] \in WriterState /\ w[t].offset \in Written
      BY <2>4 DEF TypeOK, Publish, WrittenInv, WriterIdle
    <3>2. \A u \in Writer : w'[u] \in WriterState => w'[u] = w[u]
      BY <2>4 DEF TypeOK, Publish, WriterState, WriterIdle
    <3>3. \A i \in DOMAIN index' :
            \/ i \in DOMAIN index /\ index'[i] = index[i]
            \/ index'[i].offset = w[t].offset /\ index'[i].state = "unverified"
      BY <2>4 DEF TypeOK, Publish
    <3> QED BY <2>1, <3>1, <3>2, <3>3 DEF WrittenInv
  <2>5. ASSUME NEW t \in Reader, Read(t) PROVE WrittenInv'
    <3>1. r[t] \in ReaderState /\ r[t].id \in DOMAIN index
          /\ index[r[t].id] \in Entry /\ r[t].offset \in Written
      BY <2>5 DEF TypeOK, Read, ReaderInv, WrittenInv
    <3>2. index' = index \/ index' = [index EXCEPT ![r[t].id].state = "verified"]
      BY <2>5, <3>1 DEF Read
    <3>3. \A i \in DOMAIN index' : index'[i] \in Entry =>
            /\ i \in DOMAIN index /\ index[i] \in Entry
            /\ index'[i].offset = index[i].offset
            /\ index'[i].state \in {index[i].state, "verified"}
      <4>1. CASE index' = index
        BY <4>1
      <4>2. CASE index' = [index EXCEPT ![r[t].id].state = "verified"]
        <5>1. /\ DOMAIN index' = DOMAIN index
              /\ \A i \in DOMAIN index \ {r[t].id} : index'[i] = index[i]
              /\ index'[r[t].id] = [index[r[t].id] EXCEPT !.state = "verified"]
          BY <3>1, <4>2 DEF TypeOK
        <5>2. /\ index'[r[t].id].offset = index[r[t].id].offset
              /\ index'[r[t].id].state = "verified"
          BY <3>1, <5>1 DEF Entry
        <5> QED BY <3>1, <5>1, <5>2
      <4> QED BY <3>2, <4>1, <4>2
    <3> QED BY <2>1, <2>5, <3>3 DEF WrittenInv, Read
  <2>6. CASE UNCHANGED <<index, w>>
    BY <2>1, <2>6 DEF WrittenInv
  <2> QED
    BY <1>2, <2>2, <2>3, <2>4, <2>5, <2>6
       DEF Next, WriterStep, ReaderStep, SyncerStep, Lookup, ReaderAcquire,
           ReleaseSegment, SyncBegin, SyncFlush, SyncData, SyncFails,
           ReserveExternal, vars
<1> QED BY <1>1, <1>2

-----------------------------------------------------------------------------
(* References and mappings *)

LEMMA HeldByMembers ==
  ASSUME TypeOK, NEW R \in SUBSET Reader
  PROVE  /\ \A t \in Writer : w[t] \in WriterState /\ w[t].pc \in {"mapped", "copied"} =>
              SegOf(w[t].offset) \in HeldBy(R)
         /\ \A t \in R : r[t].cache \in HeldBy(R)
         /\ \A t \in Syncer : s[t] \in SyncerState => s[t].maps \subseteq HeldBy(R)
BY DEF HeldBy, TypeOK, SyncerState

\* The property follows from the invariant.
LEMMA HeldInvImplies ==
  ASSUME TypeOK, HeldInv
  PROVE  UsedSegmentsStayMapped
<1>1. \A t \in Writer : w[t].pc \in {"mapped", "copied"} => w[t] \in WriterState
  BY DEF TypeOK, WriterIdle
<1>2. \A t \in Syncer : s[t].pc = "flushing" => s[t] \in SyncerState
  BY DEF TypeOK, SyncerIdle
<1> QED BY <1>1, <1>2 DEF UsedSegmentsStayMapped, Guarded, HeldBy, HeldInv

LEMMA StepHeldInv ==
  ASSUME TypeOK, TypeOK', HeldInv, [Next]_vars
  PROVE  HeldInv'
<1> USE DEF alloc, table, bytes
<1>1. ASSUME NEW t \in Writer, WriterAcquire(t) PROVE HeldInv'
  <2>1. w[t] \in WriterState /\ SegOf(w[t].offset) \in Segment
    BY <1>1, SegOfOffset DEF TypeOK, WriterAcquire, WriterIdle, WriterState
  <2>2. /\ mapped \cap Guarded \subseteq mapped'
        /\ w'[t] # WriterIdle => SegOf(w[t].offset) \in mapped'
    BY <1>1, <2>1, AcquiresMaps DEF TypeOK, WriterAcquire
  <2>3. /\ w'[t] \in WriterState => w'[t].offset = w[t].offset
        /\ \A u \in Writer \ {t} : w'[u] = w[u]
        /\ r' = r /\ s' = s
    BY <1>1, <2>1 DEF TypeOK, WriterAcquire, WriterState, WriterIdle
  <2>4. WriterIdle \notin WriterState
    BY DEF WriterIdle, WriterState
  <2> QED BY <2>2, <2>3, <2>4, HeldByMembers DEF HeldInv, Guarded
<1>2. ASSUME NEW t \in Reader, ReaderAcquire(t) PROVE HeldInv'
  <2>1. r[t] \in ReaderState /\ SegOf(r[t].offset) \in Segment
    BY <1>2, SegOfOffset DEF TypeOK, ReaderAcquire, ReaderState
  <2>2. /\ mapped \cap HeldBy(Reader \ {t}) \subseteq mapped'
        /\ r'[t].cache # NoSegment => r'[t].cache \in mapped'
    <3>1. CASE r[t].cache = SegOf(r[t].offset)
      BY <1>2, <2>1, <3>1 DEF TypeOK, ReaderAcquire, ReaderState, HeldInv
    <3>2. CASE r[t].cache # SegOf(r[t].offset)
      BY <1>2, <2>1, <3>2, AcquiresMaps
         DEF TypeOK, ReaderAcquire, ReaderState, ReaderIdle
    <3> QED BY <3>1, <3>2
  <2>3. w' = w /\ s' = s /\ \A u \in Reader \ {t} : r'[u] = r[u]
    BY <1>2 DEF TypeOK, ReaderAcquire
  <2>4. /\ \A u \in Writer : w[u] \in WriterState /\ w[u].pc \in {"mapped", "copied"} =>
              SegOf(w[u].offset) \in HeldBy(Reader \ {t})
        /\ \A u \in Reader \ {t} : r[u].cache \in HeldBy(Reader \ {t})
        /\ \A u \in Syncer : s[u] \in SyncerState => s[u].maps \subseteq HeldBy(Reader \ {t})
    BY HeldByMembers
  <2> QED BY <2>2, <2>3, <2>4 DEF HeldInv
<1>3. ASSUME NEW n \in External, ReserveExternal(n) PROVE HeldInv'
  <2>1. mapped \cap Guarded \subseteq mapped'
    BY <1>3, ReserveExternalMaps DEF TypeOK
  <2> QED BY <1>3, <2>1, HeldByMembers DEF HeldInv, Guarded, ReserveExternal
<1>4. ASSUME NEW t \in Writer,
             \/ \E len \in Len_s : Reserve(t, len)
             \/ Copy(t) \/ MarkDirty(t) \/ Publish(t)
      PROVE  HeldInv'
  <2>1. CASE \E len \in Len_s : Reserve(t, len)
    BY <2>1 DEF TypeOK, HeldInv, Reserve, WriterState, WriterIdle
  <2>2. CASE Copy(t)
    <3>1. /\ w[t] \in WriterState /\ w[t].pc = "mapped"
          /\ w'[t].offset = w[t].offset
          /\ \A u \in Writer \ {t} : w'[u] = w[u]
          /\ mapped' = mapped /\ r' = r /\ s' = s
      BY <2>2 DEF TypeOK, Copy, WriterState, WriterIdle
    <3> QED BY <3>1 DEF HeldInv, WriterState, WriterIdle
  <2>3. CASE MarkDirty(t)
    BY <2>3 DEF TypeOK, HeldInv, MarkDirty, WriterState, WriterIdle
  <2>4. CASE Publish(t)
    BY <2>4 DEF TypeOK, HeldInv, Publish, WriterState, WriterIdle
  <2> QED BY <1>4, <2>1, <2>2, <2>3, <2>4
<1>5. ASSUME NEW t \in Reader,
             \/ \E id \in DOMAIN index : Lookup(t, id)
             \/ Read(t) \/ ReleaseSegment(t)
      PROVE  HeldInv'
  <2>1. CASE \E id \in DOMAIN index : Lookup(t, id)
    BY <2>1 DEF TypeOK, HeldInv, Lookup, ReaderState
  <2>2. CASE Read(t)
    BY <2>2 DEF TypeOK, HeldInv, Read, ReaderState, ReaderIdle
  <2>3. CASE ReleaseSegment(t)
    BY <2>3 DEF TypeOK, HeldInv, ReleaseSegment, ReaderState, ReaderIdle
  <2> QED BY <1>5, <2>1, <2>2, <2>3
<1>6. ASSUME NEW t \in Syncer,
             \/ SyncBegin(t) \/ SyncData(t) \/ SyncFails(t)
             \/ \E seg \in Segment : SyncFlush(t, seg)
      PROVE  HeldInv'
  <2>1. CASE SyncBegin(t)
    BY <2>1 DEF TypeOK, HeldInv, SyncBegin, SyncerState
  <2>2. CASE SyncData(t)
    BY <2>2 DEF TypeOK, HeldInv, SyncData, SyncerState, SyncerIdle
  <2>3. CASE SyncFails(t)
    BY <2>3 DEF TypeOK, HeldInv, SyncFails, SyncerState, SyncerIdle
  <2>4. CASE \E seg \in Segment : SyncFlush(t, seg)
    <3>1. PICK seg \in Segment : SyncFlush(t, seg)
      BY <2>4
    <3>2. /\ s[t] \in SyncerState
          /\ s'[t].todo \subseteq s[t].todo
          /\ s'[t].maps \subseteq s[t].maps /\ s'[t].todo \subseteq s'[t].maps
          /\ s'[t].cleared = s[t].cleared
          /\ \A u \in Syncer \ {t} : s'[u] = s[u]
          /\ mapped' = mapped /\ w' = w /\ r' = r
      BY <3>1 DEF TypeOK, HeldInv, SyncFlush, SyncerState, SyncerIdle
    <3> QED BY <3>2 DEF HeldInv
  <2> QED BY <1>6, <2>1, <2>2, <2>3, <2>4
<1>7. ASSUME NEW named \in SUBSET DOMAIN index, Reopen(named) PROVE HeldInv'
  BY <1>7 DEF HeldInv, Reopen, WriterState, WriterIdle, ReaderIdle, SyncerState,
              SyncerIdle
<1>8. CASE UNCHANGED vars
  BY <1>8 DEF HeldInv, vars
<1> QED
  BY <1>1, <1>2, <1>3, <1>4, <1>5, <1>6, <1>7, <1>8
     DEF Next, WriterStep, ReaderStep, SyncerStep

-----------------------------------------------------------------------------
(* Bytes that are only in a mapping *)

\* Eviction unmaps no segment that has bytes only in its mapping.
LEMMA ViewedStayMapped ==
  ASSUME TypeOK, HeldInv, ViewedInv, NEW R \in SUBSET Reader,
         viewed' \subseteq viewed,
         \A o \in viewed' : SegOf(o) \in mapped \cap (dirty \cup HeldBy(R))
                            => SegOf(o) \in mapped'
  PROVE  \A o \in viewed' : SegOf(o) \in mapped'
<1> SUFFICES ASSUME NEW o \in viewed'
             PROVE  SegOf(o) \in dirty \cup HeldBy(R)
  BY DEF ViewedInv
<1>1. Covered(o)
  BY DEF ViewedInv
<1> QED BY <1>1, HeldByMembers DEF Covered, HeldInv

LEMMA StepViewedInv ==
  ASSUME TypeOK, TypeOK', HeldInv, ViewedInv, [Next]_vars
  PROVE  ViewedInv'
<1> USE DEF alloc, table, bytes
<1>1. ASSUME NEW t \in Writer, WriterAcquire(t) PROVE ViewedInv'
  <2>1. w[t] \in WriterState /\ SegOf(w[t].offset) \in Segment /\ w[t].pc = "reserved"
    BY <1>1, SegOfOffset DEF TypeOK, WriterAcquire, WriterIdle, WriterState
  <2>2. /\ viewed' \subseteq viewed
        /\ \A o \in viewed' : SegOf(o) \in mapped \cap (dirty \cup Guarded)
                            => SegOf(o) \in mapped'
    BY <1>1, <2>1, AcquiresMaps DEF TypeOK, WriterAcquire
  <2>3. \A o \in viewed' : SegOf(o) \in mapped'
    BY <2>2, ViewedStayMapped DEF Guarded
  <2>4. dirty' = dirty /\ s' = s /\ \A u \in Writer : u # t => w'[u] = w[u]
    BY <1>1 DEF TypeOK, WriterAcquire
  <2> QED BY <2>1, <2>2, <2>3, <2>4 DEF ViewedInv, Covered
<1>2. ASSUME NEW t \in Reader, ReaderAcquire(t) PROVE ViewedInv'
  <2>1. r[t] \in ReaderState /\ SegOf(r[t].offset) \in Segment
    BY <1>2, SegOfOffset DEF TypeOK, ReaderAcquire, ReaderState
  <2>2. /\ viewed' \subseteq viewed
        /\ \A o \in viewed' : SegOf(o) \in mapped \cap (dirty \cup HeldBy(Reader \ {t}))
                            => SegOf(o) \in mapped'
    BY <1>2, <2>1, AcquiresMaps DEF TypeOK, ReaderAcquire
  <2>3. \A o \in viewed' : SegOf(o) \in mapped'
    BY <2>2, ViewedStayMapped
  <2> QED BY <1>2, <2>2, <2>3 DEF ViewedInv, Covered, ReaderAcquire
<1>3. ASSUME NEW n \in External, ReserveExternal(n) PROVE ViewedInv'
  <2>1. /\ viewed' \subseteq viewed
        /\ \A o \in viewed' : SegOf(o) \in mapped \cap (dirty \cup Guarded)
                            => SegOf(o) \in mapped'
    BY <1>3, ReserveExternalMaps DEF TypeOK
  <2>2. \A o \in viewed' : SegOf(o) \in mapped'
    BY <2>1, ViewedStayMapped DEF Guarded
  <2> QED BY <1>3, <2>1, <2>2 DEF ViewedInv, Covered, ReserveExternal
<1>4. ASSUME NEW t \in Writer, Copy(t) PROVE ViewedInv'
  <2>1. w[t] \in WriterState /\ SegOf(w[t].offset) \in mapped /\ w[t].pc = "mapped"
    BY <1>4 DEF TypeOK, Copy, WriterIdle, HeldInv
  <2>2. /\ w'[t] \in WriterState /\ w'[t].pc = "copied" /\ w'[t].offset = w[t].offset
        /\ \A u \in Writer : u # t => w'[u] = w[u]
        /\ mapped' = mapped /\ dirty' = dirty /\ s' = s
        /\ viewed' = viewed \cup {w[t].offset}
    BY <1>4, <2>1 DEF TypeOK, Copy, WriterState
  <2>3. \A o \in viewed : Covered(o)'
    BY <2>1, <2>2 DEF ViewedInv, Covered
  <2> QED BY <2>1, <2>2, <2>3 DEF ViewedInv, Covered
<1>5. ASSUME NEW t \in Writer, MarkDirty(t) PROVE ViewedInv'
  <2>1. /\ dirty' = dirty \cup {SegOf(w[t].offset)}
        /\ \A u \in Writer : u # t => w'[u] = w[u]
        /\ viewed' = viewed /\ mapped' = mapped /\ s' = s
    BY <1>5 DEF TypeOK, MarkDirty, MarkedDirty
  <2>2. ASSUME NEW o \in viewed PROVE Covered(o)'
    <3>1. Covered(o)
      BY DEF ViewedInv
    <3>2. CASE SegOf(o) = SegOf(w[t].offset)
      BY <2>1, <3>2 DEF Covered
    <3>3. CASE SegOf(o) # SegOf(w[t].offset)
      BY <2>1, <3>1, <3>3 DEF Covered
    <3> QED BY <3>2, <3>3
  <2> QED BY <2>1, <2>2 DEF ViewedInv
<1>6. ASSUME NEW t \in Writer, (\E len \in Len_s : Reserve(t, len)) \/ Publish(t)
      PROVE  ViewedInv'
  <2>1. /\ w[t] \in WriterState => w[t].pc # "copied"
        /\ \A u \in Writer : u # t => w'[u] = w[u]
        /\ UNCHANGED <<viewed, mapped, dirty, s>>
    BY <1>6 DEF TypeOK, Reserve, Publish, WriterState
  <2> QED BY <2>1 DEF ViewedInv, Covered
<1>7. ASSUME NEW t \in Syncer, SyncBegin(t) PROVE ViewedInv'
  <2>1. /\ s'[t] \in SyncerState /\ s'[t].todo = dirty \cap mapped
        /\ \A u \in Syncer : s[u] \notin SyncerState
        /\ UNCHANGED <<viewed, mapped, w>>
    <3>1. \A u \in Syncer : s[u] \notin SyncerState
      BY <1>7 DEF SyncBegin, SyncLock, SyncerState
    <3>2. s'[t].todo = dirty \cap mapped /\ s'[t].pc = "flushing"
      BY <1>7 DEF SyncBegin, TypeOK
    <3>3. s'[t] \in SyncerState
      BY <3>2 DEF TypeOK, SyncerIdle
    <3> QED BY <1>7, <3>1, <3>2, <3>3 DEF SyncBegin
  <2> QED BY <2>1 DEF ViewedInv, Covered
<1>8. ASSUME NEW t \in Syncer, NEW seg \in Segment, SyncFlush(t, seg) PROVE ViewedInv'
  <2>1. s[t] \in SyncerState
    BY <1>8 DEF TypeOK, SyncFlush, SyncerIdle
  <2>2. /\ viewed' = viewed \ {o \in viewed : SegOf(o) = seg}
        /\ s'[t] \in SyncerState /\ s'[t].todo = s[t].todo \ {seg}
        /\ \A u \in Syncer : u # t => s'[u] = s[u]
        /\ UNCHANGED <<mapped, dirty, w>>
    BY <1>8, <2>1 DEF TypeOK, SyncFlush, SyncerState
  <2>3. ASSUME NEW o \in viewed' PROVE Covered(o)'
    <3>1. Covered(o) /\ SegOf(o) # seg
      BY <2>2 DEF ViewedInv
    <3> QED BY <2>2, <3>1 DEF Covered
  <2> QED BY <2>2, <2>3 DEF ViewedInv
<1>9. ASSUME NEW t \in Syncer, SyncData(t) PROVE ViewedInv'
  <2>1. s[t].todo = {} /\ \A u \in Syncer : u # t => s'[u] = s[u]
    BY <1>9 DEF TypeOK, SyncData
  <2> QED BY <1>9, <2>1 DEF ViewedInv, Covered, SyncData
<1>10. ASSUME NEW t \in Syncer, SyncFails(t) PROVE ViewedInv'
  <2>1. s[t] \in SyncerState
    BY <1>10 DEF TypeOK, SyncFails, SyncerIdle
  <2>2. /\ dirty' = dirty \cup s[t].cleared
        /\ \A u \in Syncer : u # t => s'[u] = s[u]
        /\ UNCHANGED <<viewed, mapped, w>>
    BY <1>10 DEF TypeOK, SyncFails
  <2>3. s[t].todo \subseteq dirty'
    BY <2>1, <2>2 DEF HeldInv
  <2> QED BY <2>2, <2>3 DEF ViewedInv, Covered
<1>11. ASSUME NEW named \in SUBSET DOMAIN index, Reopen(named) PROVE ViewedInv'
  BY <1>11 DEF Reopen, ViewedInv
<1>12. CASE UNCHANGED <<viewed, mapped, dirty, w, s>>
  BY <1>12 DEF ViewedInv, Covered
<1> QED
  BY <1>1, <1>2, <1>3, <1>4, <1>5, <1>6, <1>7, <1>8, <1>9, <1>10, <1>11, <1>12
     DEF Next, WriterStep, ReaderStep, SyncerStep, Lookup, Read, ReleaseSegment, vars

-----------------------------------------------------------------------------
(* Durability *)

\* Bytes only move on: from a mapping to write-back to the disk.
LEMMA SyncInvMoves ==
  ASSUME SyncInv, durable \subseteq durable',
         durable \cup started \subseteq durable' \cup started',
         viewed \subseteq viewed' \cup started' \cup durable',
         acked' = acked, s' = s
  PROVE  SyncInv'
BY DEF SyncInv

\* When a sync begins, each published chunk is flushed or in a dirty segment.
LEMMA SyncBeginCovers ==
  ASSUME IInv, NEW t \in Syncer, SyncBegin(t), NEW o \in Published
  PROVE  o \in durable \cup started \/ (o \in viewed /\ SegOf(o) \in dirty \cap mapped)
<1>1. PICK i \in DOMAIN index : index[i] \in Entry /\ index[i].offset = o
  BY EntriesAreNotHoles DEF Published, Offsets, IInv, TypeOK
<1>2. o \in Written
  BY <1>1 DEF IInv, WrittenInv
<1>3. CASE o \in viewed
  <2>1. SegOf(o) \in mapped /\ Covered(o)
    BY <1>3 DEF IInv, ViewedInv
  <2>2. \A u \in Syncer : s[u] \notin SyncerState
    BY DEF SyncBegin, SyncLock, SyncerState
  <2>3. ASSUME NEW u \in Writer, w[u] \in WriterState, w[u].offset = o PROVE FALSE
    <3>1. Apart(index[i], w[u])
      BY <1>1, <2>3 DEF IInv, SlotInv
    <3>2. /\ o \in Nat /\ index[i].len \in Nat /\ 1 <= index[i].len
          /\ w[u].len \in Nat /\ 1 <= w[u].len
          /\ EndOf(index[i]) = o + index[i].len /\ EndOf(w[u]) = o + w[u].len
      BY <1>1, <2>3, SlotNumbers
    <3> QED BY <1>1, <2>3, <3>1, <3>2 DEF Apart
  <2> QED BY <1>3, <2>1, <2>2, <2>3 DEF Covered
<1> QED BY <1>2, <1>3 DEF Written

LEMMA StepSyncInv ==
  ASSUME IInv, TypeOK', [Next]_vars
  PROVE  SyncInv'
<1> USE DEF alloc, table, bytes
<1>0. TypeOK /\ SyncInv /\ HeldInv
  BY DEF IInv
<1>1. ASSUME NEW t \in Writer, WriterAcquire(t) PROVE SyncInv'
  <2>1. SegOf(w[t].offset) \in Segment
    BY <1>0, <1>1, SegOfOffset DEF TypeOK, WriterAcquire, WriterIdle, WriterState
  <2>2. viewed' \cup started' = viewed \cup started /\ started \subseteq started'
    BY <1>0, <1>1, <2>1, AcquiresMaps DEF TypeOK, WriterAcquire
  <2> QED BY <1>0, <1>1, <2>2, SyncInvMoves DEF WriterAcquire
<1>2. ASSUME NEW t \in Reader, ReaderAcquire(t) PROVE SyncInv'
  <2>1. SegOf(r[t].offset) \in Segment
    BY <1>0, <1>2, SegOfOffset DEF TypeOK, ReaderAcquire, ReaderState
  <2>2. viewed' \cup started' = viewed \cup started /\ started \subseteq started'
    BY <1>0, <1>2, <2>1, AcquiresMaps DEF TypeOK, ReaderAcquire
  <2> QED BY <1>0, <1>2, <2>2, SyncInvMoves DEF ReaderAcquire
<1>3. ASSUME NEW n \in External, ReserveExternal(n) PROVE SyncInv'
  <2>1. viewed' \cup started' = viewed \cup started /\ started \subseteq started'
    BY <1>0, <1>3, ReserveExternalMaps DEF TypeOK
  <2> QED BY <1>0, <1>3, <2>1, SyncInvMoves DEF ReserveExternal
<1>4. ASSUME NEW t \in Writer, Copy(t) PROVE SyncInv'
  BY <1>0, <1>4, SyncInvMoves DEF Copy
<1>5. ASSUME NEW t \in Syncer, SyncBegin(t) PROVE SyncInv'
  <2>1. /\ s'[t].covers = Published /\ s'[t].todo = dirty \cap mapped
        /\ \A u \in Syncer : u # t => s'[u] = s[u]
        /\ UNCHANGED <<viewed, started, durable, acked>>
    BY <1>0, <1>5 DEF SyncBegin, TypeOK
  <2>2. \A o \in Published :
          o \in durable \cup started \/ (o \in viewed /\ SegOf(o) \in dirty \cap mapped)
    BY <1>5, SyncBeginCovers
  <2> QED BY <1>0, <2>1, <2>2 DEF SyncInv
<1>6. ASSUME NEW t \in Syncer, NEW seg \in Segment, SyncFlush(t, seg) PROVE SyncInv'
  <2>1. s[t] \in SyncerState
    BY <1>0, <1>6 DEF TypeOK, SyncFlush, SyncerIdle
  <2>2. /\ viewed' = viewed \ {o \in viewed : SegOf(o) = seg}
        /\ started' = started \cup {o \in viewed : SegOf(o) = seg}
        /\ s'[t].covers = s[t].covers /\ s'[t].todo = s[t].todo \ {seg}
        /\ \A u \in Syncer : u # t => s'[u] = s[u]
        /\ UNCHANGED <<durable, acked>>
    BY <1>0, <1>6, <2>1 DEF TypeOK, SyncFlush, SyncerState
  <2>3. ASSUME NEW u \in Syncer, s'[u] \in SyncerState, NEW o \in s'[u].covers
        PROVE  o \in durable' \cup started' \/ (o \in viewed' /\ SegOf(o) \in s'[u].todo)
    <3>1. /\ s[u] \in SyncerState /\ o \in s[u].covers
          /\ s[u].todo \ {seg} \subseteq s'[u].todo
      BY <2>1, <2>2, <2>3
    <3>2. o \in durable \cup started \/ (o \in viewed /\ SegOf(o) \in s[u].todo)
      BY <1>0, <3>1 DEF SyncInv
    <3> QED BY <2>2, <3>1, <3>2
  <2> QED BY <1>0, <2>2, <2>3 DEF SyncInv
<1>7. ASSUME NEW t \in Syncer, SyncData(t) PROVE SyncInv'
  <2>1. s[t] \in SyncerState /\ s[t].todo = {}
    BY <1>0, <1>7 DEF TypeOK, SyncData, SyncerIdle
  <2>2. s[t].covers \subseteq durable \cup started
    BY <1>0, <2>1 DEF SyncInv
  <2>3. /\ durable' = durable \cup started /\ started' = {} /\ viewed' = viewed
        /\ acked' = acked \cup s[t].covers
        /\ s'[t] = SyncerIdle /\ \A u \in Syncer : u # t => s'[u] = s[u]
    BY <1>0, <1>7 DEF TypeOK, SyncData
  <2>4. s'[t] \notin SyncerState
    BY <2>3 DEF SyncerIdle, SyncerState
  <2> QED BY <1>0, <2>2, <2>3, <2>4 DEF SyncInv
<1>8. ASSUME NEW t \in Syncer, SyncFails(t) PROVE SyncInv'
  <2>1. /\ s'[t] = SyncerIdle /\ \A u \in Syncer : u # t => s'[u] = s[u]
        /\ UNCHANGED <<viewed, started, durable, acked>>
    BY <1>0, <1>8 DEF TypeOK, SyncFails
  <2>2. s'[t] \notin SyncerState
    BY <2>1 DEF SyncerIdle, SyncerState
  <2> QED BY <1>0, <2>1, <2>2 DEF SyncInv
<1>9. ASSUME NEW named \in SUBSET DOMAIN index, Reopen(named) PROVE SyncInv'
  <2>1. \A t \in Syncer : s'[t] \notin SyncerState
    BY <1>9 DEF Reopen, SyncerIdle, SyncerState
  <2>2. acked' \subseteq durable'
    BY <1>0, <1>9 DEF Reopen, SyncInv
  <2> QED BY <2>1, <2>2 DEF SyncInv
<1>10. CASE UNCHANGED <<bytes, acked, s>>
  BY <1>0, <1>10, SyncInvMoves
<1> QED
  BY <1>1, <1>2, <1>3, <1>4, <1>5, <1>6, <1>7, <1>8, <1>9, <1>10
     DEF Next, WriterStep, ReaderStep, SyncerStep, Reserve, MarkDirty, Publish,
         Lookup, Read, ReleaseSegment, vars

-----------------------------------------------------------------------------
(* The theorems *)

LEMMA InitIInv == Init => IInv
<1> SUFFICES ASSUME Init PROVE IInv
  OBVIOUS
<1>1. TypeOK
  BY InitTypeOK
<1>2. /\ \A t \in Writer : w[t] \notin WriterState
      /\ \A t \in Reader : r[t] \notin ReaderState /\ r[t].cache = NoSegment
      /\ \A t \in Syncer : s[t] \notin SyncerState
  BY DEF Init, WriterIdle, WriterState, ReaderIdle, ReaderState, SyncerIdle, SyncerState
<1>3. index = <<>> /\ viewed = {} /\ acked = {}
  BY DEF Init
<1> QED
  BY <1>1, <1>2, <1>3
     DEF IInv, SlotInv, ReaderInv, WrittenInv, HeldInv, ViewedInv, SyncInv

LEMMA StepIInv == IInv /\ [Next]_vars => IInv'
<1> SUFFICES ASSUME IInv, [Next]_vars PROVE IInv'
  OBVIOUS
<1>1. TypeOK'
  BY StepTypeOK DEF IInv
<1> QED
  BY <1>1, StepSlotInv, StepReaderInv, StepWrittenInv, StepHeldInv, StepViewedInv,
     StepSyncInv DEF IInv

\* The inductive invariant holds, whatever writers, readers and syncers do.
THEOREM StoreInv == Spec => []IInv
BY InitIInv, StepIInv, PTL DEF Spec

\* The store and its threads keep their shape, and what is allocated lies in
\* the file (struct ChunkStore).
THEOREM StoreTypeOK == Spec => []TypeOK
<1>1. IInv => TypeOK
  BY DEF IInv
<1> QED BY <1>1, StoreInv, PTL

\* A sync that returned Ok made every chunk that was visible when it began
\* durable (ChunkStore::sync), for any number of threads and segments.
THEOREM StoreSyncedIsDurable == Spec => []SyncedIsDurable
<1>1. IInv => SyncedIsDurable
  BY DEF IInv, SyncInv, SyncedIsDurable
<1> QED BY <1>1, StoreInv, PTL

\* A segment somebody uses is never unmapped (evict_locked).
THEOREM StoreUsedSegmentsStayMapped == Spec => []UsedSegmentsStayMapped
<1>1. IInv => UsedSegmentsStayMapped
  BY HeldInvImplies DEF IInv
<1> QED BY <1>1, StoreInv, PTL

\* The index never names a chunk without its bytes (commit_chunk_bytes), also
\* not after a crash (open_existing).
THEOREM StorePublishedIsWritten == Spec => []PublishedIsWritten
<1>1. IInv => PublishedIsWritten
  BY EntriesAreNotHoles DEF IInv, TypeOK, WrittenInv, PublishedIsWritten
<1> QED BY <1>1, StoreInv, PTL

\* No chunk is ever written over another one or across two segments (reserve).
THEOREM StoreSlotsAreSeparate == Spec => []SlotsAreSeparate
<1>1. ASSUME IInv PROVE SlotsAreSeparate
  <2> DEFINE Ent == {index[i] : i \in {j \in DOMAIN index : index[j] \in Entry}}
             Wri == {w[t] : t \in {u \in Writer : w[u] \in WriterState}}
  <2>1. \A t \in Writer : w[t].pc # "idle" => w[t] \in WriterState
    BY <1>1 DEF IInv, TypeOK, WriterIdle
  <2>2. \A i \in DOMAIN index : ~IsHole(index[i]) => index[i] \in Entry
    BY <1>1, EntriesAreNotHoles DEF IInv, TypeOK
  <2>3. \A a \in InUse : \E e \in Ent \cup Wri : a = <<e.offset, e.len>>
    BY <2>1, <2>2 DEF InUse
  <2>4. \A d, e \in Ent \cup Wri : d = e \/ Apart(d, e)
    BY <1>1 DEF IInv, SlotInv, Apart
  <2>5. \A e \in Ent \cup Wri : /\ InOneSegment(e)
                              /\ e.offset \in Nat /\ e.len \in Nat /\ 1 <= e.len
                              /\ EndOf(e) = e.offset + e.len
    BY <1>1, SlotNumbers DEF IInv, SlotInv
  <2> HIDE DEF Ent, Wri
  <2>6. \A a, b \in InUse : a # b => a[1] + a[2] <= b[1] \/ b[1] + b[2] <= a[1]
    BY <2>3, <2>4, <2>5 DEF Apart
  <2>7. \A a \in InUse : SegOf(a[1]) = SegOf(a[1] + a[2] - 1)
    BY <2>3, <2>5 DEF InOneSegment
  <2>8. ASSUME NEW t \in Writer, NEW u \in Writer, t # u, w[t].pc # "idle", w[u].pc # "idle"
        PROVE  w[t].offset # w[u].offset
    <3>1. w[t] \in WriterState /\ w[u] \in WriterState
      BY <2>1, <2>8
    <3>2. Apart(w[t], w[u])
      BY <1>1, <2>8, <3>1 DEF IInv, SlotInv
    <3> QED BY <3>1, <3>2, SlotNumbers DEF Apart
  <2> QED BY <2>6, <2>7, <2>8 DEF SlotsAreSeparate
<1> QED BY <1>1, StoreInv, PTL

=============================================================================
