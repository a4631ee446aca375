----------------------------- MODULE ChunkStore -----------------------------
(***************************************************************************)
(* The chunk store of a session (crates/project/src/store/mod.rs): writers *)
(* commit chunks into preallocated, mapped segments, readers copy them     *)
(* out, sync makes them durable, and segments are unmapped when the memory *)
(* budget is short, all at the same time.                                  *)
(*                                                                         *)
(* A step is what one thread does under one of the store's locks (alloc,   *)
(* segments, index), or one access to a mapping outside them.              *)
(*                                                                         *)
(* Bytes copied into a mapping are `viewed` until a flush of that mapping  *)
(* starts their write-back; a sync_data that starts after that makes them  *)
(* durable.  That is the contract of FlushViewOfFile and FlushFileBuffers, *)
(* the weakest of the platforms the code names.                            *)
(***************************************************************************)
EXTENDS Integers, FiniteSets, Sequences

CONSTANTS Writer, Reader, Syncer,     \* threads
          SegLen, Align,              \* SEGMENT_BYTES, CHUNK_ALIGN_BYTES
          Len_s,                      \* the chunk lengths written
          MaxSeg,                     \* segments the disk has room for
          Budget,                     \* memory_budget_bytes, in segments
          External,                   \* sizes other caches may reserve
          MaxFilled, MaxReopen        \* bounds: bytes allocated, crashes

ASSUME SizesArePositive == SegLen \in Nat \ {0} /\ Align \in Nat \ {0}
ASSUME ChunksFitSegment == Len_s \subseteq 1..SegLen
ASSUME AlignDividesSeg  == SegLen % Align = 0
ASSUME LimitsAreNat     == /\ {MaxSeg, Budget, MaxFilled, MaxReopen} \subseteq Nat
                           /\ External \subseteq Nat /\ 0 \in External

VARIABLES
  nextOffset, segments,     \* Alloc
  mapped, dirty, tail,      \* Segments: which are mapped, which are dirty
  external,                 \* what other caches reserved
  index,                    \* the chunk entries, by id
  viewed, started, durable, \* where the bytes of a chunk are, by its offset
  w, r, s,                  \* the threads
  acked,                    \* of the properties: chunks a sync answered for
  reopened

alloc  == <<nextOffset, segments>>
table  == <<mapped, dirty, tail, external>>
bytes  == <<viewed, started, durable>>
vars   == <<alloc, table, index, bytes, w, r, s, acked, reopened>>

-----------------------------------------------------------------------------
Segment   == 0..(MaxSeg - 1)
NoSegment == -1
SegOf(offset) == offset \div SegLen

Hole == [offset |-> 0, len |-> 0, state |-> "corrupt"]
IsHole(entry) == entry.len = 0

Offsets(entries) == {entries[i].offset : i \in {j \in DOMAIN entries : ~IsHole(entries[j])}}
Published == Offsets(index)
Written   == viewed \cup started \cup durable

WriterIdle == [pc |-> "idle"]
ReaderIdle(seg) == [pc |-> "idle", cache |-> seg]
SyncerIdle == [pc |-> "idle"]

\* Segments that a writer, one of the readers R or a sync holds a reference to,
\* besides the table's own.
HeldBy(R) ==
  {SegOf(w[t].offset) : t \in {u \in Writer : w[u].pc \in {"mapped", "copied"}}}
    \cup {r[t].cache : t \in R}
    \cup UNION {s[t].maps : t \in {u \in Syncer : s[u].pc = "flushing"}}

Guarded == HeldBy(Reader)

-----------------------------------------------------------------------------
(* Memory budget *)

\* Mutant: guarded segments are victims too.
EvictableUnguarded(guards) == mapped \ {tail}

Evictable(guards) == mapped \ ({tail} \cup guards)

\* evict_locked: unmap victims one by one until `incoming` more segments fit,
\* or none is left.  Which is the least recently used one is left open.
Evicts(E, incoming, guards) ==
  LET over(F) == Cardinality(mapped \ F) + external + incoming > Budget IN
  /\ E \subseteq Evictable(guards)
  /\ over(E) => E = Evictable(guards)
  /\ \A seg \in E : over(E \ {seg})

\* A dirty victim is flushed before it is unmapped.
FlushedByEviction(E) == {o \in viewed : SegOf(o) \in E \cap dirty}

\* Room is made for one more segment, and the segments of Got are mapped then.
MapsAfterEviction(Got, guards) ==
  \E E \in SUBSET mapped :
    /\ Evicts(E, 1, guards)
    /\ mapped' = (mapped \ E) \cup Got
    /\ viewed' = viewed \ FlushedByEviction(E)
    /\ started' = started \cup FlushedByEviction(E)

\* acquire_segment, which maps seg after making room for it.
Acquires(seg, guards) ==
  IF seg \in mapped THEN UNCHANGED <<mapped, viewed, started>>
  ELSE MapsAfterEviction({seg}, guards)

\* The mapping fails when the room is made.
MapFails(seg, guards) == seg \notin mapped /\ MapsAfterEviction({}, guards)

\* reserve_external and the drop of a reservation.
ReserveExternal(n) ==
  /\ external' = n
  /\ IF n <= external THEN UNCHANGED <<mapped, viewed, started>>
     ELSE \E E \in SUBSET mapped :
            /\ Evicts(E, n - external, Guarded)
            /\ mapped' = mapped \ E
            /\ viewed' = viewed \ FlushedByEviction(E)
            /\ started' = started \cup FlushedByEviction(E)
  /\ UNCHANGED <<alloc, dirty, tail, index, durable, w, r, s, acked, reopened>>

-----------------------------------------------------------------------------
(* commit_chunk *)

\* Mutant: a chunk may straddle two segments.
SlotStraddles(from, len) == ((from + Align - 1) \div Align) * Align

\* The first aligned place from `from` on where len bytes stay in one segment.
Slot(from, len) ==
  LET offset == ((from + Align - 1) \div Align) * Align
      seg    == SegOf(offset)
  IN  IF offset + len > (seg + 1) * SegLen THEN (seg + 1) * SegLen ELSE offset

\* The segments the file has once the one at offset is preallocated.
SegmentsFor(offset) == IF SegOf(offset) >= segments THEN SegOf(offset) + 1 ELSE segments

\* reserve.  With no room on the disk for a new segment it changes nothing.
Reserve(t, len) ==
  /\ w[t].pc = "idle"
  /\ nextOffset < MaxFilled
  /\ LET offset == Slot(nextOffset, len) IN
       /\ SegOf(offset) < MaxSeg
       /\ segments' = SegmentsFor(offset)
       /\ nextOffset' = offset + len
       /\ tail' = SegOf(offset)
       /\ w' = [w EXCEPT ![t] = [pc |-> "reserved", offset |-> offset, len |-> len]]
  /\ UNCHANGED <<mapped, dirty, external, index, bytes, r, s, acked, reopened>>

\* The segment is mapped and guarded, or mapping fails and the slot is wasted.
WriterAcquire(t) ==
  /\ w[t].pc = "reserved"
  /\ \/ /\ Acquires(SegOf(w[t].offset), Guarded)
        /\ w' = [w EXCEPT ![t].pc = "mapped"]
     \/ /\ MapFails(SegOf(w[t].offset), Guarded)
        /\ w' = [w EXCEPT ![t] = WriterIdle]
  /\ UNCHANGED <<alloc, dirty, tail, external, index, durable, r, s, acked, reopened>>

Copy(t) ==
  /\ w[t].pc = "mapped"
  /\ viewed' = viewed \cup {w[t].offset}
  /\ w' = [w EXCEPT ![t].pc = "copied"]
  /\ UNCHANGED <<alloc, table, index, started, durable, r, s, acked, reopened>>

\* Mutant: the segment is not marked.
MarkedDirtyNone(seg) == dirty

MarkedDirty(seg) == dirty \cup {seg}

\* Before publishing, so that a sync that sees the chunk covers it.
MarkDirty(t) ==
  /\ w[t].pc = "copied"
  /\ dirty' = MarkedDirty(SegOf(w[t].offset))
  /\ w' = [w EXCEPT ![t].pc = "marked"]
  /\ UNCHANGED <<alloc, mapped, tail, external, index, bytes, r, s, acked, reopened>>

\* Mutant: published first; a mapping error then leaves it without bytes.
PublishFirst(t) ==
  /\ w[t].pc = "reserved"
  /\ index' = Append(index, [offset |-> w[t].offset, len |-> w[t].len,
                             state |-> "unverified"])
  /\ w' = [w EXCEPT ![t] = WriterIdle]
  /\ UNCHANGED <<alloc, table, bytes, r, s, acked, reopened>>

Publish(t) ==
  /\ w[t].pc = "marked"
  /\ index' = Append(index, [offset |-> w[t].offset, len |-> w[t].len,
                             state |-> "unverified"])
  /\ w' = [w EXCEPT ![t] = WriterIdle]
  /\ UNCHANGED <<alloc, table, bytes, r, s, acked, reopened>>

-----------------------------------------------------------------------------
(* read_chunk_into *)

\* The entry is copied under the index lock.  A corrupt chunk is refused.
Lookup(t, id) ==
  /\ r[t].pc = "idle"
  /\ id \in DOMAIN index
  /\ index[id].state # "corrupt"
  /\ r' = [r EXCEPT ![t] = [pc |-> "found", cache |-> @.cache, id |-> id,
                            offset |-> index[id].offset, state |-> index[id].state]]
  /\ UNCHANGED <<alloc, table, index, bytes, w, s, acked, reopened>>

\* The old cached segment is let go before the new one is mapped.
ReaderAcquire(t) ==
  /\ r[t].pc = "found"
  /\ LET seg == SegOf(r[t].offset) IN
     \/ /\ r[t].cache = seg
        /\ r' = [r EXCEPT ![t].pc = "guarded"]
        /\ UNCHANGED <<mapped, viewed, started>>
     \/ /\ r[t].cache # seg
        /\ Acquires(seg, HeldBy(Reader \ {t}))
        /\ r' = [r EXCEPT ![t].pc = "guarded", ![t].cache = seg]
     \/ /\ r[t].cache # seg
        /\ MapFails(seg, HeldBy(Reader \ {t}))
        /\ r' = [r EXCEPT ![t] = ReaderIdle(NoSegment)]
  /\ UNCHANGED <<alloc, dirty, tail, external, index, durable, w, s, acked, reopened>>

\* The first read of a chunk checks its CRC32; the guard stays for the next.
Read(t) ==
  /\ r[t].pc = "guarded"
  /\ index' = IF r[t].state = "verified" THEN index
              ELSE [index EXCEPT ![r[t].id].state =
                      IF r[t].offset \in Written THEN "verified" ELSE "corrupt"]
  /\ r' = [r EXCEPT ![t] = ReaderIdle(@.cache)]
  /\ UNCHANGED <<alloc, table, bytes, w, s, acked, reopened>>

\* SnapshotReader::release_segments, or the reader is dropped.
ReleaseSegment(t) ==
  /\ r[t].pc = "idle" /\ r[t].cache # NoSegment
  /\ r' = [r EXCEPT ![t] = ReaderIdle(NoSegment)]
  /\ UNCHANGED <<alloc, table, index, bytes, w, s, acked, reopened>>

-----------------------------------------------------------------------------
(* sync *)

\* sync_lock is free.
SyncLock == \A t \in Syncer : s[t].pc = "idle"

\* Take over the dirty marks and a reference to each dirty map.  `covers` is
\* what this sync has to make durable.
SyncBegin(t) ==
  /\ s[t].pc = "idle"
  /\ SyncLock
  /\ dirty' = {}
  /\ s' = [s EXCEPT ![t] = [pc |-> "flushing", covers |-> Published,
                            cleared |-> dirty, maps |-> dirty \cap mapped,
                            todo |-> dirty \cap mapped]]
  /\ UNCHANGED <<alloc, mapped, tail, external, index, bytes, w, r, acked, reopened>>

\* flush_async of one map.
SyncFlush(t, seg) ==
  LET flushed == {o \in viewed : SegOf(o) = seg} IN
  /\ s[t].pc = "flushing" /\ seg \in s[t].todo
  /\ viewed' = viewed \ flushed
  /\ started' = started \cup flushed
  /\ s' = [s EXCEPT ![t].todo = @ \ {seg}]
  /\ UNCHANGED <<alloc, table, index, durable, w, r, acked, reopened>>

\* sync_data succeeds: what was started when it was called is durable.
SyncData(t) ==
  /\ s[t].pc = "flushing" /\ s[t].todo = {}
  /\ durable' = durable \cup started
  /\ started' = {}
  /\ acked' = acked \cup s[t].covers
  /\ s' = [s EXCEPT ![t] = SyncerIdle]
  /\ UNCHANGED <<alloc, table, index, viewed, w, r, reopened>>

\* A flush or sync_data fails: the marks are put back.
SyncFails(t) ==
  /\ s[t].pc = "flushing"
  /\ dirty' = dirty \cup s[t].cleared
  /\ s' = [s EXCEPT ![t] = SyncerIdle]
  /\ UNCHANGED <<alloc, mapped, tail, external, index, bytes, w, r, acked, reopened>>

-----------------------------------------------------------------------------
(* A crash, and open_existing with the chunks the journal names *)

EndOf(entry) == entry.offset + entry.len

\* next_offset is the largest end; ids the journal does not name are holes.
Reopen(named) ==
  /\ reopened < MaxReopen
  /\ named \subseteq {i \in DOMAIN index : ~IsHole(index[i]) /\ index[i].offset \in acked}
  /\ LET kept == {index[i].offset : i \in named} IN
     /\ \E n \in named \cup {0} :
          /\ \A i \in named : i <= n
          /\ index' = [i \in 1..n |->
                         IF i \in named THEN [index[i] EXCEPT !.state = "unverified"]
                         ELSE Hole]
     /\ nextOffset' \in {EndOf(index[i]) : i \in named} \cup {0}
     /\ \A i \in named : EndOf(index[i]) <= nextOffset'
     /\ viewed' = {} /\ started' = {} /\ durable' = durable \cap kept
     /\ acked' = kept
  /\ mapped' = {} /\ dirty' = {} /\ tail' = NoSegment /\ external' = 0
  /\ w' = [t \in Writer |-> WriterIdle]
  /\ r' = [t \in Reader |-> ReaderIdle(NoSegment)]
  /\ s' = [t \in Syncer |-> SyncerIdle]
  /\ reopened' = reopened + 1
  /\ UNCHANGED segments

-----------------------------------------------------------------------------
Init ==
  /\ nextOffset = 0 /\ segments = 0
  /\ mapped = {} /\ dirty = {} /\ tail = NoSegment /\ external = 0
  /\ index = <<>>
  /\ viewed = {} /\ started = {} /\ durable = {}
  /\ w = [t \in Writer |-> WriterIdle]
  /\ r = [t \in Reader |-> ReaderIdle(NoSegment)]
  /\ s = [t \in Syncer |-> SyncerIdle]
  /\ acked = {} /\ reopened = 0

WriterStep(t) ==
  \/ \E len \in Len_s : Reserve(t, len)
  \/ WriterAcquire(t) \/ Copy(t) \/ MarkDirty(t) \/ Publish(t)

ReaderStep(t) ==
  \/ \E id \in DOMAIN index : Lookup(t, id)
  \/ ReaderAcquire(t) \/ Read(t) \/ ReleaseSegment(t)

SyncerStep(t) ==
  \/ SyncBegin(t)
  \/ \E seg \in Segment : SyncFlush(t, seg)
  \/ SyncData(t) \/ SyncFails(t)

Next ==
  \/ \E t \in Writer : WriterStep(t)
  \/ \E t \in Reader : ReaderStep(t)
  \/ \E t \in Syncer : SyncerStep(t)
  \/ \E n \in External : ReserveExternal(n)
  \/ \E named \in SUBSET DOMAIN index : Reopen(named)

Spec == Init /\ [][Next]_vars

-----------------------------------------------------------------------------
(* Properties *)

Offset == 0..(MaxSeg * SegLen - 1)

Entry == [offset : Offset, len : Len_s, state : {"unverified", "verified", "corrupt"}]

WriterState == [pc : {"reserved", "mapped", "copied", "marked"},
                offset : Offset, len : Len_s]

ReaderState == [pc : {"found", "guarded"}, cache : Segment \cup {NoSegment},
                id : Nat, offset : Offset, state : {"unverified", "verified"}]

SyncerState == [pc : {"flushing"}, covers : SUBSET Offset, cleared : SUBSET Segment,
                maps : SUBSET Segment, todo : SUBSET Segment]

\* The shape of struct ChunkStore and of its threads; what is allocated lies in
\* the file.
TypeOK ==
  /\ segments \in 0..MaxSeg /\ nextOffset \in 0..(segments * SegLen)
  /\ mapped \subseteq Segment /\ dirty \subseteq Segment
  /\ tail \in Segment \cup {NoSegment}
  /\ external \in External
  /\ index \in Seq(Entry \cup {Hole})
  /\ viewed \subseteq Offset /\ started \subseteq Offset
  /\ durable \subseteq Offset /\ acked \subseteq Offset
  /\ w \in [Writer -> WriterState \cup {WriterIdle}]
  /\ r \in [Reader -> ReaderState \cup [pc : {"idle"}, cache : Segment \cup {NoSegment}]]
  /\ s \in [Syncer -> SyncerState \cup {SyncerIdle}]
  /\ reopened \in Nat

\* sync, "makes every chunk committed so far durable": a chunk that was visible
\* when a sync began survives a power loss once that sync returned Ok,
\* whatever writers, evictions and failed syncs did meanwhile.
SyncedIsDurable == acked \subseteq durable

\* A segment that a writer copies into, a reader reads or a sync has still to
\* flush stays mapped.
UsedSegmentsStayMapped == Guarded \ {NoSegment} \subseteq mapped

\* No read ever finds a chunk whose bytes are not there: the index never names
\* a chunk before its copy, and no CRC32 check marks one as corrupt.
PublishedIsWritten ==
  \A i \in DOMAIN index : ~IsHole(index[i]) =>
    index[i].offset \in Written /\ index[i].state # "corrupt"

\* The slots that are published or being written.
InUse ==
  {<<index[i].offset, index[i].len>> : i \in {j \in DOMAIN index : ~IsHole(index[j])}}
    \cup {<<w[t].offset, w[t].len>> : t \in {u \in Writer : w[u].pc # "idle"}}

\* A chunk is never written again, also not after a crash: no two slots overlap,
\* and none straddles two mappings.
SlotsAreSeparate ==
  /\ \A a, b \in InUse : a # b => a[1] + a[2] <= b[1] \/ b[1] + b[2] <= a[1]
  /\ \A a \in InUse : SegOf(a[1]) = SegOf(a[1] + a[2] - 1)
  /\ \A t, u \in Writer : t # u /\ w[t].pc # "idle" /\ w[u].pc # "idle" =>
        w[t].offset # w[u].offset

=============================================================================
