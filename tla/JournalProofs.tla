--------------------------- MODULE JournalProofs ---------------------------
(***************************************************************************)
(* What the operators of HistoryOps and of Journal keep and change,        *)
(* whatever the history and the journal they are applied to: the facts the *)
(* proofs about History and Session share.                                 *)
(*                                                                         *)
(* First the history, then the line of its documents and the seqs that     *)
(* name them, then the journal: one record at a time (what it does to a    *)
(* replay, and when it fits), and the records of a call.                   *)
(***************************************************************************)
EXTENDS Journal, FiniteSetTheorems, SequenceTheorems, WellFoundedInduction, TLAPS

USE ChunkIsNat, MaxMarkerIsNat

\* A non-empty finite set of naturals has a largest element.
LEMMA FiniteSetHasMax ==
  ASSUME NEW M, M \subseteq Nat, IsFiniteSet(M), M # {}
  PROVE  \E m \in M : \A k \in M : k <= m
<1> DEFINE Above(m) == {k \in M : k > m}
           T        == {Above(m) : m \in M}
<1>1. IsWellFoundedOn(StrictSubsetOrdering(M), FiniteSubsetsOf(M))
  BY FS_StrictSubsetOrderingWellFounded
<1>2. T \subseteq FiniteSubsetsOf(M) /\ T # {}
  <2>1. \A m \in M : Above(m) \in SUBSET M /\ IsFiniteSet(Above(m))
    BY FS_Subset
  <2> QED BY <2>1 DEF FiniteSubsetsOf
<1>3. PICK U \in T : \A V \in T : <<V, U>> \notin StrictSubsetOrdering(M)
  <2> HIDE DEF T
  <2> QED BY <1>1, <1>2, WFMin
<1>4. PICK m \in M : U = Above(m)
  OBVIOUS
<1>5. \A k \in M : k <= m
  <2> SUFFICES ASSUME NEW k \in M, k > m PROVE FALSE
    OBVIOUS
  <2>1. Above(k) \subseteq Above(m) /\ Above(k) # Above(m)
    <3>1. m \in Nat /\ k \in Nat /\ \A j \in M : j \in Nat
      OBVIOUS
    <3>2. k \in Above(m)
      OBVIOUS
    <3>3. k \notin Above(k)
      BY <3>1
    <3>4. \A j \in M : j > k => j > m
      BY <3>1
    <3> QED BY <3>2, <3>3, <3>4
  <2>2. Above(k) \in T /\ Above(m) \in T
    OBVIOUS
  <2>3. Above(k) \in SUBSET M /\ Above(m) \in SUBSET M
    OBVIOUS
  <2> HIDE DEF T, Above
  <2> QED BY <1>2, <1>3, <1>4, <2>1, <2>2, <2>3 DEF StrictSubsetOrdering
<1> QED BY <1>5

\* What a commit makes of next_marker_id stays a natural number.
LEMMA IdAboveType ==
  ASSUME NEW n \in Nat, NEW M \in SUBSET MarkerId
  PROVE  /\ IdAbove(n, M) \in Nat
         /\ IdAbove(n, M) >= n
         /\ \A m \in M : IdAbove(n, M) > m
         /\ IdAbove(n, M) \in {n} \cup {m + 1 : m \in M}
<1>1. M \subseteq Nat /\ IsFiniteSet(M)
  <2>1. IsFiniteSet(1..MaxMarker)
    BY FS_Interval
  <2>2. M \in SUBSET (1..MaxMarker)
    BY DEF MarkerId
  <2>3. IsFiniteSet(M)
    BY <2>1, <2>2, FS_Subset
  <2>4. \A m \in 1..MaxMarker : m \in Nat
    OBVIOUS
  <2> QED BY <2>2, <2>3, <2>4
<1>2. \E k \in {n} \cup {m + 1 : m \in M} : k >= n /\ \A m \in M : k > m
  <2>1. CASE \A m \in M : m < n
    BY <2>1, <1>1
  <2>2. CASE \E m \in M : m >= n
    <3>1. PICK x \in M : \A k \in M : k <= x
      BY <1>1, <2>2, FiniteSetHasMax
    <3>2. x \in Nat /\ x >= n
      BY <1>1, <2>2, <3>1
    <3>3. x + 1 >= n /\ \A m \in M : x + 1 > m
      BY <1>1, <3>1, <3>2
    <3> QED BY <3>3
  <2> QED BY <1>1, <2>1, <2>2
<1>3. {n} \cup {m + 1 : m \in M} \subseteq Nat
  BY <1>1
<1> QED BY <1>2, <1>3 DEF IdAbove

-----------------------------------------------------------------------------
(* Each operator of history.rs keeps the shape of a history. *)

\* A new history has the shape of a history.
LEMMA NewType ==
  ASSUME NEW p \in SUBSET Chunk, NEW M \in SUBSET MarkerId
  PROVE  New(p, M) \in HistoryState
BY IdAboveType DEF New, HistoryState, Snapshot

\* A floor set by an import is a history.
LEMMA RebasedType ==
  ASSUME NEW hs \in HistoryState, NEW p \in SUBSET Chunk, NEW M \in SUBSET MarkerId
  PROVE  Rebased(hs, p, M) \in HistoryState
BY IdAboveType DEF Rebased, HistoryState, Snapshot

\* A commit keeps the shape of a history.
LEMMA CommitType ==
  ASSUME NEW hs \in HistoryState, NEW e \in EditOps
  PROVE  Commit(hs, e) \in HistoryState
<1> DEFINE entry == [snapshot |-> hs.current, seq |-> hs.next_seq, audio |-> ChangesAudio(e)]
<1>1. Prepared(hs, e) \in Snapshot
  BY DEF Prepared, HistoryState, Snapshot, EditOps
<1>2. entry \in Entry
  BY DEF HistoryState, Entry, ChangesAudio
<1>3. Append(hs.undo, entry) \in Seq(Entry)
  <2> HIDE DEF entry
  <2> QED BY <1>2, AppendProperties DEF HistoryState
<1>4. IdAbove(hs.next_marker_id, e.madd) \in Nat
  BY IdAboveType DEF HistoryState, EditOps
<1>5. <<>> \in Seq(Entry)
  BY EmptySeq
<1>6. /\ hs.next_rev + 1 \in Nat
      /\ (IF ChangesAudio(e) THEN hs.next_audio_rev + 1 ELSE hs.next_audio_rev) \in Nat
      /\ hs.next_seq + 1 \in Nat
  BY DEF HistoryState
<1> QED
  <2> HIDE DEF entry
  <2> QED BY <1>1, <1>3, <1>4, <1>5, <1>6 DEF Commit, HistoryState, entry

\* Restamping a snapshot keeps its shape.
LEMMA RestampType ==
  ASSUME NEW hs \in HistoryState, NEW s \in Snapshot, NEW audio \in BOOLEAN
  PROVE  /\ Restamp(hs, s, audio) \in Snapshot
         /\ Restamp(hs, s, audio).pieces = s.pieces
         /\ Restamp(hs, s, audio).markers = s.markers
         /\ Restamp(hs, s, audio).rev = hs.next_rev
         /\ Restamp(hs, s, audio).audio_rev
              = IF audio THEN hs.next_audio_rev ELSE hs.current.audio_rev
BY DEF Restamp, HistoryState, Snapshot

\* A stack without its top is a stack, and its top is an entry.
LEMMA PopType ==
  ASSUME NEW stack \in Seq(Entry), stack # <<>>
  PROVE  /\ Len(stack) \in Nat \ {0}
         /\ Top(stack) \in Entry
         /\ Pop(stack) \in Seq(Entry)
         /\ Len(Pop(stack)) = Len(stack) - 1
         /\ \A i \in 1..(Len(stack) - 1) : Pop(stack)[i] = stack[i]
<1>1. Len(stack) \in Nat \ {0}
  BY EmptySeq
<1>2. \A i \in 1..Len(stack) : stack[i] \in Entry
  BY ElementOfSeq
<1>3. \A i \in 1..(Len(stack) - 1) : i \in 1..Len(stack)
  BY <1>1
<1>4. /\ Pop(stack) \in Seq(Entry)
      /\ Len(Pop(stack)) = IF 1 <= Len(stack) - 1 THEN Len(stack) - 1 - 1 + 1 ELSE 0
      /\ \A i \in 1..(Len(stack) - 1 - 1 + 1) : Pop(stack)[i] = stack[1 + i - 1]
  BY <1>1, <1>2, <1>3, SubSeqProperties DEF Pop
<1>5. Len(Pop(stack)) = Len(stack) - 1
  <2> DEFINE n == Len(stack)
  <2>1. n \in Nat /\ n # 0
    BY <1>1
  <2>2. Len(Pop(stack)) = IF 1 <= n - 1 THEN n - 1 - 1 + 1 ELSE 0
    BY <1>4
  <2> HIDE DEF n
  <2>3. Len(Pop(stack)) = n - 1
    BY <2>1, <2>2
  <2> QED BY <2>3 DEF n
<1>6. \A i \in 1..(Len(stack) - 1) : Pop(stack)[i] = stack[i]
  BY <1>1, <1>4
<1> QED BY <1>1, <1>2, <1>4, <1>5, <1>6 DEF Top

\* A stack of entries and what undo or redo moves between the two stacks.
LEMMA StepType ==
  ASSUME NEW hs \in HistoryState,
         NEW from \in Seq(Entry), from # <<>>, NEW to \in Seq(Entry)
  PROVE  /\ Restamp(hs, Top(from).snapshot, Top(from).audio) \in Snapshot
         /\ Pop(from) \in Seq(Entry)
         /\ [Top(from) EXCEPT !.snapshot = hs.current] \in Entry
         /\ Append(to, [Top(from) EXCEPT !.snapshot = hs.current]) \in Seq(Entry)
         /\ hs.next_rev + 1 \in Nat
         /\ (IF Top(from).audio THEN hs.next_audio_rev + 1 ELSE hs.next_audio_rev) \in Nat
<1>1. Top(from) \in Entry /\ Pop(from) \in Seq(Entry)
  BY PopType
<1>2. Restamp(hs, Top(from).snapshot, Top(from).audio) \in Snapshot
  BY <1>1, RestampType DEF Entry
<1>3. [Top(from) EXCEPT !.snapshot = hs.current] \in Entry
  BY <1>1 DEF Entry, HistoryState
<1>4. Append(to, [Top(from) EXCEPT !.snapshot = hs.current]) \in Seq(Entry)
  BY <1>3, AppendProperties
<1>5. /\ hs.next_rev + 1 \in Nat
      /\ (IF Top(from).audio THEN hs.next_audio_rev + 1 ELSE hs.next_audio_rev) \in Nat
  BY DEF HistoryState
<1> QED BY <1>1, <1>2, <1>3, <1>4, <1>5

\* An undo keeps the shape of a history.
LEMMA UndoneType ==
  ASSUME NEW hs \in HistoryState, hs.undo # <<>>
  PROVE  Undone(hs) \in HistoryState
<1>1. hs.undo \in Seq(Entry) /\ hs.redo \in Seq(Entry)
  BY DEF HistoryState
<1> QED BY <1>1, StepType DEF Undone, HistoryState

\* A redo keeps the shape of a history.
LEMMA RedoneType ==
  ASSUME NEW hs \in HistoryState, hs.redo # <<>>
  PROVE  Redone(hs) \in HistoryState
<1>1. hs.undo \in Seq(Entry) /\ hs.redo \in Seq(Entry)
  BY DEF HistoryState
<1> QED BY <1>1, StepType DEF Redone, HistoryState

\* The end of a stack is a stack.
LEMMA DropType ==
  ASSUME NEW stack \in Seq(Entry), NEW n \in 1..Len(stack)
  PROVE  /\ SubSeq(stack, n + 1, Len(stack)) \in Seq(Entry)
         /\ Len(SubSeq(stack, n + 1, Len(stack))) = Len(stack) - n
         /\ \A i \in 1..(Len(stack) - n) :
               SubSeq(stack, n + 1, Len(stack))[i] = stack[n + i]
<1>1. Len(stack) \in Nat /\ n \in Nat /\ n <= Len(stack)
  BY LenProperties
<1>2. \A i \in (n + 1)..Len(stack) : stack[i] \in Entry
  BY <1>1, ElementOfSeq
<1>3. /\ SubSeq(stack, n + 1, Len(stack)) \in Seq(Entry)
      /\ Len(SubSeq(stack, n + 1, Len(stack)))
           = IF n + 1 <= Len(stack) THEN Len(stack) - (n + 1) + 1 ELSE 0
      /\ \A i \in 1..(Len(stack) - (n + 1) + 1) :
            SubSeq(stack, n + 1, Len(stack))[i] = stack[n + 1 + i - 1]
  BY <1>1, <1>2, SubSeqProperties
<1>4. \A i \in 1..(Len(stack) - n) : n + 1 + i - 1 = n + i
  BY <1>1
<1> QED BY <1>1, <1>3, <1>4

\* Dropping the oldest undo steps keeps the shape of a history.
LEMMA DroppedType ==
  ASSUME NEW hs \in HistoryState, NEW n \in 1..Len(hs.undo)
  PROVE  DroppedOldest(hs, n) \in HistoryState
<1>1. hs.undo \in Seq(Entry)
  BY DEF HistoryState
<1>2. SubSeq(hs.undo, n + 1, Len(hs.undo)) \in Seq(Entry)
  BY <1>1, DropType
<1> QED BY <1>2 DEF DroppedOldest, HistoryState

\* Marking a history as saved keeps its shape.
LEMMA MarkedSavedType ==
  ASSUME NEW hs \in HistoryState, NEW seq \in Nat
  PROVE  MarkedSavedAt(hs, seq) \in HistoryState
BY DEF MarkedSavedAt, HistoryState

\* Handing out a marker id keeps the shape of a history.
LEMMA AllocatedType ==
  ASSUME NEW hs \in HistoryState
  PROVE  AllocatedMarker(hs) \in HistoryState
<1>1. hs.next_marker_id + 1 \in Nat
  BY DEF HistoryState
<1> DEFINE id == hs.next_marker_id + 1
<1> HIDE DEF id
<1>2. id \in Nat
  BY <1>1 DEF id
<1>3. [hs EXCEPT !.next_marker_id = id] \in HistoryState
  BY <1>2 DEF HistoryState
<1> QED BY <1>3 DEF AllocatedMarker, id

-----------------------------------------------------------------------------
(* What each operator does to the two stacks, position by position. *)

\* What a stack of entries gives: its length, its elements, its top.
LEMMA StackShape ==
  ASSUME NEW hs \in HistoryState
  PROVE  /\ hs.undo \in Seq(Entry) /\ Len(hs.undo) \in Nat
         /\ DOMAIN hs.undo = 1..Len(hs.undo)
         /\ \A i \in 1..Len(hs.undo) : hs.undo[i] \in Entry
         /\ hs.redo \in Seq(Entry) /\ Len(hs.redo) \in Nat
         /\ DOMAIN hs.redo = 1..Len(hs.redo)
         /\ \A i \in 1..Len(hs.redo) : hs.redo[i] \in Entry
<1>1. hs.undo \in Seq(Entry) /\ hs.redo \in Seq(Entry)
  BY DEF HistoryState
<1> QED BY <1>1, LenProperties, ElementOfSeq

\* What a commit leaves: a longer undo stack, no redo, new stamps.
LEMMA CommitEffect ==
  ASSUME NEW hs \in HistoryState, NEW e \in EditOps
  PROVE  /\ Len(Commit(hs, e).undo) = Len(hs.undo) + 1
         /\ \A i \in 1..Len(hs.undo) : Commit(hs, e).undo[i] = hs.undo[i]
         /\ Commit(hs, e).undo[Len(hs.undo) + 1]
              = [snapshot |-> hs.current, seq |-> hs.next_seq, audio |-> ChangesAudio(e)]
         /\ Commit(hs, e).redo = <<>> /\ Len(Commit(hs, e).redo) = 0
         /\ Commit(hs, e).next_seq = hs.next_seq + 1
         /\ Commit(hs, e).current = Prepared(hs, e)
         /\ Commit(hs, e).next_rev = hs.next_rev + 1
         /\ Commit(hs, e).next_audio_rev
              = IF ChangesAudio(e) THEN hs.next_audio_rev + 1 ELSE hs.next_audio_rev
<1> DEFINE entry == [snapshot |-> hs.current, seq |-> hs.next_seq, audio |-> ChangesAudio(e)]
<1>1. hs.undo \in Seq(Entry)
  BY StackShape
<1>2. entry \in Entry
  BY DEF HistoryState, Entry, ChangesAudio
<1>3. Commit(hs, e).undo = Append(hs.undo, entry)
  BY DEF Commit, HistoryState
<1>4. /\ Len(Append(hs.undo, entry)) = Len(hs.undo) + 1
      /\ \A i \in 1..Len(hs.undo) : Append(hs.undo, entry)[i] = hs.undo[i]
      /\ Append(hs.undo, entry)[Len(hs.undo) + 1] = entry
  <2> HIDE DEF entry
  <2> QED BY <1>1, <1>2, AppendProperties
<1>5. /\ Commit(hs, e).redo = <<>> /\ Len(Commit(hs, e).redo) = 0
      /\ Commit(hs, e).next_seq = hs.next_seq + 1
      /\ Commit(hs, e).current = Prepared(hs, e)
      /\ Commit(hs, e).next_rev = hs.next_rev + 1
      /\ Commit(hs, e).next_audio_rev
              = IF ChangesAudio(e) THEN hs.next_audio_rev + 1 ELSE hs.next_audio_rev
  BY DEF Commit, HistoryState
<1> QED BY <1>3, <1>4, <1>5

\* What moves when the top of one stack is restored and its counterpart is
\* pushed on the other.
LEMMA MoveEffect ==
  ASSUME NEW hs \in HistoryState,
         NEW from \in Seq(Entry), from # <<>>, NEW to \in Seq(Entry)
  PROVE  LET moved == [Top(from) EXCEPT !.snapshot = hs.current] IN
         /\ Len(from) \in Nat \ {0}
         /\ Len(Pop(from)) = Len(from) - 1
         /\ \A i \in 1..(Len(from) - 1) : Pop(from)[i] = from[i]
         /\ Len(Append(to, moved)) = Len(to) + 1
         /\ \A i \in 1..Len(to) : Append(to, moved)[i] = to[i]
         /\ Append(to, moved)[Len(to) + 1].seq = from[Len(from)].seq
         /\ Append(to, moved)[Len(to) + 1].audio = from[Len(from)].audio
         /\ Append(to, moved)[Len(to) + 1].snapshot = hs.current
<1> DEFINE moved == [Top(from) EXCEPT !.snapshot = hs.current]
<1>1. Top(from) \in Entry /\ moved \in Entry
  BY PopType, StepType
<1>2. moved.seq = from[Len(from)].seq /\ moved.audio = from[Len(from)].audio
      /\ moved.snapshot = hs.current
  BY <1>1 DEF Top, Entry
<1>3. /\ Len(from) \in Nat \ {0}
      /\ Len(Pop(from)) = Len(from) - 1
      /\ \A i \in 1..(Len(from) - 1) : Pop(from)[i] = from[i]
  BY PopType
<1>4. /\ Len(Append(to, moved)) = Len(to) + 1
      /\ \A i \in 1..Len(to) : Append(to, moved)[i] = to[i]
      /\ Append(to, moved)[Len(to) + 1] = moved
  <2> HIDE DEF moved
  <2> QED BY <1>1, AppendProperties
<1> HIDE DEF moved
<1>5. /\ Append(to, moved)[Len(to) + 1].seq = from[Len(from)].seq
      /\ Append(to, moved)[Len(to) + 1].audio = from[Len(from)].audio
      /\ Append(to, moved)[Len(to) + 1].snapshot = hs.current
  BY <1>2, <1>4
<1> QED BY <1>3, <1>4, <1>5 DEF moved

\* What an undo leaves: the top entry on the other stack, its snapshot current.
LEMMA UndoneEffect ==
  ASSUME NEW hs \in HistoryState, hs.undo # <<>>
  PROVE  /\ Len(hs.undo) \in Nat \ {0}
         /\ Len(Undone(hs).undo) = Len(hs.undo) - 1
         /\ \A i \in 1..(Len(hs.undo) - 1) : Undone(hs).undo[i] = hs.undo[i]
         /\ Len(Undone(hs).redo) = Len(hs.redo) + 1
         /\ \A i \in 1..Len(hs.redo) : Undone(hs).redo[i] = hs.redo[i]
         /\ Undone(hs).redo[Len(hs.redo) + 1].seq = hs.undo[Len(hs.undo)].seq
         /\ Undone(hs).redo[Len(hs.redo) + 1].audio = hs.undo[Len(hs.undo)].audio
         /\ Undone(hs).redo[Len(hs.redo) + 1].snapshot = hs.current
         /\ Undone(hs).next_seq = hs.next_seq
         /\ Undone(hs).current
              = Restamp(hs, Top(hs.undo).snapshot, Top(hs.undo).audio)
         /\ Undone(hs).next_rev = hs.next_rev + 1
         /\ Undone(hs).next_audio_rev
              = IF Top(hs.undo).audio THEN hs.next_audio_rev + 1 ELSE hs.next_audio_rev
<1> DEFINE moved == [Top(hs.undo) EXCEPT !.snapshot = hs.current]
<1>1. hs.undo \in Seq(Entry) /\ hs.redo \in Seq(Entry)
  BY StackShape
<1>2. /\ Undone(hs).undo = Pop(hs.undo)
      /\ Undone(hs).redo = Append(hs.redo, moved)
      /\ Undone(hs).next_seq = hs.next_seq
      /\ Undone(hs).current = Restamp(hs, Top(hs.undo).snapshot, Top(hs.undo).audio)
      /\ Undone(hs).next_rev = hs.next_rev + 1
      /\ Undone(hs).next_audio_rev
              = IF Top(hs.undo).audio THEN hs.next_audio_rev + 1 ELSE hs.next_audio_rev
  BY DEF Undone, HistoryState
<1> QED BY <1>1, <1>2, MoveEffect

\* What a redo leaves: the same in the other direction.
LEMMA RedoneEffect ==
  ASSUME NEW hs \in HistoryState, hs.redo # <<>>
  PROVE  /\ Len(hs.redo) \in Nat \ {0}
         /\ Len(Redone(hs).redo) = Len(hs.redo) - 1
         /\ \A i \in 1..(Len(hs.redo) - 1) : Redone(hs).redo[i] = hs.redo[i]
         /\ Len(Redone(hs).undo) = Len(hs.undo) + 1
         /\ \A i \in 1..Len(hs.undo) : Redone(hs).undo[i] = hs.undo[i]
         /\ Redone(hs).undo[Len(hs.undo) + 1].seq = hs.redo[Len(hs.redo)].seq
         /\ Redone(hs).undo[Len(hs.undo) + 1].audio = hs.redo[Len(hs.redo)].audio
         /\ Redone(hs).undo[Len(hs.undo) + 1].snapshot = hs.current
         /\ Redone(hs).next_seq = hs.next_seq
         /\ Redone(hs).current
              = Restamp(hs, Top(hs.redo).snapshot, Top(hs.redo).audio)
         /\ Redone(hs).next_rev = hs.next_rev + 1
         /\ Redone(hs).next_audio_rev
              = IF Top(hs.redo).audio THEN hs.next_audio_rev + 1 ELSE hs.next_audio_rev
<1> DEFINE moved == [Top(hs.redo) EXCEPT !.snapshot = hs.current]
<1>1. hs.undo \in Seq(Entry) /\ hs.redo \in Seq(Entry)
  BY StackShape
<1>2. /\ Redone(hs).redo = Pop(hs.redo)
      /\ Redone(hs).undo = Append(hs.undo, moved)
      /\ Redone(hs).next_seq = hs.next_seq
      /\ Redone(hs).current = Restamp(hs, Top(hs.redo).snapshot, Top(hs.redo).audio)
      /\ Redone(hs).next_rev = hs.next_rev + 1
      /\ Redone(hs).next_audio_rev
              = IF Top(hs.redo).audio THEN hs.next_audio_rev + 1 ELSE hs.next_audio_rev
  BY DEF Redone, HistoryState
<1> QED BY <1>1, <1>2, MoveEffect

\* What a drop leaves: the newer end of the undo stack, nothing else changed.
LEMMA DroppedEffect ==
  ASSUME NEW hs \in HistoryState, NEW n \in 1..Len(hs.undo)
  PROVE  /\ Len(DroppedOldest(hs, n).undo) = Len(hs.undo) - n
         /\ \A i \in 1..(Len(hs.undo) - n) :
               DroppedOldest(hs, n).undo[i] = hs.undo[n + i]
         /\ DroppedOldest(hs, n).redo = hs.redo
         /\ DroppedOldest(hs, n).next_seq = hs.next_seq
         /\ DroppedOldest(hs, n).current = hs.current
         /\ DroppedOldest(hs, n).next_rev = hs.next_rev
         /\ DroppedOldest(hs, n).next_audio_rev = hs.next_audio_rev
<1>1. hs.undo \in Seq(Entry)
  BY StackShape
<1>2. /\ DroppedOldest(hs, n).undo = SubSeq(hs.undo, n + 1, Len(hs.undo))
      /\ DroppedOldest(hs, n).redo = hs.redo
      /\ DroppedOldest(hs, n).next_seq = hs.next_seq
      /\ DroppedOldest(hs, n).current = hs.current
      /\ DroppedOldest(hs, n).next_rev = hs.next_rev
      /\ DroppedOldest(hs, n).next_audio_rev = hs.next_audio_rev
  BY DEF DroppedOldest, HistoryState
<1> QED BY <1>1, <1>2, DropType

-----------------------------------------------------------------------------
(* The documents a history holds. *)

Contents(hs) ==
  {Content(hs.current)}
    \cup {Content(hs.undo[i].snapshot) : i \in DOMAIN hs.undo}
    \cup {Content(hs.redo[i].snapshot) : i \in DOMAIN hs.redo}

\* The live chunks are those of the documents.
LEMMA LiveIsContents ==
  ASSUME NEW hs \in HistoryState
  PROVE  Live(hs) = UNION {d.pieces : d \in Contents(hs)}
<1> DEFINE C == UNION {d.pieces : d \in Contents(hs)}
<1>1. \A s : Content(s).pieces = s.pieces
  BY DEF Content
<1>2. ASSUME NEW c \in Live(hs)
      PROVE  c \in C
  <2>1. CASE c \in hs.current.pieces
    BY <1>1, <2>1 DEF Contents
  <2>2. CASE \E i \in DOMAIN hs.undo : c \in hs.undo[i].snapshot.pieces
    BY <1>1, <2>2 DEF Contents
  <2>3. CASE \E i \in DOMAIN hs.redo : c \in hs.redo[i].snapshot.pieces
    BY <1>1, <2>3 DEF Contents
  <2> QED BY <1>2, <2>1, <2>2, <2>3 DEF Live
<1>3. ASSUME NEW d \in Contents(hs)
      PROVE  d.pieces \subseteq Live(hs)
  BY <1>1, <1>3 DEF Contents, Live
<1> QED BY <1>2, <1>3

\* The fields of a snapshot.
LEMMA SnapshotParts ==
  ASSUME NEW s \in Snapshot
  PROVE  /\ s.pieces \in SUBSET Chunk /\ s.markers \in SUBSET MarkerId
         /\ s.rev \in Nat /\ s.audio_rev \in Nat
         /\ Content(s).pieces = s.pieces /\ Content(s).markers = s.markers
BY DEF Snapshot, Content

\* The fields of a history.
LEMMA HistoryParts ==
  ASSUME NEW hs \in HistoryState
  PROVE  /\ hs.current \in Snapshot
         /\ hs.next_rev \in Nat /\ hs.next_audio_rev \in Nat /\ hs.next_seq \in Nat
         /\ hs.saved_seq \in Nat /\ hs.next_marker_id \in Nat
         /\ \A i \in DOMAIN hs.undo : hs.undo[i].snapshot \in Snapshot /\ hs.undo[i].seq \in Nat
         /\ \A i \in DOMAIN hs.redo : hs.redo[i].snapshot \in Snapshot /\ hs.redo[i].seq \in Nat
<1>1. \A i \in DOMAIN hs.undo : hs.undo[i] \in Entry
  BY StackShape
<1>2. \A i \in DOMAIN hs.redo : hs.redo[i] \in Entry
  BY StackShape
<1> QED BY <1>1, <1>2 DEF HistoryState, Entry

\* A commit adds one document to those a history holds.
LEMMA CommitContents ==
  ASSUME NEW hs \in HistoryState, NEW e \in EditOps
  PROVE  Contents(Commit(hs, e)) \subseteq Contents(hs) \cup {Content(Prepared(hs, e))}
<1> DEFINE n  == Len(hs.undo)
           hc == Commit(hs, e)
<1>1. n \in Nat /\ DOMAIN hs.undo = 1..n
  BY StackShape
<1>2. hc \in HistoryState
  BY CommitType
<1>3. DOMAIN hc.undo = 1..(n + 1) /\ DOMAIN hc.redo = 1..0
  BY <1>2, StackShape, CommitEffect
<1>4. /\ \A i \in 1..n : hc.undo[i] = hs.undo[i]
      /\ hc.undo[n + 1].snapshot = hs.current
      /\ hc.current = Prepared(hs, e)
  <2>1. hc.undo[n + 1]
          = [snapshot |-> hs.current, seq |-> hs.next_seq, audio |-> ChangesAudio(e)]
    BY CommitEffect
  <2> QED BY <2>1, CommitEffect
<1> HIDE DEF hc, n
<1>5. \A i \in 1..(n + 1) : hc.undo[i].snapshot = hs.current \/ i \in 1..n
  BY <1>1, <1>4
<1> QED BY <1>1, <1>3, <1>4, <1>5 DEF Contents, hc

\* Restamping keeps what a document holds.
LEMMA RestampContent ==
  ASSUME NEW hs \in HistoryState, NEW s \in Snapshot, NEW audio \in BOOLEAN
  PROVE  Content(Restamp(hs, s, audio)) = Content(s)
BY RestampType DEF Content

\* An undo keeps the documents a history holds.
LEMMA UndoneContents ==
  ASSUME NEW hs \in HistoryState, hs.undo # <<>>
  PROVE  /\ Contents(Undone(hs)) \subseteq Contents(hs)
         /\ Content(Undone(hs).current) = Content(Top(hs.undo).snapshot)
<1> DEFINE n  == Len(hs.undo)
           m  == Len(hs.redo)
           hu == Undone(hs)
<1>1. n \in Nat \ {0} /\ DOMAIN hs.undo = 1..n /\ m \in Nat /\ DOMAIN hs.redo = 1..m
  BY StackShape, UndoneEffect
<1>2. hu \in HistoryState
  BY UndoneType
<1>3. DOMAIN hu.undo = 1..(n - 1) /\ DOMAIN hu.redo = 1..(m + 1)
  BY <1>2, StackShape, UndoneEffect
<1>4. /\ \A i \in 1..(n - 1) : hu.undo[i] = hs.undo[i]
      /\ \A i \in 1..m : hu.redo[i] = hs.redo[i]
      /\ hu.redo[m + 1].snapshot = hs.current
      /\ hu.current = Restamp(hs, Top(hs.undo).snapshot, Top(hs.undo).audio)
  BY UndoneEffect
<1>5. Top(hs.undo) = hs.undo[n] /\ n \in DOMAIN hs.undo /\ hs.undo[n] \in Entry
  BY <1>1, StackShape DEF Top
<1>6. Content(hu.current) = Content(hs.undo[n].snapshot)
  BY <1>4, <1>5, RestampContent DEF Entry
<1> HIDE DEF hu, n, m
<1>7. \A i \in 1..(m + 1) : hu.redo[i].snapshot = hs.current \/ i \in 1..m
  BY <1>1, <1>4
<1>8. \A i \in 1..(n - 1) : i \in 1..n
  BY <1>1
<1>9. Contents(hu) \subseteq Contents(hs)
  BY <1>1, <1>3, <1>4, <1>5, <1>6, <1>7, <1>8 DEF Contents
<1> QED BY <1>5, <1>6, <1>9 DEF hu

\* A redo keeps the documents a history holds.
LEMMA RedoneContents ==
  ASSUME NEW hs \in HistoryState, hs.redo # <<>>
  PROVE  /\ Contents(Redone(hs)) \subseteq Contents(hs)
         /\ Content(Redone(hs).current) = Content(Top(hs.redo).snapshot)
<1> DEFINE n  == Len(hs.redo)
           m  == Len(hs.undo)
           hr == Redone(hs)
<1>1. n \in Nat \ {0} /\ DOMAIN hs.redo = 1..n /\ m \in Nat /\ DOMAIN hs.undo = 1..m
  BY StackShape, RedoneEffect
<1>2. hr \in HistoryState
  BY RedoneType
<1>3. DOMAIN hr.redo = 1..(n - 1) /\ DOMAIN hr.undo = 1..(m + 1)
  BY <1>2, StackShape, RedoneEffect
<1>4. /\ \A i \in 1..(n - 1) : hr.redo[i] = hs.redo[i]
      /\ \A i \in 1..m : hr.undo[i] = hs.undo[i]
      /\ hr.undo[m + 1].snapshot = hs.current
      /\ hr.current = Restamp(hs, Top(hs.redo).snapshot, Top(hs.redo).audio)
  BY RedoneEffect
<1>5. Top(hs.redo) = hs.redo[n] /\ n \in DOMAIN hs.redo /\ hs.redo[n] \in Entry
  BY <1>1, StackShape DEF Top
<1>6. Content(hr.current) = Content(hs.redo[n].snapshot)
  BY <1>4, <1>5, RestampContent DEF Entry
<1> HIDE DEF hr, n, m
<1>7. \A i \in 1..(m + 1) : hr.undo[i].snapshot = hs.current \/ i \in 1..m
  BY <1>1, <1>4
<1>8. \A i \in 1..(n - 1) : i \in 1..n
  BY <1>1
<1>9. Contents(hr) \subseteq Contents(hs)
  BY <1>1, <1>3, <1>4, <1>5, <1>6, <1>7, <1>8 DEF Contents
<1> QED BY <1>5, <1>6, <1>9 DEF hr

\* A drop adds no document.
LEMMA DroppedContents ==
  ASSUME NEW hs \in HistoryState, NEW n \in 1..Len(hs.undo)
  PROVE  Contents(DroppedOldest(hs, n)) \subseteq Contents(hs)
<1> DEFINE k  == Len(hs.undo)
           hd == DroppedOldest(hs, n)
<1>1. k \in Nat /\ DOMAIN hs.undo = 1..k
  BY StackShape
<1>2. hd \in HistoryState
  BY DroppedType
<1>3. /\ DOMAIN hd.undo = 1..(k - n)
      /\ \A i \in 1..(k - n) : hd.undo[i] = hs.undo[n + i]
      /\ hd.redo = hs.redo /\ hd.current = hs.current
  BY <1>2, StackShape, DroppedEffect
<1> HIDE DEF hd
<1>4. \A i \in 1..(k - n) : n + i \in 1..k
  BY <1>1
<1> HIDE DEF k
<1> QED BY <1>1, <1>3, <1>4 DEF Contents, hd

\* Marking as saved and handing out an id keep the documents.
LEMMA OtherContents ==
  ASSUME NEW hs \in HistoryState
  PROVE  /\ \A seq : Contents(MarkedSavedAt(hs, seq)) = Contents(hs)
         /\ Contents(AllocatedMarker(hs)) = Contents(hs)
         /\ \A p, M : Contents(Rebased(hs, p, M)) = {[pieces |-> p, markers |-> M]}
<1>1. /\ \A seq : Contents(MarkedSavedAt(hs, seq)) = Contents(hs)
      /\ Contents(AllocatedMarker(hs)) = Contents(hs)
  BY DEF Contents, MarkedSavedAt, AllocatedMarker, HistoryState
<1>2. \A p, M : Contents(Rebased(hs, p, M)) = {[pieces |-> p, markers |-> M]}
  BY DEF Contents, Rebased, Content
<1> QED BY <1>1, <1>2

-----------------------------------------------------------------------------
(* The line of documents, and the seq under which each is known: the seq   *)
(* current_seq() has while the document is the current one.                *)

Documents == [pieces : SUBSET Chunk, markers : SUBSET MarkerId]

\* The document at position i of the line, read off the two stacks.
LineAt(hs, i) ==
  IF i <= Len(hs.undo) THEN Content(hs.undo[i].snapshot)
  ELSE IF i = Len(hs.undo) + 1 THEN Content(hs.current)
  ELSE Content(hs.redo[Len(hs.undo) + Len(hs.redo) + 2 - i].snapshot)

\* The seq of the edit that made the document at position i; 0 at the floor.
NameAt(hs, i) ==
  IF i = 1 THEN 0
  ELSE IF i <= Len(hs.undo) + 1 THEN hs.undo[i - 1].seq
  ELSE hs.redo[Len(hs.undo) + Len(hs.redo) + 2 - i].seq

LineLen(hs) == Len(hs.undo) + 1 + Len(hs.redo)

\* Wherever the line has a document that seq q names, it is d.
Names(hs, q, d) == \A i \in 1..LineLen(hs) : NameAt(hs, i) = q => LineAt(hs, i) = d

\* The same documents under the same seqs.
SameWay(hs, gs) ==
  /\ LineLen(hs) = LineLen(gs)
  /\ \A i \in 1..LineLen(gs) : LineAt(hs, i) = LineAt(gs, i) /\ NameAt(hs, i) = NameAt(gs, i)

\* The content of a snapshot is a document.
LEMMA ContentType ==
  /\ \A s \in Snapshot : Content(s) \in Documents
  /\ \A hs \in HistoryState : Content(hs.current) \in Documents
BY DEF Snapshot, Content, Documents, HistoryState

\* The line is a sequence of documents, one per entry and the current one.
LEMMA LineProperties ==
  ASSUME NEW hs \in HistoryState
  PROVE  /\ LineOf(hs) \in Seq(Documents)
         /\ Len(LineOf(hs)) = Len(hs.undo) + 1 + Len(hs.redo)
         /\ \A i \in 1..(Len(hs.undo) + 1 + Len(hs.redo)) : LineOf(hs)[i] = LineAt(hs, i)
<1> DEFINE u == Len(hs.undo)
           r == Len(hs.redo)
           n == u + 1 + r
<1>1. /\ u \in Nat /\ r \in Nat
      /\ \A i \in 1..u : hs.undo[i] \in Entry
      /\ \A i \in 1..r : hs.redo[i] \in Entry
  BY StackShape
<1>2. \A s \in Snapshot : Content(s) \in Documents
  BY DEF Snapshot, Content, Documents
<1>3. hs.current \in Snapshot /\ \A x \in Entry : x.snapshot \in Snapshot
  BY DEF HistoryState, Entry
<1>4. LineOf(hs) = [i \in 1..n |-> LineAt(hs, i)]
  BY DEF LineOf, LineAt
<1>5. \A i : LineAt(hs, i) = IF i <= u THEN Content(hs.undo[i].snapshot)
                             ELSE IF i = u + 1 THEN Content(hs.current)
                             ELSE Content(hs.redo[u + r + 2 - i].snapshot)
  BY DEF LineAt
<1> HIDE DEF u, r
<1>6. ASSUME NEW i \in 1..n PROVE LineAt(hs, i) \in Documents
  <2>1. CASE i <= u
    <3>1. i \in 1..u
      BY <1>1, <2>1
    <3> QED BY <1>1, <1>2, <1>3, <1>5, <2>1, <3>1
  <2>2. CASE i = u + 1
    <3>1. ~(i <= u)
      BY <1>1, <2>2
    <3> QED BY <1>2, <1>3, <1>5, <2>2, <3>1
  <2>3. CASE i > u + 1
    <3>1. u + r + 2 - i \in 1..r /\ ~(i <= u) /\ i # u + 1
      BY <1>1, <2>3
    <3> QED BY <1>1, <1>2, <1>3, <1>5, <3>1
  <2> QED BY <1>1, <2>1, <2>2, <2>3
<1>7. n \in Nat /\ LineOf(hs) \in [1..n -> Documents]
  BY <1>1, <1>4, <1>6
<1>8. \A i \in 1..n : LineOf(hs)[i] = LineAt(hs, i)
  BY <1>4
<1>9. LineOf(hs) \in Seq(Documents) /\ Len(LineOf(hs)) = n
  <2> HIDE DEF n
  <2>1. LineOf(hs) \in Seq(Documents)
    BY <1>7, SeqDef
  <2>2. DOMAIN LineOf(hs) = 1..n /\ DOMAIN LineOf(hs) = 1..Len(LineOf(hs))
    BY <1>7, <2>1, LenProperties
  <2>3. Len(LineOf(hs)) \in Nat
    BY <2>1, LenProperties
  <2> QED BY <1>7, <2>1, <2>2, <2>3
<1> QED BY <1>8, <1>9 DEF u, r

\* Two histories with the same documents at every position.
LEMMA SameLine ==
  ASSUME NEW hs \in HistoryState, NEW gs \in HistoryState, SameWay(hs, gs)
  PROVE  LineOf(hs) = LineOf(gs)
<1> DEFINE n == Len(gs.undo) + 1 + Len(gs.redo)
<1>1. /\ LineOf(hs) \in Seq(Documents) /\ LineOf(gs) \in Seq(Documents)
      /\ Len(LineOf(hs)) = n /\ Len(LineOf(gs)) = n
      /\ \A i \in 1..n : LineOf(hs)[i] = LineAt(hs, i) /\ LineOf(gs)[i] = LineAt(gs, i)
  BY LineProperties DEF SameWay, LineLen
<1>2. \A i \in 1..n : LineAt(hs, i) = LineAt(gs, i)
  BY DEF SameWay, LineLen
<1> HIDE DEF n
<1> QED BY <1>1, <1>2, SeqEqual

\* What restamp puts back is the document that was saved.
LEMMA RestoredContent ==
  ASSUME NEW hs \in HistoryState, NEW stack \in Seq(Entry), stack # <<>>
  PROVE  Content(Restamp(hs, Top(stack).snapshot, Top(stack).audio))
           = Content(stack[Len(stack)].snapshot)
<1>1. Top(stack) \in Entry /\ Top(stack) = stack[Len(stack)]
  BY PopType DEF Top
<1> QED BY <1>1, RestampType DEF Entry, Content

\* Without undo and redo the line is the current document alone.
LEMMA OneDocument ==
  ASSUME NEW hs \in HistoryState, hs.undo = <<>>, hs.redo = <<>>
  PROVE  LineOf(hs) = <<Content(hs.current)>> /\ Len(LineOf(hs)) = 1
<1>1. Len(hs.undo) = 0 /\ Len(hs.redo) = 0
  BY EmptySeq
<1>2. /\ LineOf(hs) \in Seq(Documents) /\ Len(LineOf(hs)) = 1
      /\ LineOf(hs)[1] = LineAt(hs, 1)
  <2> DEFINE n == Len(hs.undo) + 1 + Len(hs.redo)
  <2>1. n = 1 /\ 1 \in 1..1
    BY <1>1
  <2>2. /\ LineOf(hs) \in Seq(Documents) /\ Len(LineOf(hs)) = n
        /\ \A i \in 1..n : LineOf(hs)[i] = LineAt(hs, i)
    BY LineProperties
  <2> HIDE DEF n
  <2> QED BY <2>1, <2>2
<1>3. LineAt(hs, 1) = Content(hs.current)
  BY <1>1 DEF LineAt
<1>4. Content(hs.current) \in Documents
  BY DEF HistoryState, Snapshot, Content, Documents
<1> DEFINE d == Content(hs.current)
<1> HIDE DEF d
<1>5. <<d>> \in Seq(Documents) /\ Len(<<d>>) = 1 /\ <<d>>[1] = d
  BY <1>4 DEF d
<1>6. LineOf(hs) = <<d>>
  <2>1. \A i \in 1..1 : LineOf(hs)[i] = <<d>>[i]
    BY <1>2, <1>3, <1>5 DEF d
  <2> QED BY <1>2, <1>5, <2>1, SeqEqual
<1> QED BY <1>2, <1>6 DEF d

\* The seq of the current document is current_seq.
LEMMA CurrentName ==
  ASSUME NEW hs \in HistoryState
  PROVE  /\ PositionOf(hs) \in 1..LineLen(hs)
         /\ NameAt(hs, PositionOf(hs)) = CurrentSeq(hs)
         /\ LineAt(hs, PositionOf(hs)) = Content(hs.current)
<1> DEFINE u == Len(hs.undo)
           r == Len(hs.redo)
           p == PositionOf(hs)
<1>1. u \in Nat /\ r \in Nat /\ hs.undo \in Seq(Entry)
  BY StackShape
<1>2. p = u + 1 /\ LineLen(hs) = u + 1 + r
  BY DEF PositionOf, LineLen
<1>3. /\ p = 1 => NameAt(hs, p) = 0
      /\ p # 1 /\ p <= u + 1 => NameAt(hs, p) = hs.undo[p - 1].seq
      /\ ~(p <= u) /\ p = u + 1 => LineAt(hs, p) = Content(hs.current)
  BY DEF NameAt, LineAt
<1>4. hs.undo = <<>> <=> u = 0
  BY <1>1, EmptySeq
<1>5. CurrentSeq(hs) = IF u = 0 THEN 0 ELSE hs.undo[u].seq
  BY <1>4 DEF CurrentSeq
<1> HIDE DEF u, r, p
<1>6. ~(p <= u) /\ p <= u + 1 /\ p - 1 = u /\ p \in 1..(u + 1 + r) /\ (p = 1 <=> u = 0)
  BY <1>1, <1>2
<1>7. NameAt(hs, p) = CurrentSeq(hs)
  BY <1>3, <1>5, <1>6
<1> QED BY <1>2, <1>3, <1>6, <1>7 DEF p

\* An edit cuts the line after the current document and appends the new one,
\* under the next seq.
LEMMA CommitLine ==
  ASSUME NEW hs \in HistoryState, NEW e \in EditOps
  PROVE  /\ Content(Commit(hs, e).current) \in Documents
         /\ PositionOf(Commit(hs, e)) = PositionOf(hs) + 1
         /\ LineOf(Commit(hs, e)) = Append(SubSeq(LineOf(hs), 1, PositionOf(hs)),
                                           Content(Commit(hs, e).current))
         /\ LineLen(Commit(hs, e)) = PositionOf(hs) + 1
         /\ \A i \in 1..PositionOf(hs) : NameAt(Commit(hs, e), i) = NameAt(hs, i)
         /\ NameAt(Commit(hs, e), PositionOf(hs) + 1) = hs.next_seq
         /\ \A q, f : q # hs.next_seq /\ Names(hs, q, f) => Names(Commit(hs, e), q, f)
<1> DEFINE hc   == Commit(hs, e)
           u    == Len(hs.undo)
           r    == Len(hs.redo)
           line == LineOf(hs)
           new  == LineOf(hc)
           d    == Content(hc.current)
           kept == SubSeq(line, 1, u + 1)
<1>1. hc \in HistoryState
  BY CommitType
<1>2. u \in Nat /\ r \in Nat
  BY StackShape
<1>3. /\ Len(hc.undo) = u + 1
      /\ \A i \in 1..u : hc.undo[i] = hs.undo[i]
      /\ hc.undo[u + 1].snapshot = hs.current /\ hc.undo[u + 1].seq = hs.next_seq
      /\ Len(hc.redo) = 0
  <2>1. /\ Len(Commit(hs, e).undo) = u + 1
        /\ \A i \in 1..u : Commit(hs, e).undo[i] = hs.undo[i]
        /\ Commit(hs, e).undo[u + 1]
             = [snapshot |-> hs.current, seq |-> hs.next_seq, audio |-> ChangesAudio(e)]
        /\ Len(Commit(hs, e).redo) = 0
    BY CommitEffect
  <2> QED BY <2>1
<1>4. d \in Documents
  BY <1>1, ContentType
<1>5. /\ line \in Seq(Documents) /\ Len(line) = u + 1 + r
      /\ \A i \in 1..(u + 1 + r) : line[i] = LineAt(hs, i)
  BY LineProperties
<1>6. /\ new \in Seq(Documents) /\ Len(new) = u + 1 + 1 + 0
      /\ \A i \in 1..(u + 1 + 1 + 0) : new[i] = LineAt(hc, i)
  BY <1>1, <1>3, LineProperties
<1>7. \A i : /\ i <= u => LineAt(hs, i) = Content(hs.undo[i].snapshot)
             /\ ~(i <= u) /\ i = u + 1 => LineAt(hs, i) = Content(hs.current)
             /\ i <= u + 1 => LineAt(hc, i) = Content(hc.undo[i].snapshot)
             /\ ~(i <= u + 1) /\ i = u + 1 + 1 => LineAt(hc, i) = d
  BY <1>3 DEF LineAt
<1>8. PositionOf(hs) = u + 1 /\ PositionOf(hc) = u + 1 + 1
  BY <1>3 DEF PositionOf
<1>14. \A i : /\ i = 1 => NameAt(hs, i) = 0 /\ NameAt(hc, i) = 0
              /\ i # 1 /\ i <= u + 1 => NameAt(hs, i) = hs.undo[i - 1].seq
              /\ i # 1 /\ i <= u + 1 + 1 => NameAt(hc, i) = hc.undo[i - 1].seq
  BY <1>3 DEF NameAt
<1>15. LineLen(hs) = u + 1 + r /\ LineLen(hc) = u + 1 + 1 + 0
  BY <1>3 DEF LineLen
<1> HIDE DEF u, r, line, new, d, hc
<1>9. /\ kept \in Seq(Documents) /\ Len(kept) = u + 1
      /\ \A i \in 1..(u + 1) : kept[i] = line[i]
  <2>1. \A i \in 1..(u + 1) : i \in 1..Len(line)
    BY <1>2, <1>5
  <2>2. \A i \in 1..(u + 1) : line[i] \in Documents
    BY <1>5, <2>1, ElementOfSeq
  <2>3. /\ kept \in Seq(Documents)
        /\ Len(kept) = IF 1 <= u + 1 THEN u + 1 - 1 + 1 ELSE 0
        /\ \A i \in 1..(u + 1 - 1 + 1) : kept[i] = line[1 + i - 1]
    BY <1>2, <2>2, SubSeqProperties
  <2> HIDE DEF kept
  <2> QED BY <1>2, <2>3
<1> HIDE DEF kept
<1>10. /\ Append(kept, d) \in Seq(Documents) /\ Len(Append(kept, d)) = u + 1 + 1
       /\ \A i \in 1..(u + 1) : Append(kept, d)[i] = kept[i]
       /\ Append(kept, d)[u + 1 + 1] = d
  BY <1>4, <1>9, AppendProperties
<1>16. \A i \in 1..(u + 1) : LineAt(hc, i) = LineAt(hs, i)
  <2> SUFFICES ASSUME NEW i \in 1..(u + 1) PROVE LineAt(hc, i) = LineAt(hs, i)
    OBVIOUS
  <2>1. CASE i \in 1..u
    <3>1. i <= u /\ i <= u + 1
      BY <1>2, <2>1
    <3> QED BY <1>3, <1>7, <2>1, <3>1
  <2>2. CASE i = u + 1
    <3>1. ~(i <= u) /\ i <= u + 1
      BY <1>2, <2>2
    <3> QED BY <1>3, <1>7, <2>2, <3>1
  <2>3. i \in 1..u \/ i = u + 1
    BY <1>2
  <2> QED BY <2>1, <2>2, <2>3
<1>11. ASSUME NEW i \in 1..(u + 1 + 1) PROVE new[i] = Append(kept, d)[i]
  <2>1. new[i] = LineAt(hc, i) /\ i \in Nat
    BY <1>2, <1>6
  <2>2. CASE i \in 1..(u + 1)
    <3>1. i \in 1..(u + 1 + r)
      BY <1>2, <2>2
    <3> QED BY <1>5, <1>9, <1>10, <1>16, <2>1, <2>2, <3>1
  <2>3. CASE i = u + 1 + 1
    <3>1. ~(i <= u + 1)
      BY <1>2, <2>3
    <3> QED BY <1>7, <1>10, <2>1, <2>3, <3>1
  <2>4. i \in 1..(u + 1) \/ i = u + 1 + 1
    BY <1>2
  <2> QED BY <2>2, <2>3, <2>4
<1>12. new = Append(kept, d)
  <2>1. Len(new) = Len(Append(kept, d)) /\ Len(new) = u + 1 + 1
    BY <1>2, <1>6, <1>10
  <2>2. \A i \in 1..Len(new) : new[i] = Append(kept, d)[i]
    BY <1>11, <2>1
  <2> QED BY <1>6, <1>10, <2>1, <2>2, SeqEqual
<1>17. ASSUME NEW i \in 1..(u + 1)
       PROVE  NameAt(hc, i) = NameAt(hs, i)
  <2>1. i <= u + 1 /\ i <= u + 1 + 1 /\ (i # 1 => i - 1 \in 1..u)
    BY <1>2
  <2> QED BY <1>3, <1>14, <2>1
<1>18. NameAt(hc, u + 1 + 1) = hs.next_seq
  <2>1. u + 1 + 1 # 1 /\ u + 1 + 1 <= u + 1 + 1 /\ u + 1 + 1 - 1 = u + 1
    BY <1>2
  <2> QED BY <1>3, <1>14, <2>1
<1>13. ASSUME NEW q, NEW f, q # hs.next_seq, Names(hs, q, f)
       PROVE  Names(hc, q, f)
  <2> SUFFICES ASSUME NEW i \in 1..(u + 1 + 1), NameAt(hc, i) = q
               PROVE  LineAt(hc, i) = f
    BY <1>2, <1>15 DEF Names
  <2>1. i # u + 1 + 1
    BY <1>13, <1>18
  <2>2. i \in 1..(u + 1) /\ i \in 1..(u + 1 + r)
    BY <1>2, <2>1
  <2>3. NameAt(hs, i) = q
    BY <1>17, <2>2
  <2>4. LineAt(hs, i) = f
    BY <1>13, <1>15, <2>2, <2>3 DEF Names
  <2> QED BY <1>16, <2>2, <2>4
<1>19. /\ LineLen(hc) = PositionOf(hs) + 1
       /\ \A i \in 1..PositionOf(hs) : NameAt(hc, i) = NameAt(hs, i)
       /\ NameAt(hc, PositionOf(hs) + 1) = hs.next_seq
  BY <1>2, <1>8, <1>15, <1>17, <1>18
<1> QED BY <1>4, <1>8, <1>12, <1>13, <1>19 DEF hc, new, kept, line, d

\* Undo moves the top of the undo stack to current and current to the redo
\* stack: the line and its seqs are the same, the position is one less.
LEMMA UndoneLine ==
  ASSUME NEW hs \in HistoryState, hs.undo # <<>>
  PROVE  /\ LineOf(Undone(hs)) = LineOf(hs) /\ SameWay(Undone(hs), hs)
         /\ PositionOf(hs) > 1 /\ PositionOf(Undone(hs)) = PositionOf(hs) - 1
<1> DEFINE hu == Undone(hs)
           u  == Len(hs.undo)
           r  == Len(hs.redo)
           x  == u - 1
           y  == r + 1
<1>1. hu \in HistoryState
  BY UndoneType
<1>2. u \in Nat \ {0} /\ r \in Nat
  BY StackShape, UndoneEffect
<1>3. /\ Len(hu.undo) = x /\ Len(hu.redo) = y
      /\ \A i \in 1..x : hu.undo[i] = hs.undo[i]
      /\ \A i \in 1..r : hu.redo[i] = hs.redo[i]
      /\ hu.redo[y].snapshot = hs.current /\ hu.redo[y].seq = hs.undo[u].seq
      /\ hu.current = Restamp(hs, Top(hs.undo).snapshot, Top(hs.undo).audio)
  BY UndoneEffect
<1>4. Content(hu.current) = Content(hs.undo[u].snapshot)
  BY <1>3, StackShape, RestoredContent
<1>5. \A i : LineAt(hs, i) = IF i <= u THEN Content(hs.undo[i].snapshot)
                             ELSE IF i = u + 1 THEN Content(hs.current)
                             ELSE Content(hs.redo[u + r + 2 - i].snapshot)
  BY DEF LineAt
<1>15. \A i : NameAt(hs, i) = IF i = 1 THEN 0
                              ELSE IF i <= u + 1 THEN hs.undo[i - 1].seq
                              ELSE hs.redo[u + r + 2 - i].seq
  BY DEF NameAt
<1>6. \A i : LineAt(hu, i) = IF i <= x THEN Content(hu.undo[i].snapshot)
                             ELSE IF i = x + 1 THEN Content(hu.current)
                             ELSE Content(hu.redo[x + y + 2 - i].snapshot)
  BY <1>3 DEF LineAt
<1>16. \A i : NameAt(hu, i) = IF i = 1 THEN 0
                              ELSE IF i <= x + 1 THEN hu.undo[i - 1].seq
                              ELSE hu.redo[x + y + 2 - i].seq
  BY <1>3 DEF NameAt
<1>7. PositionOf(hs) = u + 1 /\ PositionOf(hu) = x + 1
  BY <1>3 DEF PositionOf
<1>8. LineLen(hs) = u + 1 + r /\ LineLen(hu) = x + 1 + y
  BY <1>3 DEF LineLen
<1> HIDE DEF hu, u, r
<1>9. x + 1 = u /\ x + 1 + y = u + 1 + r /\ x \in Nat /\ y \in Nat
      /\ \A i : x + y + 2 - i = u + r + 2 - i
  BY <1>2
<1>10. x + y + 2 - (u + 1) = y
  BY <1>2
<1> HIDE DEF x, y
<1>11. ASSUME NEW i \in 1..(u + 1 + r)
       PROVE  LineAt(hu, i) = LineAt(hs, i) /\ NameAt(hu, i) = NameAt(hs, i)
  <2>1. CASE i <= x
    <3>1. i \in 1..x /\ i <= u /\ i <= u + 1 /\ i <= x + 1 /\ (i # 1 => i - 1 \in 1..x)
      BY <1>2, <1>9, <2>1
    <3>2. LineAt(hu, i) = LineAt(hs, i)
      BY ONLY <1>3, <1>5, <1>6, <2>1, <3>1
    <3>3. NameAt(hu, i) = NameAt(hs, i)
      BY ONLY <1>3, <1>15, <1>16, <3>1
    <3> QED BY <3>2, <3>3
  <2>2. CASE i = u
    <3>1. ~(i <= x) /\ i = x + 1 /\ i <= u /\ i <= u + 1 /\ (i # 1 => i - 1 \in 1..x)
      BY <1>2, <1>9, <2>2
    <3>2. LineAt(hu, i) = LineAt(hs, i)
      BY ONLY <1>4, <1>5, <1>6, <2>2, <3>1
    <3>3. NameAt(hu, i) = NameAt(hs, i)
      <4>1. i <= x + 1
        BY <1>9, <3>1
      <4> QED BY ONLY <1>3, <1>15, <1>16, <3>1, <4>1
    <3> QED BY <3>2, <3>3
  <2>3. CASE i = u + 1
    <3>1. /\ ~(i <= x) /\ i # x + 1 /\ ~(i <= x + 1) /\ ~(i <= u) /\ i <= u + 1
          /\ i # 1 /\ i - 1 = u
      BY <1>2, <1>9, <2>3
    <3>2. x + y + 2 - i = y
      BY <1>10, <2>3
    <3>3. LineAt(hu, i) = Content(hu.redo[y].snapshot) /\ LineAt(hs, i) = Content(hs.current)
      BY ONLY <1>5, <1>6, <2>3, <3>1, <3>2
    <3>4. NameAt(hu, i) = hu.redo[y].seq /\ NameAt(hs, i) = hs.undo[u].seq
      BY ONLY <1>15, <1>16, <3>1, <3>2
    <3> QED BY ONLY <1>3, <3>3, <3>4
  <2>4. CASE i > u + 1
    <3>1. /\ ~(i <= x) /\ i # x + 1 /\ ~(i <= x + 1) /\ ~(i <= u) /\ i # u + 1
          /\ ~(i <= u + 1) /\ i # 1 /\ u + r + 2 - i \in 1..r
      BY <1>2, <1>9, <2>4
    <3> DEFINE j == u + r + 2 - i
    <3>2. x + y + 2 - i = j /\ j \in 1..r
      BY <1>9, <3>1
    <3>3. LineAt(hs, i) = Content(hs.redo[j].snapshot) /\ NameAt(hs, i) = hs.redo[j].seq
      BY <1>5, <1>15, <3>1
    <3> HIDE DEF j
    <3>4. LineAt(hu, i) = Content(hu.redo[j].snapshot) /\ NameAt(hu, i) = hu.redo[j].seq
      BY ONLY <1>6, <1>16, <3>1, <3>2
    <3> QED BY ONLY <1>3, <3>2, <3>3, <3>4
  <2>5. i <= x \/ i = u \/ i = u + 1 \/ i > u + 1
    BY <1>2, <1>9
  <2> QED BY <2>1, <2>2, <2>3, <2>4, <2>5
<1>12. SameWay(hu, hs)
  BY <1>8, <1>9, <1>11 DEF SameWay
<1>13. LineOf(hu) = LineOf(hs)
  BY <1>1, <1>12, SameLine
<1>14. PositionOf(hs) > 1 /\ PositionOf(hu) = PositionOf(hs) - 1
  BY <1>2, <1>7, <1>9
<1> QED BY <1>12, <1>13, <1>14 DEF hu

\* Redo is the mirror image of undo.
LEMMA RedoneLine ==
  ASSUME NEW hs \in HistoryState, hs.redo # <<>>
  PROVE  /\ LineOf(Redone(hs)) = LineOf(hs) /\ SameWay(Redone(hs), hs)
         /\ PositionOf(hs) < Len(LineOf(hs))
         /\ PositionOf(Redone(hs)) = PositionOf(hs) + 1
<1> DEFINE hr == Redone(hs)
           u  == Len(hs.undo)
           r  == Len(hs.redo)
           x  == u + 1
           y  == r - 1
<1>1. hr \in HistoryState
  BY RedoneType
<1>2. u \in Nat /\ r \in Nat \ {0}
  BY StackShape, RedoneEffect
<1>3. /\ Len(hr.undo) = x /\ Len(hr.redo) = y
      /\ \A i \in 1..u : hr.undo[i] = hs.undo[i]
      /\ \A i \in 1..y : hr.redo[i] = hs.redo[i]
      /\ hr.undo[x].snapshot = hs.current /\ hr.undo[x].seq = hs.redo[r].seq
      /\ hr.current = Restamp(hs, Top(hs.redo).snapshot, Top(hs.redo).audio)
  BY RedoneEffect
<1>4. Content(hr.current) = Content(hs.redo[r].snapshot)
  BY <1>3, StackShape, RestoredContent
<1>5. \A i : LineAt(hs, i) = IF i <= u THEN Content(hs.undo[i].snapshot)
                             ELSE IF i = u + 1 THEN Content(hs.current)
                             ELSE Content(hs.redo[u + r + 2 - i].snapshot)
  BY DEF LineAt
<1>15. \A i : NameAt(hs, i) = IF i = 1 THEN 0
                              ELSE IF i <= u + 1 THEN hs.undo[i - 1].seq
                              ELSE hs.redo[u + r + 2 - i].seq
  BY DEF NameAt
<1>6. \A i : LineAt(hr, i) = IF i <= x THEN Content(hr.undo[i].snapshot)
                             ELSE IF i = x + 1 THEN Content(hr.current)
                             ELSE Content(hr.redo[x + y + 2 - i].snapshot)
  BY <1>3 DEF LineAt
<1>16. \A i : NameAt(hr, i) = IF i = 1 THEN 0
                              ELSE IF i <= x + 1 THEN hr.undo[i - 1].seq
                              ELSE hr.redo[x + y + 2 - i].seq
  BY <1>3 DEF NameAt
<1>7. PositionOf(hs) = u + 1 /\ PositionOf(hr) = x + 1
  BY <1>3 DEF PositionOf
<1>8. /\ LineLen(hs) = u + 1 + r /\ LineLen(hr) = x + 1 + y
      /\ Len(LineOf(hs)) = u + 1 + r
  BY <1>3, LineProperties DEF LineLen
<1> HIDE DEF hr, u, r
<1>9. /\ x = u + 1 /\ x + 1 + y = u + 1 + r /\ u + 1 < u + 1 + r /\ x \in Nat /\ y \in Nat
      /\ \A i : x + y + 2 - i = u + r + 2 - i
  BY <1>2
<1>10. /\ u + r + 2 - (u + 2) = r
       /\ \A i \in 1..(u + 1 + r) : i > u + 2 => u + r + 2 - i \in 1..y
  BY <1>2
<1> HIDE DEF x, y
<1>11. ASSUME NEW i \in 1..(u + 1 + r)
       PROVE  LineAt(hr, i) = LineAt(hs, i) /\ NameAt(hr, i) = NameAt(hs, i)
  <2>1. CASE i <= u
    <3>1. i \in 1..u /\ i <= x /\ i <= u + 1 /\ i <= x + 1 /\ (i # 1 => i - 1 \in 1..u)
      BY <1>2, <1>9, <2>1
    <3>2. LineAt(hr, i) = LineAt(hs, i)
      BY ONLY <1>3, <1>5, <1>6, <2>1, <3>1
    <3>3. NameAt(hr, i) = NameAt(hs, i)
      BY ONLY <1>3, <1>15, <1>16, <3>1
    <3> QED BY <3>2, <3>3
  <2>2. CASE i = u + 1
    <3>1. ~(i <= u) /\ i = x /\ i <= x /\ i <= u + 1 /\ i <= x + 1 /\ (i # 1 => i - 1 \in 1..u)
      BY <1>2, <1>9, <2>2
    <3>2. LineAt(hr, i) = LineAt(hs, i)
      BY ONLY <1>3, <1>5, <1>6, <2>2, <3>1
    <3>3. NameAt(hr, i) = NameAt(hs, i)
      BY ONLY <1>3, <1>15, <1>16, <3>1
    <3> QED BY <3>2, <3>3
  <2>3. CASE i = u + 2
    <3>1. /\ ~(i <= x) /\ i = x + 1 /\ i <= x + 1 /\ ~(i <= u) /\ i # u + 1 /\ ~(i <= u + 1)
          /\ i # 1 /\ i - 1 = x
      BY <1>2, <1>9, <2>3
    <3>2. u + r + 2 - i = r
      BY <1>10, <2>3
    <3>3. LineAt(hr, i) = LineAt(hs, i)
      BY ONLY <1>4, <1>5, <1>6, <3>1, <3>2
    <3>4. NameAt(hr, i) = NameAt(hs, i)
      BY ONLY <1>3, <1>15, <1>16, <3>1, <3>2
    <3> QED BY <3>3, <3>4
  <2>4. CASE i > u + 2
    <3>1. /\ ~(i <= x) /\ i # x + 1 /\ ~(i <= x + 1) /\ ~(i <= u) /\ i # u + 1
          /\ ~(i <= u + 1) /\ i # 1
      BY <1>2, <1>9, <2>4
    <3> DEFINE j == u + r + 2 - i
    <3>2. x + y + 2 - i = j /\ j \in 1..y
      BY <1>9, <1>10, <2>4
    <3>3. LineAt(hs, i) = Content(hs.redo[j].snapshot) /\ NameAt(hs, i) = hs.redo[j].seq
      BY <1>5, <1>15, <3>1
    <3> HIDE DEF j
    <3>4. LineAt(hr, i) = Content(hr.redo[j].snapshot) /\ NameAt(hr, i) = hr.redo[j].seq
      BY ONLY <1>6, <1>16, <3>1, <3>2
    <3> QED BY ONLY <1>3, <3>2, <3>3, <3>4
  <2>5. i <= u \/ i = u + 1 \/ i = u + 2 \/ i > u + 2
    BY <1>2
  <2> QED BY <2>1, <2>2, <2>3, <2>4, <2>5
<1>12. SameWay(hr, hs)
  BY <1>8, <1>9, <1>11 DEF SameWay
<1>13. LineOf(hr) = LineOf(hs)
  BY <1>1, <1>12, SameLine
<1>14. PositionOf(hs) < Len(LineOf(hs)) /\ PositionOf(hr) = PositionOf(hs) + 1
  BY <1>7, <1>8, <1>9
<1> QED BY <1>12, <1>13, <1>14 DEF hr

\* The disk budget removes the bottom of the undo stack: the old end of the
\* line.  The documents left keep their seqs, but the oldest is the floor now.
LEMMA DroppedLine ==
  ASSUME NEW hs \in HistoryState, NEW n \in 1..Len(hs.undo)
  PROVE  /\ n \in 1..Len(LineOf(hs)) /\ n < PositionOf(hs)
         /\ LineOf(DroppedOldest(hs, n)) = SubSeq(LineOf(hs), n + 1, Len(LineOf(hs)))
         /\ PositionOf(DroppedOldest(hs, n)) = PositionOf(hs) - n
         /\ LineLen(DroppedOldest(hs, n)) = LineLen(hs) - n
         /\ \A i \in 1..(LineLen(hs) - n) :
               /\ n + i \in 1..LineLen(hs)
               /\ NameAt(DroppedOldest(hs, n), i) = IF i = 1 THEN 0 ELSE NameAt(hs, n + i)
         /\ \A q, f : q # 0 /\ Names(hs, q, f) => Names(DroppedOldest(hs, n), q, f)
<1> DEFINE hd   == DroppedOldest(hs, n)
           u    == Len(hs.undo)
           r    == Len(hs.redo)
           x    == u - n
           line == LineOf(hs)
           new  == LineOf(hd)
           cut  == SubSeq(line, n + 1, Len(line))
<1>1. hd \in HistoryState
  BY DroppedType
<1>2. u \in Nat /\ r \in Nat
  BY StackShape
<1>3. /\ Len(hd.undo) = x /\ hd.redo = hs.redo /\ hd.current = hs.current
      /\ \A i \in 1..x : hd.undo[i] = hs.undo[n + i]
  BY DroppedEffect
<1>4. \A i : LineAt(hs, i) = IF i <= u THEN Content(hs.undo[i].snapshot)
                             ELSE IF i = u + 1 THEN Content(hs.current)
                             ELSE Content(hs.redo[u + r + 2 - i].snapshot)
  BY DEF LineAt
<1>17. \A i : NameAt(hs, i) = IF i = 1 THEN 0
                              ELSE IF i <= u + 1 THEN hs.undo[i - 1].seq
                              ELSE hs.redo[u + r + 2 - i].seq
  BY DEF NameAt
<1>5. \A i : LineAt(hd, i) = IF i <= x THEN Content(hd.undo[i].snapshot)
                             ELSE IF i = x + 1 THEN Content(hs.current)
                             ELSE Content(hs.redo[x + r + 2 - i].snapshot)
  BY <1>3 DEF LineAt
<1>18. \A i : NameAt(hd, i) = IF i = 1 THEN 0
                              ELSE IF i <= x + 1 THEN hd.undo[i - 1].seq
                              ELSE hs.redo[x + r + 2 - i].seq
  BY <1>3 DEF NameAt
<1>6. PositionOf(hs) = u + 1 /\ PositionOf(hd) = x + 1
  BY <1>3 DEF PositionOf
<1>7. /\ line \in Seq(Documents) /\ Len(line) = u + 1 + r
      /\ \A i \in 1..(u + 1 + r) : line[i] = LineAt(hs, i)
  BY LineProperties
<1>8. /\ new \in Seq(Documents) /\ Len(new) = x + 1 + r
      /\ \A i \in 1..(x + 1 + r) : new[i] = LineAt(hd, i)
  BY <1>1, <1>3, LineProperties
<1>16. LineLen(hs) = u + 1 + r /\ LineLen(hd) = x + 1 + r
  BY <1>3 DEF LineLen
<1>9. n \in Nat /\ n <= u /\ n >= 1 /\ x \in Nat /\ x = u - n
  BY <1>2
<1> HIDE DEF hd, u, r, line, new, x
<1>10. /\ cut \in Seq(Documents) /\ Len(cut) = x + 1 + r
       /\ \A i \in 1..(x + 1 + r) : cut[i] = line[n + i]
  <2> DEFINE m == Len(line)
  <2>1. m = u + 1 + r /\ m \in Int /\ n + 1 \in Int
    BY <1>2, <1>7, <1>9
  <2>2. \A i \in (n + 1)..m : line[i] \in Documents
    <3>1. \A i \in (n + 1)..m : i \in 1..Len(line)
      BY <1>2, <1>9, <2>1
    <3> QED BY <1>7, <3>1, ElementOfSeq
  <2> HIDE DEF m
  <2>3. /\ SubSeq(line, n + 1, m) \in Seq(Documents)
        /\ Len(SubSeq(line, n + 1, m)) = IF n + 1 <= m THEN m - (n + 1) + 1 ELSE 0
        /\ \A i \in 1..(m - (n + 1) + 1) : SubSeq(line, n + 1, m)[i] = line[n + 1 + i - 1]
    BY <2>1, <2>2, SubSeqProperties
  <2>4. n + 1 <= m /\ m - (n + 1) + 1 = x + 1 + r
    BY <1>2, <1>9, <2>1
  <2>5. \A i \in 1..(x + 1 + r) : n + 1 + i - 1 = n + i
    BY <1>2, <1>9
  <2>6. cut = SubSeq(line, n + 1, m)
    BY DEF m
  <2> QED BY <2>3, <2>4, <2>5, <2>6
<1> HIDE DEF cut
<1>11. ASSUME NEW i \in 1..(x + 1 + r)
       PROVE  /\ n + i \in 1..(u + 1 + r)
              /\ LineAt(hd, i) = LineAt(hs, n + i)
              /\ i # 1 => NameAt(hd, i) = NameAt(hs, n + i)
  <2> DEFINE j == n + i
             k == x + r + 2 - i
  <2>1. /\ j \in 1..(u + 1 + r) /\ j # 1 /\ u + r + 2 - j = k
        /\ i \in Nat /\ (i <= x <=> j <= u) /\ (i <= x + 1 <=> j <= u + 1)
        /\ (i = x + 1 <=> j = u + 1)
    BY <1>2, <1>9
  <2>2. i <= x => hd.undo[i] = hs.undo[j]
    <3> SUFFICES ASSUME i <= x PROVE hd.undo[i] = hs.undo[j]
      OBVIOUS
    <3>1. i \in 1..x
      BY <1>9
    <3> QED BY <1>3, <3>1
  <2>3. i # 1 /\ i <= x + 1 => hd.undo[i - 1] = hs.undo[j - 1]
    <3> SUFFICES ASSUME i # 1, i <= x + 1 PROVE hd.undo[i - 1] = hs.undo[j - 1]
      OBVIOUS
    <3>1. i - 1 \in 1..x /\ n + (i - 1) = j - 1
      BY <1>2, <1>9
    <3> QED BY <1>3, <3>1
  <2>4. /\ LineAt(hd, i) = IF i <= x THEN Content(hd.undo[i].snapshot)
                           ELSE IF i = x + 1 THEN Content(hs.current)
                           ELSE Content(hs.redo[k].snapshot)
        /\ NameAt(hd, i) = IF i = 1 THEN 0
                           ELSE IF i <= x + 1 THEN hd.undo[i - 1].seq
                           ELSE hs.redo[k].seq
    BY <1>5, <1>18
  <2> HIDE DEF j, k
  <2>5. LineAt(hd, i) = LineAt(hs, j)
    BY ONLY <1>4, <2>1, <2>2, <2>4
  <2>6. i # 1 => NameAt(hd, i) = NameAt(hs, j)
    BY ONLY <1>17, <2>1, <2>3, <2>4
  <2> QED BY <2>1, <2>5, <2>6 DEF j
<1>12. new = cut
  <2>1. Len(new) = Len(cut) /\ Len(new) = x + 1 + r
    BY <1>8, <1>10
  <2>2. \A i \in 1..(x + 1 + r) : new[i] = cut[i]
    BY <1>7, <1>8, <1>10, <1>11
  <2> QED BY <1>8, <1>10, <2>1, <2>2, SeqEqual
<1>13. ASSUME NEW q, NEW f, q # 0, Names(hs, q, f)
       PROVE  Names(hd, q, f)
  <2> SUFFICES ASSUME NEW i \in 1..(x + 1 + r), NameAt(hd, i) = q
               PROVE  LineAt(hd, i) = f
    BY <1>16 DEF Names
  <2>1. i # 1
    BY <1>13, <1>18
  <2>2. n + i \in 1..(u + 1 + r) /\ NameAt(hs, n + i) = q /\ LineAt(hd, i) = LineAt(hs, n + i)
    BY <1>11, <2>1
  <2> QED BY <1>13, <1>16, <2>2 DEF Names
<1>14. n < PositionOf(hs) /\ PositionOf(hd) = PositionOf(hs) - n
  BY <1>2, <1>6, <1>9
<1>15. n \in 1..Len(LineOf(hs))
  <2>1. Len(LineOf(hs)) = u + 1 + r
    BY <1>7 DEF line
  <2> QED BY <1>2, <1>9, <2>1
<1>19. LineLen(hd) = LineLen(hs) - n /\ LineLen(hs) - n = x + 1 + r
  BY <1>2, <1>9, <1>16
<1>20. ASSUME NEW i \in 1..(x + 1 + r)
       PROVE  n + i \in 1..LineLen(hs) /\ NameAt(hd, i) = IF i = 1 THEN 0 ELSE NameAt(hs, n + i)
  BY <1>11, <1>16, <1>18
<1> QED BY <1>12, <1>13, <1>14, <1>15, <1>19, <1>20 DEF hd, new, cut, line

\* A rebase without undo and redo replaces the only document.
LEMMA RebasedLine ==
  ASSUME NEW hs \in HistoryState, hs.undo = <<>>, hs.redo = <<>>,
         NEW p \in SUBSET Chunk, NEW M \in SUBSET MarkerId
  PROVE  /\ Content(Rebased(hs, p, M).current) \in Documents
         /\ LineOf(Rebased(hs, p, M)) = <<Content(Rebased(hs, p, M).current)>>
         /\ Len(LineOf(hs)) = 1
         /\ PositionOf(Rebased(hs, p, M)) = PositionOf(hs)
<1> DEFINE hb == Rebased(hs, p, M)
<1>1. hb \in HistoryState
  BY RebasedType
<1>2. hb.undo = <<>> /\ hb.redo = <<>>
  BY DEF Rebased
<1>3. Content(hb.current) \in Documents
  BY <1>1, ContentType
<1> HIDE DEF hb
<1>4. LineOf(hb) = <<Content(hb.current)>> /\ Len(LineOf(hs)) = 1
  BY <1>1, <1>2, OneDocument
<1>5. PositionOf(hb) = PositionOf(hs)
  BY <1>2 DEF PositionOf
<1> QED BY <1>3, <1>4, <1>5 DEF hb

\* The same stacks and the same document are the same line.
LEMMA SameStacks ==
  ASSUME NEW hs, NEW gs,
         hs.undo = gs.undo, hs.redo = gs.redo, Content(hs.current) = Content(gs.current)
  PROVE  /\ LineOf(hs) = LineOf(gs) /\ PositionOf(hs) = PositionOf(gs)
         /\ \A q, f : Names(hs, q, f) <=> Names(gs, q, f)
<1>1. LineOf(hs) = LineOf(gs) /\ PositionOf(hs) = PositionOf(gs) /\ LineLen(hs) = LineLen(gs)
  BY DEF LineOf, PositionOf, LineLen
<1>2. \A i : LineAt(hs, i) = LineAt(gs, i) /\ NameAt(hs, i) = NameAt(gs, i)
  BY DEF LineAt, NameAt
<1> QED BY <1>1, <1>2 DEF Names

\* The same way is named the same.
LEMMA SameNames ==
  ASSUME NEW hs, NEW gs, SameWay(hs, gs), NEW q, NEW f, Names(gs, q, f)
  PROVE  Names(hs, q, f)
BY DEF SameWay, Names

-----------------------------------------------------------------------------
(* The seqs on the line grow, so that a seq names at most one document; and *)
(* what the revision counters say of a history nothing was done with yet.   *)

Ordered(hs) ==
  /\ \A i \in 1..LineLen(hs) : NameAt(hs, i) < hs.next_seq
  /\ \A i \in 1..LineLen(hs) : \A j \in 1..LineLen(hs) :
       i < j => NameAt(hs, i) < NameAt(hs, j)

Young(hs) == hs.next_rev >= 2 /\ (hs.next_rev = 2 => Live(hs) = {})

\* What may stand in a checkpoint.
Sane(hs) == Ordered(hs) /\ Young(hs)

\* The same but for marker ids that were handed out.
Alike(a, b) ==
  /\ a.current = b.current /\ a.undo = b.undo /\ a.redo = b.redo
  /\ a.next_rev = b.next_rev /\ a.next_audio_rev = b.next_audio_rev
  /\ a.next_seq = b.next_seq /\ a.saved_seq = b.saved_seq

\* Seqs are natural numbers, the floor's is 0, and there is a floor.
LEMMA NameType ==
  ASSUME NEW hs \in HistoryState
  PROVE  /\ LineLen(hs) \in Nat \ {0} /\ NameAt(hs, 1) = 0
         /\ \A i \in 1..LineLen(hs) : NameAt(hs, i) \in Nat
<1> DEFINE u == Len(hs.undo)
           r == Len(hs.redo)
<1>1. u \in Nat /\ r \in Nat /\ DOMAIN hs.undo = 1..u /\ DOMAIN hs.redo = 1..r
  BY StackShape
<1>2. /\ \A i \in 1..u : hs.undo[i].seq \in Nat
      /\ \A i \in 1..r : hs.redo[i].seq \in Nat
  BY <1>1, HistoryParts
<1>3. \A i : NameAt(hs, i) = IF i = 1 THEN 0
                             ELSE IF i <= u + 1 THEN hs.undo[i - 1].seq
                             ELSE hs.redo[u + r + 2 - i].seq
  BY DEF NameAt
<1>4. LineLen(hs) = u + 1 + r
  BY DEF LineLen
<1> HIDE DEF u, r
<1>5. ASSUME NEW i \in 1..(u + 1 + r)
      PROVE  NameAt(hs, i) \in Nat
  <2>1. i \in 2..(u + 1) => i - 1 \in 1..u
    BY <1>1
  <2>2. i > u + 1 => u + r + 2 - i \in 1..r /\ ~(i <= u + 1)
    BY <1>1
  <2>3. i = 1 \/ i \in 2..(u + 1) \/ i > u + 1
    BY <1>1
  <2>4. i \in 2..(u + 1) => i # 1 /\ i <= u + 1
    BY <1>1
  <2>5. CASE i = 1
    BY <1>3, <2>5
  <2>6. CASE i \in 2..(u + 1)
    <3>1. NameAt(hs, i) = hs.undo[i - 1].seq
      BY <1>3, <2>4, <2>6
    <3> QED BY <1>2, <2>1, <2>6, <3>1
  <2>7. CASE i > u + 1
    <3> DEFINE k == u + r + 2 - i
    <3>1. NameAt(hs, i) = hs.redo[k].seq
      BY <1>1, <1>3, <2>2, <2>7
    <3>2. k \in 1..r
      BY <2>2, <2>7
    <3> HIDE DEF k
    <3> QED BY <1>2, <3>1, <3>2
  <2> QED BY <2>3, <2>5, <2>6, <2>7
<1>6. LineLen(hs) \in Nat \ {0} /\ NameAt(hs, 1) = 0
  BY <1>1, <1>3, <1>4
<1> QED BY <1>4, <1>5, <1>6

\* The current document is the only one its seq names.
LEMMA OrderedNames ==
  ASSUME NEW hs \in HistoryState, Ordered(hs)
  PROVE  /\ CurrentSeq(hs) \in Nat /\ CurrentSeq(hs) < hs.next_seq
         /\ Names(hs, CurrentSeq(hs), Content(hs.current))
<1> DEFINE p == PositionOf(hs)
           n == LineLen(hs)
<1>1. /\ p \in 1..n /\ NameAt(hs, p) = CurrentSeq(hs) /\ LineAt(hs, p) = Content(hs.current)
  BY CurrentName
<1>2. /\ n \in Nat /\ \A i \in 1..n : NameAt(hs, i) \in Nat
      /\ \A i \in 1..n : NameAt(hs, i) < hs.next_seq
      /\ \A i \in 1..n : \A j \in 1..n : i < j => NameAt(hs, i) < NameAt(hs, j)
  BY NameType DEF Ordered
<1>3. Names(hs, CurrentSeq(hs), Content(hs.current))
        <=> \A i \in 1..n : NameAt(hs, i) = CurrentSeq(hs) => LineAt(hs, i) = Content(hs.current)
  BY DEF Names
<1> HIDE DEF p, n
<1>4. ASSUME NEW i \in 1..n, NameAt(hs, i) = NameAt(hs, p)
      PROVE  i = p
  <2>1. i < p \/ p < i \/ i = p
    BY <1>1, <1>2
  <2>2. i < p => NameAt(hs, i) < NameAt(hs, p)
    BY <1>1, <1>2
  <2>3. p < i => NameAt(hs, p) < NameAt(hs, i)
    BY <1>1, <1>2
  <2>4. NameAt(hs, i) \in Nat /\ NameAt(hs, p) \in Nat
    BY <1>1, <1>2
  <2> QED BY <1>4, <2>1, <2>2, <2>3, <2>4
<1>5. \A i \in 1..n : NameAt(hs, i) = CurrentSeq(hs) => LineAt(hs, i) = Content(hs.current)
  BY <1>1, <1>4
<1>6. CurrentSeq(hs) \in Nat /\ CurrentSeq(hs) < hs.next_seq
  BY <1>1, <1>2
<1> QED BY <1>3, <1>5, <1>6

\* Before the first edit there is nothing to undo or redo.
LEMMA OrderedStart ==
  ASSUME NEW hs \in HistoryState, Ordered(hs), hs.next_seq = 1
  PROVE  hs.undo = <<>> /\ hs.redo = <<>>
<1> DEFINE u == Len(hs.undo)
           r == Len(hs.redo)
           n == LineLen(hs)
<1>1. u \in Nat /\ r \in Nat /\ hs.undo \in Seq(Entry) /\ hs.redo \in Seq(Entry)
  BY StackShape
<1>2. n = u + 1 + r
  BY DEF LineLen
<1>3. /\ NameAt(hs, 1) = 0 /\ \A i \in 1..n : NameAt(hs, i) \in Nat
      /\ \A i \in 1..n : NameAt(hs, i) < 1
      /\ \A i \in 1..n : \A j \in 1..n : i < j => NameAt(hs, i) < NameAt(hs, j)
  BY NameType DEF Ordered
<1> HIDE DEF u, r, n
<1>4. n = 1
  <2> SUFFICES ASSUME n # 1 PROVE FALSE
    OBVIOUS
  <2>1. 1 \in 1..n /\ 2 \in 1..n /\ 1 < 2
    BY <1>1, <1>2
  <2>2. NameAt(hs, 1) < NameAt(hs, 2)
    BY <1>3, <2>1
  <2>3. NameAt(hs, 2) \in Nat /\ NameAt(hs, 2) < 1
    BY <1>3, <2>1
  <2> QED BY <1>3, <2>2, <2>3
<1>5. u = 0 /\ r = 0
  BY <1>1, <1>2, <1>4
<1> QED BY <1>1, <1>5, EmptySeq DEF u, r

\* A line with one document is ordered.
LEMMA OrderedAlone ==
  ASSUME NEW hs \in HistoryState, hs.undo = <<>>, hs.redo = <<>>, 0 < hs.next_seq
  PROVE  Ordered(hs)
<1>1. LineLen(hs) = 1
  BY EmptySeq DEF LineLen
<1>2. NameAt(hs, 1) = 0
  BY NameType
<1> QED BY <1>1, <1>2 DEF Ordered

\* The same names in the same places.
LEMMA OrderedSame ==
  ASSUME NEW a, NEW b, Ordered(a), b.next_seq = a.next_seq, LineLen(b) = LineLen(a),
         \A i \in 1..LineLen(a) : NameAt(b, i) = NameAt(a, i)
  PROVE  Ordered(b)
BY DEF Ordered

\* Alike histories are ordered and young together, and have the same line.
LEMMA AlikeParts ==
  ASSUME NEW a, NEW b, Alike(a, b)
  PROVE  /\ Alike(b, a)
         /\ LineOf(a) = LineOf(b) /\ PositionOf(a) = PositionOf(b)
         /\ Live(a) = Live(b) /\ (Sane(a) <=> Sane(b))
         /\ CurrentSeq(a) = CurrentSeq(b)
         /\ \A q, f : Names(a, q, f) <=> Names(b, q, f)
<1>1. a.undo = b.undo /\ a.redo = b.redo /\ a.current = b.current
  BY DEF Alike
<1>2. /\ LineOf(a) = LineOf(b) /\ PositionOf(a) = PositionOf(b)
      /\ \A q, f : Names(a, q, f) <=> Names(b, q, f)
  BY <1>1, SameStacks
<1>3. LineLen(a) = LineLen(b) /\ \A i : NameAt(a, i) = NameAt(b, i)
  BY <1>1 DEF LineLen, NameAt
<1>4. Ordered(a) <=> Ordered(b)
  BY <1>3 DEF Ordered, Alike
<1>5. Live(a) = Live(b)
  BY <1>1 DEF Live
<1>6. Young(a) <=> Young(b)
  BY <1>5 DEF Young, Alike
<1>7. Alike(b, a) /\ CurrentSeq(a) = CurrentSeq(b)
  BY <1>1 DEF Alike, CurrentSeq
<1> QED BY <1>2, <1>4, <1>5, <1>6, <1>7 DEF Sane

\* A new name is larger than all.
LEMMA OrderedCommit ==
  ASSUME NEW hs \in HistoryState, Ordered(hs), NEW e \in EditOps
  PROVE  Ordered(Commit(hs, e))
<1> DEFINE hc == Commit(hs, e)
           p  == PositionOf(hs)
           n  == LineLen(hs)
           k  == hs.next_seq
<1>1. /\ LineLen(hc) = p + 1
      /\ \A i \in 1..p : NameAt(hc, i) = NameAt(hs, i)
      /\ NameAt(hc, p + 1) = k
  BY CommitLine
<1>2. hc.next_seq = k + 1 /\ k \in Nat
  BY CommitEffect, HistoryParts
<1>3. p \in 1..n /\ n \in Nat /\ \A i \in 1..n : NameAt(hs, i) \in Nat
  BY CurrentName, NameType
<1>4. /\ \A i \in 1..n : NameAt(hs, i) < k
      /\ \A i \in 1..n : \A j \in 1..n : i < j => NameAt(hs, i) < NameAt(hs, j)
  BY DEF Ordered
<1> HIDE DEF hc, p, n, k
<1>5. ASSUME NEW i \in 1..p
      PROVE  i \in 1..n /\ NameAt(hc, i) = NameAt(hs, i) /\ NameAt(hc, i) \in Nat
             /\ NameAt(hc, i) < k
  <2>1. i \in 1..n
    BY <1>3
  <2> QED BY <1>1, <1>3, <1>4, <2>1
<1>6. ASSUME NEW i \in 1..(p + 1)
      PROVE  NameAt(hc, i) < k + 1
  <2>1. i \in 1..p \/ i = p + 1
    BY <1>3
  <2> QED BY <1>1, <1>2, <1>5, <2>1
<1>7. ASSUME NEW i \in 1..(p + 1), NEW j \in 1..(p + 1), i < j
      PROVE  NameAt(hc, i) < NameAt(hc, j)
  <2>1. i \in 1..p
    BY <1>3, <1>7
  <2>2. CASE j \in 1..p
    BY <1>4, <1>5, <1>7, <2>1, <2>2
  <2>3. CASE j = p + 1
    BY <1>1, <1>5, <2>1, <2>3
  <2>4. j \in 1..p \/ j = p + 1
    BY <1>3
  <2> QED BY <2>2, <2>3, <2>4
<1> QED BY <1>1, <1>2, <1>6, <1>7 DEF Ordered, hc

\* Undo and redo leave the names where they are.
LEMMA OrderedMoves ==
  ASSUME NEW hs \in HistoryState, Ordered(hs)
  PROVE  /\ hs.undo # <<>> => Ordered(Undone(hs))
         /\ hs.redo # <<>> => Ordered(Redone(hs))
<1>1. ASSUME hs.undo # <<>>
      PROVE  Ordered(Undone(hs))
  <2>1. SameWay(Undone(hs), hs) /\ Undone(hs).next_seq = hs.next_seq
    BY <1>1, UndoneLine, UndoneEffect
  <2> QED BY <2>1, OrderedSame DEF SameWay
<1>2. ASSUME hs.redo # <<>>
      PROVE  Ordered(Redone(hs))
  <2>1. SameWay(Redone(hs), hs) /\ Redone(hs).next_seq = hs.next_seq
    BY <1>2, RedoneLine, RedoneEffect
  <2> QED BY <2>1, OrderedSame DEF SameWay
<1> QED BY <1>1, <1>2

\* A floor that rises keeps the names above it.
LEMMA OrderedDrop ==
  ASSUME NEW hs \in HistoryState, Ordered(hs), NEW n \in 1..Len(hs.undo)
  PROVE  Ordered(DroppedOldest(hs, n))
<1> DEFINE hd == DroppedOldest(hs, n)
           m  == LineLen(hs)
           k  == hs.next_seq
<1>1. /\ LineLen(hd) = m - n
      /\ \A i \in 1..(m - n) : n + i \in 1..m
           /\ NameAt(hd, i) = IF i = 1 THEN 0 ELSE NameAt(hs, n + i)
  BY DroppedLine
<1>2. hd.next_seq = k /\ k \in Nat
  BY DroppedEffect, HistoryParts
<1>3. m \in Nat \ {0} /\ NameAt(hs, 1) = 0 /\ \A i \in 1..m : NameAt(hs, i) \in Nat
  BY NameType
<1>4. /\ \A i \in 1..m : NameAt(hs, i) < k
      /\ \A i \in 1..m : \A j \in 1..m : i < j => NameAt(hs, i) < NameAt(hs, j)
  BY DEF Ordered
<1>5. n \in Nat /\ n >= 1
  BY StackShape
<1> HIDE DEF hd, m, k
<1>6. ASSUME NEW i \in 1..(m - n)
      PROVE  NameAt(hd, i) < k
  <2>1. n + i \in 1..m /\ 1 \in 1..m
    BY <1>1, <1>3
  <2>2. NameAt(hs, n + i) < k /\ NameAt(hs, 1) < k
    BY <1>4, <2>1
  <2> QED BY <1>1, <1>3, <2>2
<1>7. ASSUME NEW i \in 1..(m - n), NEW j \in 1..(m - n), i < j
      PROVE  NameAt(hd, i) < NameAt(hd, j)
  <2>1. /\ n + i \in 1..m /\ n + j \in 1..m /\ 1 \in 1..m /\ n + i < n + j /\ 1 < n + j
        /\ j # 1
    BY <1>1, <1>3, <1>5, <1>7
  <2>2. NameAt(hs, n + i) < NameAt(hs, n + j) /\ NameAt(hs, 1) < NameAt(hs, n + j)
    BY <1>4, <2>1
  <2>3. NameAt(hd, j) = NameAt(hs, n + j)
    BY <1>1, <2>1
  <2>4. NameAt(hd, i) = 0 \/ NameAt(hd, i) = NameAt(hs, n + i)
    BY <1>1
  <2> QED BY <1>3, <2>2, <2>3, <2>4
<1> QED BY <1>1, <1>2, <1>6, <1>7 DEF Ordered, hd

-----------------------------------------------------------------------------
(* One call on a history: how it moves along the line, and which names stand. *)

\* b is c, or c after one call.  floor: entries may have been dropped; mark: a
\* save may have been recorded.
OneCall(c, b, floor, mark) ==
  \/ b = c
  \/ \E e \in EditOps : b = Commit(c, e)
  \/ c.undo # <<>> /\ b = Undone(c)
  \/ c.redo # <<>> /\ b = Redone(c)
  \/ floor /\ \E n \in 1..Len(c.undo) : b = DroppedOldest(c, n)
  \/ mark /\ \E q \in Nat : b = MarkedSavedAt(c, q)

\* The same, but for marker ids that were handed out.
Ahead(a, b, floor, mark) ==
  \E c \in HistoryState : Alike(a, c) /\ OneCall(c, b, floor, mark)

\* An import put another floor in the place of one nothing was done with.
RebasedFrom(a, b) ==
  /\ a.next_seq = 1
  /\ \E p \in SUBSET Chunk, M \in SUBSET MarkerId : b = Rebased(a, p, M)

\* A step along the line, as in UndoLog.
Walk(a, b) ==
  \/ LineOf(b) = LineOf(a) /\ PositionOf(b) = PositionOf(a)
  \/ /\ \E d \in Documents : LineOf(b) = Append(SubSeq(LineOf(a), 1, PositionOf(a)), d)
     /\ PositionOf(b) = PositionOf(a) + 1
  \/ /\ PositionOf(a) > 1 /\ PositionOf(b) = PositionOf(a) - 1
     /\ LineOf(b) = LineOf(a)
  \/ /\ PositionOf(a) < Len(LineOf(a)) /\ PositionOf(b) = PositionOf(a) + 1
     /\ LineOf(b) = LineOf(a)
  \/ \E n \in 1..Len(LineOf(a)) :
       /\ n < PositionOf(a)
       /\ LineOf(b) = SubSeq(LineOf(a), n + 1, Len(LineOf(a)))
       /\ PositionOf(b) = PositionOf(a) - n
  \/ /\ Len(LineOf(a)) = 1 /\ PositionOf(b) = PositionOf(a)
     /\ \E d \in Documents : LineOf(b) = <<d>>

\* What a seq named, it names; the floor's excepted, once entries were dropped.
Keeps(a, b, floor, mark) ==
  /\ a.next_seq <= b.next_seq
  /\ \A q \in Nat : \A f : q < a.next_seq /\ ~(floor /\ q = 0) /\ Names(a, q, f) => Names(b, q, f)
  /\ b.saved_seq = a.saved_seq \/ mark

\* Dropping nothing changes nothing.
LEMMA DroppedNone ==
  ASSUME NEW hs \in HistoryState
  PROVE  DroppedOldest(hs, 0) = hs
<1> DEFINE s == hs.undo
           n == Len(s)
           t == SubSeq(s, 0 + 1, n)
<1>1. s \in Seq(Entry) /\ n \in Nat /\ \A i \in 1..n : s[i] \in Entry
  BY StackShape
<1>2. t = s
  <2> HIDE DEF s
  <2>1. /\ SubSeq(s, 1, n) \in Seq(Entry)
        /\ Len(SubSeq(s, 1, n)) = IF 1 <= n THEN n - 1 + 1 ELSE 0
        /\ \A i \in 1..(n - 1 + 1) : SubSeq(s, 1, n)[i] = s[1 + i - 1]
    BY <1>1, SubSeqProperties
  <2>2. t = SubSeq(s, 1, n)
    OBVIOUS
  <2> HIDE DEF t
  <2>3. t \in Seq(Entry) /\ Len(t) = n /\ \A i \in 1..n : t[i] = s[i]
    BY <1>1, <2>1, <2>2
  <2> HIDE DEF n
  <2>4. Len(t) = Len(s) /\ \A i \in 1..Len(s) : t[i] = s[i]
    BY <2>3 DEF n
  <2> QED BY <1>1, <2>3, <2>4, SeqEqual
<1>3. DroppedOldest(hs, 0) = [hs EXCEPT !.undo = t]
  BY DEF DroppedOldest, HistoryState
<1> QED BY <1>2, <1>3 DEF HistoryState

\* The chunks a history holds after a call.
LEMMA LiveSteps ==
  ASSUME NEW hs \in HistoryState
  PROVE  /\ hs.undo # <<>> => Live(Undone(hs)) \subseteq Live(hs)
         /\ hs.redo # <<>> => Live(Redone(hs)) \subseteq Live(hs)
         /\ \A n \in 1..Len(hs.undo) : Live(DroppedOldest(hs, n)) \subseteq Live(hs)
         /\ \A q \in Nat : Live(MarkedSavedAt(hs, q)) = Live(hs)
         /\ \A e \in EditOps : Live(Commit(hs, e)) \subseteq Live(hs) \cup e.ins
<1>0. \A a \in HistoryState, b \in HistoryState :
        Contents(a) \subseteq Contents(b) => Live(a) \subseteq Live(b)
  BY LiveIsContents
<1>1. hs.undo # <<>> => Live(Undone(hs)) \subseteq Live(hs)
  BY <1>0, UndoneType, UndoneContents
<1>2. hs.redo # <<>> => Live(Redone(hs)) \subseteq Live(hs)
  BY <1>0, RedoneType, RedoneContents
<1>3. ASSUME NEW n \in 1..Len(hs.undo)
      PROVE  Live(DroppedOldest(hs, n)) \subseteq Live(hs)
  BY <1>0, DroppedType, DroppedContents
<1>4. ASSUME NEW q \in Nat
      PROVE  Live(MarkedSavedAt(hs, q)) = Live(hs)
  BY MarkedSavedType, OtherContents, LiveIsContents
<1>5. ASSUME NEW e \in EditOps
      PROVE  Live(Commit(hs, e)) \subseteq Live(hs) \cup e.ins
  <2> DEFINE hc == Commit(hs, e)
             d  == Content(Prepared(hs, e))
  <2>1. Contents(hc) \subseteq Contents(hs) \cup {d} /\ hc \in HistoryState
    BY CommitContents, CommitType
  <2>2. d.pieces \subseteq hs.current.pieces \cup e.ins
    BY DEF Prepared, Content
  <2>3. hs.current.pieces \subseteq Live(hs)
    BY DEF Live
  <2> HIDE DEF hc, d
  <2>4. Live(hc) \subseteq Live(hs) \cup d.pieces
    BY <2>1, LiveIsContents
  <2> QED BY <2>2, <2>3, <2>4 DEF hc
<1> QED BY <1>1, <1>2, <1>3, <1>4, <1>5

\* One call keeps a history sane.
LEMMA CallSane ==
  ASSUME NEW c \in HistoryState, NEW b, NEW floor, NEW mark, OneCall(c, b, floor, mark)
  PROVE  b \in HistoryState /\ (Sane(c) => Sane(b))
<1>0. c.next_rev \in Nat
  BY HistoryParts
<1>1. ASSUME NEW e \in EditOps, b = Commit(c, e)
      PROVE  b \in HistoryState /\ (Sane(c) => Sane(b))
  <2>1. b.next_rev = c.next_rev + 1
    BY <1>1, CommitEffect
  <2>2. Sane(c) => Young(b)
    BY <1>0, <2>1 DEF Sane, Young
  <2> QED BY <1>1, <2>2, CommitType, OrderedCommit DEF Sane
<1>2. ASSUME c.undo # <<>>, b = Undone(c)
      PROVE  b \in HistoryState /\ (Sane(c) => Sane(b))
  <2>1. b.next_rev = c.next_rev + 1
    BY <1>2, UndoneEffect
  <2>2. Sane(c) => Young(b)
    BY <1>0, <2>1 DEF Sane, Young
  <2> QED BY <1>2, <2>2, UndoneType, OrderedMoves DEF Sane
<1>3. ASSUME c.redo # <<>>, b = Redone(c)
      PROVE  b \in HistoryState /\ (Sane(c) => Sane(b))
  <2>1. b.next_rev = c.next_rev + 1
    BY <1>3, RedoneEffect
  <2>2. Sane(c) => Young(b)
    BY <1>0, <2>1 DEF Sane, Young
  <2> QED BY <1>3, <2>2, RedoneType, OrderedMoves DEF Sane
<1>4. ASSUME NEW n \in 1..Len(c.undo), b = DroppedOldest(c, n)
      PROVE  b \in HistoryState /\ (Sane(c) => Sane(b))
  <2>1. b.next_rev = c.next_rev /\ Live(b) \subseteq Live(c)
    BY <1>4, DroppedEffect, LiveSteps
  <2>2. Sane(c) => Young(b)
    BY <2>1 DEF Sane, Young
  <2> QED BY <1>4, <2>2, DroppedType, OrderedDrop DEF Sane
<1>5. ASSUME NEW q \in Nat, b = MarkedSavedAt(c, q)
      PROVE  b \in HistoryState /\ (Sane(c) => Sane(b))
  <2>1. /\ b.next_rev = c.next_rev /\ b.undo = c.undo /\ b.redo = c.redo
        /\ b.next_seq = c.next_seq
    BY <1>5 DEF MarkedSavedAt, HistoryState
  <2>2. Live(b) = Live(c)
    BY <1>5, LiveSteps
  <2>3. Ordered(c) => Ordered(b)
    BY <2>1 DEF Ordered, NameAt, LineLen
  <2> QED BY <1>5, <2>1, <2>2, <2>3, MarkedSavedType DEF Sane, Young
<1> QED BY <1>1, <1>2, <1>3, <1>4, <1>5 DEF OneCall

\* One call is one step along the line, and keeps the names.
LEMMA CallWalks ==
  ASSUME NEW c \in HistoryState, NEW b, NEW floor, NEW mark, OneCall(c, b, floor, mark)
  PROVE  Walk(c, b) /\ Keeps(c, b, floor, mark)
<1>0. c.next_seq \in Nat
  BY HistoryParts
<1>1. ASSUME NEW e \in EditOps, b = Commit(c, e)
      PROVE  Walk(c, b) /\ Keeps(c, b, floor, mark)
  <2>1. Walk(c, b)
    BY <1>1, CommitLine DEF Walk
  <2>2. b.next_seq = c.next_seq + 1 /\ b.saved_seq = c.saved_seq
    <3>1. Commit(c, e).saved_seq = c.saved_seq
      BY DEF Commit, HistoryState
    <3> QED BY <1>1, <3>1, CommitEffect
  <2>3. \A q \in Nat : \A f : q < c.next_seq /\ Names(c, q, f) => Names(b, q, f)
    <3>1. \A q, f : q # c.next_seq /\ Names(c, q, f) => Names(b, q, f)
      BY <1>1, CommitLine
    <3>2. \A q \in Nat : q < c.next_seq => q # c.next_seq
      BY <1>0
    <3> QED BY <3>1, <3>2
  <2>4. c.next_seq <= b.next_seq
    BY <1>0, <2>2
  <2> QED BY <2>1, <2>2, <2>3, <2>4 DEF Keeps
<1>2. ASSUME c.undo # <<>>, b = Undone(c)
      PROVE  Walk(c, b) /\ Keeps(c, b, floor, mark)
  <2>1. /\ LineOf(b) = LineOf(c) /\ SameWay(b, c)
        /\ PositionOf(c) > 1 /\ PositionOf(b) = PositionOf(c) - 1
    BY <1>2, UndoneLine
  <2>2. b.next_seq = c.next_seq /\ b.saved_seq = c.saved_seq
    BY <1>2 DEF Undone, HistoryState
  <2>3. \A q, f : Names(c, q, f) => Names(b, q, f)
    BY <2>1, SameNames
  <2>4. Walk(c, b)
    BY <2>1 DEF Walk
  <2> QED BY <1>0, <2>2, <2>3, <2>4 DEF Keeps
<1>3. ASSUME c.redo # <<>>, b = Redone(c)
      PROVE  Walk(c, b) /\ Keeps(c, b, floor, mark)
  <2>1. /\ LineOf(b) = LineOf(c) /\ SameWay(b, c)
        /\ PositionOf(c) < Len(LineOf(c)) /\ PositionOf(b) = PositionOf(c) + 1
    BY <1>3, RedoneLine
  <2>2. b.next_seq = c.next_seq /\ b.saved_seq = c.saved_seq
    BY <1>3 DEF Redone, HistoryState
  <2>3. \A q, f : Names(c, q, f) => Names(b, q, f)
    BY <2>1, SameNames
  <2>4. Walk(c, b)
    BY <2>1 DEF Walk
  <2> QED BY <1>0, <2>2, <2>3, <2>4 DEF Keeps
<1>4. ASSUME floor, NEW n \in 1..Len(c.undo), b = DroppedOldest(c, n)
      PROVE  Walk(c, b) /\ Keeps(c, b, floor, mark)
  <2>1. Walk(c, b)
    <3>1. /\ n \in 1..Len(LineOf(c)) /\ n < PositionOf(c)
          /\ LineOf(b) = SubSeq(LineOf(c), n + 1, Len(LineOf(c)))
          /\ PositionOf(b) = PositionOf(c) - n
      BY <1>4, DroppedLine
    <3> QED BY <3>1 DEF Walk
  <2>2. b.next_seq = c.next_seq /\ b.saved_seq = c.saved_seq
    BY <1>4 DEF DroppedOldest, HistoryState
  <2>3. \A q, f : q # 0 /\ Names(c, q, f) => Names(b, q, f)
    BY <1>4, DroppedLine
  <2> QED BY <1>0, <1>4, <2>1, <2>2, <2>3 DEF Keeps
<1>5. ASSUME mark, NEW q \in Nat, b = MarkedSavedAt(c, q)
      PROVE  Walk(c, b) /\ Keeps(c, b, floor, mark)
  <2>1. b.undo = c.undo /\ b.redo = c.redo /\ b.current = c.current /\ b.next_seq = c.next_seq
    BY <1>5 DEF MarkedSavedAt, HistoryState
  <2>2. /\ LineOf(b) = LineOf(c) /\ PositionOf(b) = PositionOf(c)
        /\ \A z, f : Names(b, z, f) <=> Names(c, z, f)
    BY <2>1, SameStacks
  <2> QED BY <1>0, <1>5, <2>1, <2>2 DEF Walk, Keeps
<1>6. ASSUME b = c
      PROVE  Walk(c, b) /\ Keeps(c, b, floor, mark)
  BY <1>0, <1>6 DEF Walk, Keeps
<1> QED BY <1>1, <1>2, <1>3, <1>4, <1>5, <1>6 DEF OneCall

\* So is a call that comes after ids were handed out.
LEMMA AheadParts ==
  ASSUME NEW a, NEW b, NEW floor, NEW mark, Ahead(a, b, floor, mark)
  PROVE  /\ b \in HistoryState /\ (Sane(a) => Sane(b))
         /\ Walk(a, b) /\ Keeps(a, b, floor, mark)
<1>1. PICK c \in HistoryState : Alike(a, c) /\ OneCall(c, b, floor, mark)
  BY DEF Ahead
<1>2. /\ LineOf(a) = LineOf(c) /\ PositionOf(a) = PositionOf(c)
      /\ (Sane(a) <=> Sane(c))
      /\ \A q, f : Names(a, q, f) <=> Names(c, q, f)
  BY <1>1, AlikeParts
<1>3. a.next_seq = c.next_seq /\ a.saved_seq = c.saved_seq
  BY <1>1 DEF Alike
<1>4. b \in HistoryState /\ (Sane(c) => Sane(b))
  BY <1>1, CallSane
<1>5. Walk(c, b) /\ Keeps(c, b, floor, mark)
  BY <1>1, CallWalks
<1>6. Walk(a, b)
  BY <1>2, <1>5 DEF Walk
<1>7. Keeps(a, b, floor, mark)
  BY <1>2, <1>3, <1>5 DEF Keeps
<1> QED BY <1>2, <1>4, <1>6, <1>7

\* An import's floor is a step along the line too.
LEMMA RebasedWalks ==
  ASSUME NEW a \in HistoryState, Sane(a), NEW b, RebasedFrom(a, b)
  PROVE  Walk(a, b) /\ b \in HistoryState /\ Sane(b)
<1>1. PICK p \in SUBSET Chunk, M \in SUBSET MarkerId : b = Rebased(a, p, M)
  BY DEF RebasedFrom
<1>2. a.undo = <<>> /\ a.redo = <<>> /\ a.next_seq = 1
  BY OrderedStart DEF Sane, RebasedFrom
<1>3. Walk(a, b)
  BY <1>1, <1>2, RebasedLine DEF Walk
<1>4. b \in HistoryState
  BY <1>1, RebasedType
<1>5. b.undo = <<>> /\ b.redo = <<>> /\ b.next_seq = 1 /\ b.next_rev = a.next_rev + 1
  BY <1>1, <1>2 DEF Rebased
<1>6. Ordered(b)
  BY <1>4, <1>5, OrderedAlone
<1>7. Young(b)
  BY <1>5, HistoryParts DEF Sane, Young
<1> QED BY <1>3, <1>4, <1>6, <1>7 DEF Sane

-----------------------------------------------------------------------------
Steps == INSTANCE FoldProofs WITH Op <- ReplayStep
Notes == INSTANCE FoldProofs WITH Op <- NoteMetadata
Scans == INSTANCE FoldProofs WITH Op <- Summarized

CheckpointRecord == [type : {"checkpoint"}, hist : HistoryState, ids : SUBSET Chunk]
ChunksRecord     == [type : {"chunks"}, ids : SUBSET Chunk]
EditRecord       == [type : {"edit"}, seq : Nat, ops : EditOps,
                     take : TakeId \cup {NoTake}, short : BOOLEAN]
SeqRecord        == [type : {"undo", "redo", "saved"}, seq : Nat]
CountRecord      == [type : {"drop_undo"}, count : Nat]
BeginRecord      == [type : {"take_begin"}, take : TakeId, aligned : BOOLEAN]
TakeRecord       == [type : {"take_window", "take_discard", "take_cancel"}, take : TakeId]
MarkerRecord     == [type : {"take_marker"}, take : TakeId, marker : MarkerId]

\* The records a journal may hold.
Record ==
  CheckpointRecord \cup ChunksRecord \cup EditRecord \cup SeqRecord \cup CountRecord
    \cup BeginRecord \cup TakeRecord \cup MarkerRecord \cup {Close}

\* A journal starts with a checkpoint.
JournalRecords == {L \in Seq(Record) : L # <<>> /\ L[1].type = "checkpoint"}

-----------------------------------------------------------------------------
(* The three folds, one record at a time. *)

\* Replaying one more record is one more ReplayStep.
LEMMA StepsFold ==
  ASSUME NEW E, NEW s \in Seq(E), NEW x \in E, NEW base
  PROVE  FoldLeft(ReplayStep, base, Append(s, x)) = ReplayStep(FoldLeft(ReplayStep, base, s), x)
<1>1. Steps!Folded(base, Append(s, x)) = ReplayStep(Steps!Folded(base, s), x)
  BY Steps!FoldOfAppend
<1>2. \A z : Steps!Folded(base, z) = FoldLeft(ReplayStep, base, z)
  BY DEF Steps!Folded, Steps!FoldLeft, Steps!MapThenFoldSet, FoldLeft, MapThenFoldSet,
         Max, Steps!Max
<1> QED BY ONLY <1>1, <1>2

\* So it is for the take bookkeeping before the last checkpoint ...
LEMMA NotesFold ==
  ASSUME NEW E, NEW s \in Seq(E), NEW x \in E, NEW base
  PROVE  FoldLeft(NoteMetadata, base, Append(s, x)) = NoteMetadata(FoldLeft(NoteMetadata, base, s), x)
<1>1. Notes!Folded(base, Append(s, x)) = NoteMetadata(Notes!Folded(base, s), x)
  BY Notes!FoldOfAppend
<1>2. \A z : Notes!Folded(base, z) = FoldLeft(NoteMetadata, base, z)
  BY DEF Notes!Folded, Notes!FoldLeft, Notes!MapThenFoldSet, FoldLeft, MapThenFoldSet,
         Max, Notes!Max
<1> QED BY ONLY <1>1, <1>2

\* ... and for the scan of the garbage collection.
LEMMA ScansFold ==
  ASSUME NEW E, NEW s \in Seq(E), NEW x \in E, NEW base
  PROVE  FoldLeft(Summarized, base, Append(s, x)) = Summarized(FoldLeft(Summarized, base, s), x)
<1>1. Scans!Folded(base, Append(s, x)) = Summarized(Scans!Folded(base, s), x)
  BY Scans!FoldOfAppend
<1>2. \A z : Scans!Folded(base, z) = FoldLeft(Summarized, base, z)
  BY DEF Scans!Folded, Scans!FoldLeft, Scans!MapThenFoldSet, FoldLeft, MapThenFoldSet,
         Max, Scans!Max
<1> QED BY ONLY <1>1, <1>2

\* The fold of no records is its base.
LEMMA EmptyFolds ==
  ASSUME NEW base
  PROVE  /\ FoldLeft(ReplayStep, base, <<>>) = base
         /\ FoldLeft(NoteMetadata, base, <<>>) = base
         /\ FoldLeft(Summarized, base, <<>>) = base
<1>1. Steps!Folded(base, <<>>) = base /\ Notes!Folded(base, <<>>) = base
      /\ Scans!Folded(base, <<>>) = base
  BY Steps!FoldOfNone, Notes!FoldOfNone, Scans!FoldOfNone
<1>2. \A z : Steps!Folded(base, z) = FoldLeft(ReplayStep, base, z)
  BY DEF Steps!Folded, Steps!FoldLeft, Steps!MapThenFoldSet, FoldLeft, MapThenFoldSet,
         Max, Steps!Max
<1>3. \A z : Notes!Folded(base, z) = FoldLeft(NoteMetadata, base, z)
  BY DEF Notes!Folded, Notes!FoldLeft, Notes!MapThenFoldSet, FoldLeft, MapThenFoldSet,
         Max, Notes!Max
<1>4. \A z : Scans!Folded(base, z) = FoldLeft(Summarized, base, z)
  BY DEF Scans!Folded, Scans!FoldLeft, Scans!MapThenFoldSet, FoldLeft, MapThenFoldSet,
         Max, Scans!Max
<1> QED BY ONLY <1>1, <1>2, <1>3, <1>4

-----------------------------------------------------------------------------
(* What one more record makes of a replay. *)

\* The records after the checkpoint, when one more is appended.
LEMMA TailOfAppend ==
  ASSUME NEW S, NEW s \in Seq(S), NEW x \in S, NEW k \in 1..(Len(s) + 1)
  PROVE  SubSeq(Append(s, x), k, Len(s) + 1) = Append(SubSeq(s, k, Len(s)), x)
<1> DEFINE n == Len(s)
           a == Append(s, x)
           t == SubSeq(s, k, n)
           u == SubSeq(a, k, n + 1)
           v == Append(t, x)
<1>1. n \in Nat /\ k \in Int /\ n + 1 \in Int /\ n \in Int /\ DOMAIN s = 1..n
  BY LenProperties
<1>2. a \in Seq(S) /\ Len(a) = n + 1 /\ (\A i \in 1..n : a[i] = s[i]) /\ a[n + 1] = x
  BY AppendProperties
<1>3. (\A i \in k..n : s[i] \in S) /\ (\A i \in k..(n + 1) : a[i] \in S)
  BY <1>1, <1>2, ElementOfSeq
<1> HIDE DEF a, n
<1>4. t \in Seq(S) /\ Len(t) = (IF k <= n THEN n - k + 1 ELSE 0)
      /\ \A i \in 1..(n - k + 1) : t[i] = s[k + i - 1]
  BY <1>1, <1>3, SubSeqProperties
<1>5. u \in Seq(S) /\ Len(u) = (IF k <= n + 1 THEN (n + 1) - k + 1 ELSE 0)
      /\ \A i \in 1..((n + 1) - k + 1) : u[i] = a[k + i - 1]
  BY <1>1, <1>3, SubSeqProperties
<1> HIDE DEF t, u
<1>6. v \in Seq(S) /\ Len(v) = Len(t) + 1 /\ (\A i \in 1..Len(t) : v[i] = t[i]) /\ v[Len(t) + 1] = x
  BY <1>4, AppendProperties
<1> HIDE DEF v
<1>7. k <= n + 1 /\ k >= 1 /\ Len(t) = n + 1 - k /\ Len(u) = n + 2 - k
  BY <1>1, <1>4, <1>5 DEF n
<1>8. \A i \in 1..Len(u) : u[i] = v[i]
  <2> SUFFICES ASSUME NEW i \in 1..Len(u) PROVE u[i] = v[i]
    OBVIOUS
  <2>1. CASE i <= n + 1 - k
    BY <1>1, <1>2, <1>4, <1>5, <1>6, <1>7, <2>1
  <2>2. CASE i = n + 2 - k
    <3>1. k + i - 1 = n + 1 /\ i \in 1..((n + 1) - k + 1) /\ i = Len(t) + 1
      BY <1>1, <1>7, <2>2
    <3> QED BY <1>2, <1>5, <1>6, <3>1
  <2> QED BY <1>1, <1>7, <2>1, <2>2
<1>9. u = v
  <2>1. u \in Seq(S) /\ v \in Seq(S) /\ Len(u) = Len(v)
    BY <1>1, <1>5, <1>6, <1>7
  <2> QED BY ONLY <1>8, <2>1, SeqEqual
<1> QED BY <1>9 DEF u, v, t, a, n

IsLast(L, i) ==
  /\ i \in DOMAIN L
  /\ L[i].type = "checkpoint"
  /\ \A j \in DOMAIN L : j > i => L[j].type # "checkpoint"

\* Every journal has exactly one last checkpoint.
LEMMA LastCheckpointIs ==
  ASSUME NEW L \in JournalRecords
  PROVE  /\ IsLast(L, LastCheckpoint(L))
         /\ LastCheckpoint(L) \in 1..Len(L)
         /\ \A i : IsLast(L, i) => i = LastCheckpoint(L)
<1> DEFINE C == {i \in DOMAIN L : L[i].type = "checkpoint"}
<1>1. L \in Seq(Record) /\ DOMAIN L = 1..Len(L) /\ Len(L) \in Nat /\ L # <<>>
      /\ 1 \in DOMAIN L /\ L[1].type = "checkpoint"
  BY EmptySeq, LenProperties DEF JournalRecords
<1>2. C \subseteq Nat /\ IsFiniteSet(C) /\ C # {}
  <2>0. 1 \in Int /\ Len(L) \in Int
    BY <1>1
  <2>1. IsFiniteSet(1..Len(L))
    BY <2>0, FS_Interval
  <2> QED BY <1>1, <2>1, FS_Subset
<1>3. PICK m \in C : \A k \in C : k <= m
  BY <1>2, FiniteSetHasMax
<1>4. IsLast(L, m)
  BY <1>1, <1>3 DEF IsLast
<1>5. IsLast(L, LastCheckpoint(L))
  BY <1>4 DEF IsLast, LastCheckpoint
<1>6. ASSUME NEW i, NEW j, IsLast(L, i), IsLast(L, j)
      PROVE  i = j
  BY <1>1, <1>6 DEF IsLast
<1> QED BY <1>1, <1>5, <1>6 DEF IsLast

\* A journal that gets one more record is a journal.
LEMMA AppendJournal ==
  ASSUME NEW L \in JournalRecords, NEW x \in Record
  PROVE  /\ Append(L, x) \in JournalRecords
         /\ L \in Seq(Record) /\ Len(L) \in Nat /\ Len(L) >= 1 /\ DOMAIN L = 1..Len(L)
         /\ Append(L, x) \in Seq(Record)
         /\ Len(Append(L, x)) = Len(L) + 1
         /\ DOMAIN Append(L, x) = 1..(Len(L) + 1)
         /\ \A i \in 1..Len(L) : Append(L, x)[i] = L[i]
         /\ Append(L, x)[Len(L) + 1] = x
<1>1. L \in Seq(Record) /\ L # <<>> /\ L[1].type = "checkpoint"
  BY DEF JournalRecords
<1>2. Len(L) \in Nat /\ Len(L) >= 1 /\ DOMAIN L = 1..Len(L)
  BY <1>1, EmptySeq, LenProperties
<1>3. /\ Append(L, x) \in Seq(Record)
      /\ Len(Append(L, x)) = Len(L) + 1
      /\ \A i \in 1..Len(L) : Append(L, x)[i] = L[i]
      /\ Append(L, x)[Len(L) + 1] = x
  BY <1>1, AppendProperties
<1>4. Append(L, x)[1].type = "checkpoint" /\ Append(L, x) # <<>>
  BY <1>1, <1>2, <1>3
<1>5. DOMAIN Append(L, x) = 1..(Len(L) + 1)
  BY <1>3, LenProperties
<1> QED BY <1>1, <1>2, <1>3, <1>4, <1>5 DEF JournalRecords

\* A record that is no checkpoint is one more step of the same replay.
LEMMA ReplayOfAppend ==
  ASSUME NEW L \in JournalRecords, NEW x \in Record, x.type # "checkpoint"
  PROVE  Replay(Append(L, x)) = ReplayStep(Replay(L), x)
<1> DEFINE M  == Append(L, x)
           cp == LastCheckpoint(L)
<1>1. /\ M \in JournalRecords
      /\ L \in Seq(Record) /\ Len(L) \in Nat /\ Len(L) >= 1 /\ DOMAIN L = 1..Len(L)
      /\ M \in Seq(Record) /\ Len(M) = Len(L) + 1 /\ DOMAIN M = 1..(Len(L) + 1)
      /\ \A i \in 1..Len(L) : M[i] = L[i]
      /\ M[Len(L) + 1] = x
  BY AppendJournal
<1>2. IsLast(L, cp) /\ cp \in 1..Len(L)
  BY LastCheckpointIs
<1>m. M = Append(L, x)
  OBVIOUS
<1>c. cp = LastCheckpoint(L)
  OBVIOUS
<1> HIDE DEF M, cp
<1>3. IsLast(M, cp)
  BY <1>1, <1>2 DEF IsLast
<1>4. LastCheckpoint(M) = cp
  BY <1>1, <1>3, LastCheckpointIs
<1>5. SubSeq(M, 1, cp - 1) = SubSeq(L, 1, cp - 1)
  BY <1>1, <1>2
<1>6. /\ SubSeq(L, cp + 1, Len(L)) \in Seq(Record)
      /\ SubSeq(M, cp + 1, Len(M)) = Append(SubSeq(L, cp + 1, Len(L)), x)
  <2>1. SubSeq(L, cp + 1, Len(L)) \in Seq(Record)
    BY <1>1, <1>2
  <2>2. SubSeq(Append(L, x), cp + 1, Len(L) + 1) = Append(SubSeq(L, cp + 1, Len(L)), x)
    <3>1. cp + 1 \in 1..(Len(L) + 1)
      BY <1>1, <1>2
    <3> QED BY <1>1, <3>1, TailOfAppend
  <2> QED BY <1>1, <1>m, <2>1, <2>2
<1>7. M[cp] = L[cp]
  BY <1>1, <1>2
<1>8. Floor(M) = Floor(L)
  BY <1>4, <1>5, <1>7, <1>c DEF Floor
<1> DEFINE base == [state |-> Floor(L), consumed |-> cp, stopped |-> FALSE]
           rest == SubSeq(L, cp + 1, Len(L))
<1>9. Replay(M) = FoldLeft(ReplayStep, base, Append(rest, x))
  BY <1>4, <1>6, <1>8 DEF Replay
<1>10. Replay(L) = FoldLeft(ReplayStep, base, rest)
  BY <1>c DEF Replay
<1>11. FoldLeft(ReplayStep, base, Append(rest, x)) = ReplayStep(FoldLeft(ReplayStep, base, rest), x)
  <2>1. rest \in Seq(Record)
    BY <1>6
  <2> HIDE DEF rest, base
  <2> QED BY <2>1, StepsFold
<1> QED BY <1>9, <1>10, <1>11, <1>m

\* A checkpoint at the end starts the replay over.
LEMMA ReplayOfCheckpoint ==
  ASSUME NEW L \in Seq(Record), NEW x \in Record, x.type = "checkpoint"
  PROVE  LET base == [hist |-> x.hist, ids |-> x.ids, open |-> {}, windowed |-> {},
                      markers |-> [t \in TakeId |-> {}], max_take |-> 0]
         IN  Replay(Append(L, x)) =
               [state |-> FoldLeft(NoteMetadata, base, L), consumed |-> Len(L) + 1,
                stopped |-> FALSE]
<1> DEFINE base == [hist |-> x.hist, ids |-> x.ids, open |-> {}, windowed |-> {},
                    markers |-> [t \in TakeId |-> {}], max_take |-> 0]
           M == Append(L, x)
<1>1. /\ Len(L) \in Nat /\ M \in Seq(Record) /\ Len(M) = Len(L) + 1 /\ M[Len(M)] = x
      /\ DOMAIN M = 1..(Len(L) + 1)
  BY LenProperties, AppendProperties
<1>3. SubSeq(M, 1, Len(L)) = L
  OBVIOUS
<1>4. SubSeq(M, Len(M) + 1, Len(M)) = <<>>
  BY <1>1
<1>m. M = Append(L, x)
  OBVIOUS
<1> HIDE DEF M
<1>2. LastCheckpoint(M) = Len(M)
  <2>1. IsLast(M, Len(M))
    BY <1>1 DEF IsLast
  <2>2. \A i : IsLast(M, i) => i = Len(M)
    BY <1>1, <2>1 DEF IsLast
  <2> QED BY <2>1, <2>2 DEF LastCheckpoint, IsLast
<1>5. Len(M) - 1 = Len(L)
  BY <1>1
<1>6. Floor(M) = FoldLeft(NoteMetadata, base, L)
  BY <1>1, <1>2, <1>3, <1>5 DEF Floor
<1>7. Replay(M) = FoldLeft(ReplayStep, [state |-> Floor(M), consumed |-> Len(M), stopped |-> FALSE], <<>>)
  BY <1>2, <1>4 DEF Replay
<1> QED BY <1>1, <1>6, <1>7, <1>m, EmptyFolds

ReplayState ==
  [hist : HistoryState, ids : SUBSET Chunk, open : SUBSET TakeId,
   windowed : SUBSET TakeId, markers : [TakeId -> SUBSET MarkerId],
   max_take : 0..MaxTake]

SummaryState ==
  [closed : BOOLEAN, undo : Seq(Nat), redo : Seq(Nat), saved_seq : Nat,
   open : SUBSET TakeId, pending : SUBSET TakeId,
   truncated : SUBSET (TakeId \cup {NoTake}), inconsistent : BOOLEAN]

\* Every marker of every document of hs has an id that was handed out.
MarkersBelow(hs) == \A d \in Contents(hs) : \A m \in d.markers : m < hs.next_marker_id

\* A replayed state is one a session can be in.
GoodState(r) ==
  /\ r \in ReplayState
  /\ Live(r.hist) \subseteq r.ids
  /\ MarkersBelow(r.hist)
  /\ r.windowed \subseteq r.open
  /\ \A t \in r.open : t <= r.max_take
  /\ \A t \in TakeId : t \notin r.open => r.markers[t] = {}
  /\ \A t \in r.open : r.markers[t] \cap r.hist.current.markers = {}

\* The seqs of a stack.
SeqsOf(stack) == [i \in DOMAIN stack |-> stack[i].seq]

\* The scan of the garbage collection reads the same.
Agree(s, r) ==
  /\ s \in SummaryState
  /\ ~s.inconsistent
  /\ s.undo = SeqsOf(r.hist.undo)
  /\ s.redo = SeqsOf(r.hist.redo)
  /\ s.saved_seq = r.hist.saved_seq
  /\ s.open = r.open \cap r.windowed
  /\ s.pending \cap r.open = r.open \ r.windowed
  /\ \A t \in s.pending : t <= r.max_take

\* Of the takes a journal holds open only the newest has a WAV or markers.
TakesStand(r, w) ==
  \A t \in r.open : \/ \A u \in r.open : u <= t
                    \/ w[t] = "none" /\ r.markers[t] = {}

BegunBy(rec) == IF rec.type = "take_begin" THEN {rec.take} ELSE {}

IdsIn(L)   == UNION {IdsOf(L[i]) : i \in DOMAIN L}
BegunIn(L) == UNION {BegunBy(L[i]) : i \in DOMAIN L}

State(L) == Replay(L).state

\* All of L replays, and what it replays to is as it should be.
Sound(L, w) ==
  /\ Replay(L) = [state |-> State(L), consumed |-> Len(L), stopped |-> FALSE]
  /\ GoodState(State(L))
  /\ State(L).ids = IdsIn(L)
  /\ State(L).open \subseteq BegunIn(L)
  /\ \A t \in BegunIn(L) : t <= State(L).max_take
  /\ TakesStand(State(L), w)
  /\ Agree(Summary(L), State(L))

\* One more record keeps it so.
Fits(r, s, rec, w) ==
  LET r1 == Applied(r, rec) IN
  /\ Applies(r, rec)
  /\ GoodState(r1)
  /\ r1.ids = r.ids \cup IdsOf(rec)
  /\ r1.open \subseteq r.open \cup BegunBy(rec)
  /\ r.max_take <= r1.max_take
  /\ \A t \in BegunBy(rec) : t <= r1.max_take
  /\ TakesStand(r1, w)
  /\ Agree(Summarized(s, rec), r1)

\* The chunks and takes a journal names, when it gets one more record.
LEMMA InOfAppend ==
  ASSUME NEW E, NEW L \in Seq(E), NEW x \in E
  PROVE  /\ IdsIn(Append(L, x)) = IdsIn(L) \cup IdsOf(x)
         /\ BegunIn(Append(L, x)) = BegunIn(L) \cup BegunBy(x)
<1> DEFINE M == Append(L, x)
           n == Len(L)
<1>0. n \in Nat /\ DOMAIN L = 1..n
  BY LenProperties
<1>1. /\ n \in Nat /\ DOMAIN L = 1..n /\ M \in Seq(E) /\ Len(M) = n + 1
      /\ (\A i \in 1..n : M[i] = L[i]) /\ M[n + 1] = x
  BY <1>0, AppendProperties
<1>3. DOMAIN M = 1..(n + 1)
  BY <1>1, LenProperties
<1> HIDE DEF M, n
<1>2. 1..(n + 1) = (1..n) \cup {n + 1}
  BY <1>1
<1>4. IdsIn(M) = IdsIn(L) \cup IdsOf(x)
  BY <1>1, <1>2, <1>3 DEF IdsIn
<1>5. BegunIn(M) = BegunIn(L) \cup BegunBy(x)
  BY <1>1, <1>2, <1>3 DEF BegunIn
<1> QED BY <1>4, <1>5 DEF M

\* summarize reads one record after the other.
LEMMA SummaryOfAppend ==
  ASSUME NEW E, NEW L \in Seq(E), NEW x \in E
  PROVE  Summary(Append(L, x)) = Summarized(Summary(L), x)
BY ScansFold DEF Summary

\* A record that applies is consumed.
LEMMA StepApplies ==
  ASSUME NEW r, NEW n \in Nat, NEW x, Applies(r, x)
  PROVE  ReplayStep([state |-> r, consumed |-> n, stopped |-> FALSE], x)
           = [state |-> Applied(r, x), consumed |-> n + 1, stopped |-> FALSE]
BY DEF ReplayStep

\* A record that fits keeps a journal sound.
LEMMA SoundAppend ==
  ASSUME NEW L \in JournalRecords, NEW w, NEW x \in Record, x.type # "checkpoint",
         Sound(L, w), Fits(State(L), Summary(L), x, w)
  PROVE  Sound(Append(L, x), w) /\ State(Append(L, x)) = Applied(State(L), x)
<1> DEFINE M  == Append(L, x)
           r  == State(L)
           r1 == Applied(r, x)
<1>1. Replay(M) = ReplayStep(Replay(L), x)
  BY ReplayOfAppend
<1>2. Replay(L) = [state |-> r, consumed |-> Len(L), stopped |-> FALSE]
  BY DEF Sound
<1>3. Applies(r, x)
  BY DEF Fits
<1>4. Len(M) = Len(L) + 1
  BY AppendJournal
<1>5. Replay(M) = [state |-> r1, consumed |-> Len(M), stopped |-> FALSE]
  <2>1. Len(L) \in Nat
    BY AppendJournal
  <2> HIDE DEF M, r
  <2> QED BY <1>1, <1>2, <1>3, <1>4, <2>1, StepApplies
<1>6. State(M) = r1
  BY <1>5 DEF State
<1>7. Summary(M) = Summarized(Summary(L), x)
  BY SummaryOfAppend DEF JournalRecords
<1>8. IdsIn(M) = IdsIn(L) \cup IdsOf(x) /\ BegunIn(M) = BegunIn(L) \cup BegunBy(x)
  BY InOfAppend DEF JournalRecords
<1>9. /\ GoodState(r) /\ r.ids = IdsIn(L) /\ r.open \subseteq BegunIn(L)
      /\ \A t \in BegunIn(L) : t <= r.max_take
  BY DEF Sound
<1>10. /\ GoodState(r1) /\ r1.ids = r.ids \cup IdsOf(x)
       /\ r1.open \subseteq r.open \cup BegunBy(x) /\ r.max_take <= r1.max_take
       /\ \A t \in BegunBy(x) : t <= r1.max_take
       /\ TakesStand(r1, w) /\ Agree(Summary(M), r1)
  BY <1>7 DEF Fits
<1>11. r.max_take \in Int /\ r1.max_take \in Int
  BY <1>9, <1>10 DEF GoodState, ReplayState
<1>12. \A t \in BegunIn(L) : t \in Int
  <2>1. \A i \in DOMAIN L : L[i] \in Record
    BY AppendJournal, ElementOfSeq
  <2>2. \A rec \in Record : BegunBy(rec) \subseteq TakeId
    BY DEF Record, CheckpointRecord, ChunksRecord, EditRecord, SeqRecord, CountRecord,
           BeginRecord, TakeRecord, MarkerRecord, Close, BegunBy
  <2>3. \A t \in TakeId : t \in Int
    BY DEF TakeId
  <2> QED BY <2>1, <2>2, <2>3 DEF BegunIn
<1> HIDE DEF M, r, r1
<1>13. \A t \in BegunIn(M) : t <= r1.max_take
  BY <1>8, <1>9, <1>10, <1>11, <1>12
<1>14. r1.ids = IdsIn(M) /\ r1.open \subseteq BegunIn(M)
  BY <1>8, <1>9, <1>10
<1>15. Sound(M, w)
  BY <1>5, <1>6, <1>10, <1>13, <1>14 DEF Sound
<1> QED BY <1>6, <1>15 DEF M, r, r1

-----------------------------------------------------------------------------
(* What each record does to a replayed state ... *)

\* The fields of a replayed state.
LEMMA ReplayParts ==
  ASSUME NEW r \in ReplayState
  PROVE  /\ r.hist \in HistoryState /\ r.ids \in SUBSET Chunk /\ r.open \in SUBSET TakeId
         /\ r.windowed \in SUBSET TakeId /\ r.markers \in [TakeId -> SUBSET MarkerId]
         /\ r.max_take \in 0..MaxTake
         /\ r = [hist |-> r.hist, ids |-> r.ids, open |-> r.open, windowed |-> r.windowed,
                 markers |-> r.markers, max_take |-> r.max_take]
BY DEF ReplayState

\* replay: a chunks record.
LEMMA AppliedChunks ==
  ASSUME NEW r \in ReplayState, NEW I
  PROVE  Applied(r, Chunks(I)) =
           [hist |-> r.hist, ids |-> r.ids \cup I, open |-> r.open,
            windowed |-> r.windowed, markers |-> r.markers, max_take |-> r.max_take]
BY DEF Applied, NoteMetadata, Chunks, ReplayState

\* replay: an edit.
LEMMA AppliedEdit ==
  ASSUME NEW r \in ReplayState, NEW seq, NEW e, NEW t, NEW sh
  PROVE  Applied(r, Edit(seq, e, t, sh)) =
           [hist |-> Commit(r.hist, e), ids |-> r.ids,
            open |-> IF t = NoTake THEN r.open ELSE r.open \ {t},
            windowed |-> IF t = NoTake THEN r.windowed ELSE r.windowed \ {t},
            markers |-> IF t = NoTake THEN r.markers ELSE [r.markers EXCEPT ![t] = {}],
            max_take |-> r.max_take]
BY DEF Applied, NoteMetadata, ReplayedHistory, Edit, ReplayState

\* replay: the records that change nothing but the history.
LEMMA AppliedHistory ==
  ASSUME NEW r \in ReplayState
  PROVE  /\ \A seq : Applied(r, UndoRec(seq)) =
              [hist |-> Undone(r.hist), ids |-> r.ids, open |-> r.open,
               windowed |-> r.windowed, markers |-> r.markers, max_take |-> r.max_take]
         /\ \A seq : Applied(r, RedoRec(seq)) =
              [hist |-> Redone(r.hist), ids |-> r.ids, open |-> r.open,
               windowed |-> r.windowed, markers |-> r.markers, max_take |-> r.max_take]
         /\ \A seq : Applied(r, Saved(seq)) =
              [hist |-> MarkedSavedAt(r.hist, seq), ids |-> r.ids, open |-> r.open,
               windowed |-> r.windowed, markers |-> r.markers, max_take |-> r.max_take]
         /\ \A n : Applied(r, DropUndo(n)) =
              [hist |-> DroppedOldest(r.hist, Least(n, Len(r.hist.undo))), ids |-> r.ids,
               open |-> r.open, windowed |-> r.windowed, markers |-> r.markers,
               max_take |-> r.max_take]
<1>1. \A seq : Applied(r, UndoRec(seq)) =
              [hist |-> Undone(r.hist), ids |-> r.ids, open |-> r.open,
               windowed |-> r.windowed, markers |-> r.markers, max_take |-> r.max_take]
  BY DEF Applied, NoteMetadata, ReplayedHistory, UndoRec, ReplayState
<1>2. \A seq : Applied(r, RedoRec(seq)) =
              [hist |-> Redone(r.hist), ids |-> r.ids, open |-> r.open,
               windowed |-> r.windowed, markers |-> r.markers, max_take |-> r.max_take]
  BY DEF Applied, NoteMetadata, ReplayedHistory, RedoRec, ReplayState
<1>3. \A seq : Applied(r, Saved(seq)) =
              [hist |-> MarkedSavedAt(r.hist, seq), ids |-> r.ids, open |-> r.open,
               windowed |-> r.windowed, markers |-> r.markers, max_take |-> r.max_take]
  BY DEF Applied, NoteMetadata, ReplayedHistory, Saved, ReplayState
<1>4. \A n : Applied(r, DropUndo(n)) =
              [hist |-> DroppedOldest(r.hist, Least(n, Len(r.hist.undo))), ids |-> r.ids,
               open |-> r.open, windowed |-> r.windowed, markers |-> r.markers,
               max_take |-> r.max_take]
  BY DEF Applied, NoteMetadata, ReplayedHistory, DropUndo, ReplayState
<1> QED BY <1>1, <1>2, <1>3, <1>4

\* replay: the records about takes.
LEMMA AppliedTake ==
  ASSUME NEW r \in ReplayState, NEW t
  PROVE  /\ \A al \in BOOLEAN : Applied(r, TakeBegin(t, al)) =
              [hist |-> r.hist, ids |-> r.ids, open |-> r.open \cup {t},
               windowed |-> IF al THEN r.windowed \ {t} ELSE r.windowed \cup {t},
               markers |-> r.markers,
               max_take |-> IF t > r.max_take THEN t ELSE r.max_take]
         /\ Applied(r, TakeWindow(t)) =
              [hist |-> r.hist, ids |-> r.ids, open |-> r.open,
               windowed |-> r.windowed \cup ({t} \cap r.open), markers |-> r.markers,
               max_take |-> r.max_take]
         /\ \A m : Applied(r, TakeMarker(t, m)) =
              [hist |-> r.hist, ids |-> r.ids, open |-> r.open,
               windowed |-> r.windowed,
               markers |-> [r.markers EXCEPT ![t] = @ \cup {m}],
               max_take |-> r.max_take]
         /\ \A rec \in {TakeDiscard(t), TakeCancel(t)} : Applied(r, rec) =
              [hist |-> r.hist, ids |-> r.ids, open |-> r.open \ {t},
               windowed |-> r.windowed \ {t},
               markers |-> [r.markers EXCEPT ![t] = {}],
               max_take |-> r.max_take]
         /\ Applied(r, Close) = r
<1>1. \A al \in BOOLEAN : Applied(r, TakeBegin(t, al)) =
              [hist |-> r.hist, ids |-> r.ids, open |-> r.open \cup {t},
               windowed |-> IF al THEN r.windowed \ {t} ELSE r.windowed \cup {t},
               markers |-> r.markers,
               max_take |-> IF t > r.max_take THEN t ELSE r.max_take]
  <2> SUFFICES ASSUME NEW al \in BOOLEAN
               PROVE  Applied(r, TakeBegin(t, al)) =
                 [hist |-> r.hist, ids |-> r.ids, open |-> r.open \cup {t},
                  windowed |-> IF al THEN r.windowed \ {t} ELSE r.windowed \cup {t},
                  markers |-> r.markers,
                  max_take |-> IF t > r.max_take THEN t ELSE r.max_take]
    OBVIOUS
  <2>1. /\ r.hist \in HistoryState
        /\ [r EXCEPT !.hist = r.hist] = r
    BY DEF ReplayState
  <2>2. Applied(r, TakeBegin(t, al)) = NoteMetadata(r, TakeBegin(t, al))
    BY <2>1 DEF Applied, ReplayedHistory, TakeBegin
  <2>3. NoteMetadata(r, TakeBegin(t, al)) =
          [r EXCEPT !.open = @ \cup {t},
                    !.windowed = IF al THEN @ \ {t} ELSE @ \cup {t},
                    !.max_take = IF t > @ THEN t ELSE @]
    BY DEF NoteMetadata, TakeBegin
  <2> DEFINE W == IF al THEN r.windowed \ {t} ELSE r.windowed \cup {t}
             m == IF t > r.max_take THEN t ELSE r.max_take
  <2>4. NoteMetadata(r, TakeBegin(t, al)) =
          [r EXCEPT !.open = r.open \cup {t}, !.windowed = W, !.max_take = m]
    BY <2>3
  <2> HIDE DEF W, m
  <2>5. Applied(r, TakeBegin(t, al)) =
                 [hist |-> r.hist, ids |-> r.ids, open |-> r.open \cup {t},
                  windowed |-> W, markers |-> r.markers, max_take |-> m]
    BY <2>2, <2>4 DEF ReplayState
  <2> QED BY <2>5 DEF W, m
<1>2. Applied(r, TakeWindow(t)) =
              [hist |-> r.hist, ids |-> r.ids, open |-> r.open,
               windowed |-> r.windowed \cup ({t} \cap r.open), markers |-> r.markers,
               max_take |-> r.max_take]
  BY DEF Applied, NoteMetadata, ReplayedHistory, TakeWindow, ReplayState
<1>3. \A m : Applied(r, TakeMarker(t, m)) =
              [hist |-> r.hist, ids |-> r.ids, open |-> r.open,
               windowed |-> r.windowed,
               markers |-> [r.markers EXCEPT ![t] = @ \cup {m}],
               max_take |-> r.max_take]
  <2> SUFFICES ASSUME NEW m
               PROVE  Applied(r, TakeMarker(t, m)) =
                 [hist |-> r.hist, ids |-> r.ids, open |-> r.open,
                  windowed |-> r.windowed,
                  markers |-> [r.markers EXCEPT ![t] = @ \cup {m}],
                  max_take |-> r.max_take]
    OBVIOUS
  <2>1. [r EXCEPT !.hist = r.hist] = r
    BY DEF ReplayState
  <2>2. Applied(r, TakeMarker(t, m)) = NoteMetadata(r, TakeMarker(t, m))
    BY <2>1 DEF Applied, ReplayedHistory, TakeMarker
  <2> DEFINE M == [r.markers EXCEPT ![t] = @ \cup {m}]
  <2>3. NoteMetadata(r, TakeMarker(t, m)) = [r EXCEPT !.markers = M]
    BY DEF NoteMetadata, TakeMarker
  <2> HIDE DEF M
  <2>4. Applied(r, TakeMarker(t, m)) =
                 [hist |-> r.hist, ids |-> r.ids, open |-> r.open,
                  windowed |-> r.windowed, markers |-> M, max_take |-> r.max_take]
    BY <2>2, <2>3 DEF ReplayState
  <2> QED BY <2>4 DEF M
<1>4. \A rec \in {TakeDiscard(t), TakeCancel(t)} : Applied(r, rec) =
              [hist |-> r.hist, ids |-> r.ids, open |-> r.open \ {t},
               windowed |-> r.windowed \ {t},
               markers |-> [r.markers EXCEPT ![t] = {}],
               max_take |-> r.max_take]
  <2> SUFFICES ASSUME NEW rec \in {TakeDiscard(t), TakeCancel(t)}
               PROVE  Applied(r, rec) =
                 [hist |-> r.hist, ids |-> r.ids, open |-> r.open \ {t},
                  windowed |-> r.windowed \ {t},
                  markers |-> [r.markers EXCEPT ![t] = {}],
                  max_take |-> r.max_take]
    OBVIOUS
  <2>0. rec.type \in {"take_discard", "take_cancel"} /\ rec.take = t
    BY DEF TakeDiscard, TakeCancel
  <2>1. [r EXCEPT !.hist = r.hist] = r
    BY DEF ReplayState
  <2>2. Applied(r, rec) = NoteMetadata(r, rec)
    BY <2>0, <2>1 DEF Applied, ReplayedHistory
  <2> DEFINE M == [r.markers EXCEPT ![t] = {}]
  <2>3. NoteMetadata(r, rec) =
          [r EXCEPT !.open = r.open \ {t}, !.windowed = r.windowed \ {t}, !.markers = M]
    BY <2>0 DEF NoteMetadata
  <2> HIDE DEF M
  <2>4. Applied(r, rec) =
                 [hist |-> r.hist, ids |-> r.ids, open |-> r.open \ {t},
                  windowed |-> r.windowed \ {t}, markers |-> M,
                  max_take |-> r.max_take]
    BY <2>2, <2>3 DEF ReplayState
  <2> QED BY <2>4 DEF M
<1>5. Applied(r, Close) = r
  BY DEF Applied, NoteMetadata, ReplayedHistory, Close, ReplayState
<1> QED BY <1>1, <1>2, <1>3, <1>4, <1>5

-----------------------------------------------------------------------------
(* ... and to the scan of the garbage collection. *)

\* summarize: chunks, markers of a take, a save, the close.
LEMMA SummarizedPlain ==
  ASSUME NEW s \in SummaryState
  PROVE  /\ \A I : Summarized(s, Chunks(I)) = [s EXCEPT !.closed = FALSE]
         /\ \A t, m : Summarized(s, TakeMarker(t, m)) = [s EXCEPT !.closed = FALSE]
         /\ \A seq : Summarized(s, Saved(seq)) = [s EXCEPT !.closed = FALSE, !.saved_seq = seq]
         /\ Summarized(s, Close) = [s EXCEPT !.closed = TRUE]
<1>1. \A I : Summarized(s, Chunks(I)) = [s EXCEPT !.closed = FALSE]
  BY DEF Summarized, Chunks
<1>2. \A t, m : Summarized(s, TakeMarker(t, m)) = [s EXCEPT !.closed = FALSE]
  BY DEF Summarized, TakeMarker
<1>3. \A seq : Summarized(s, Saved(seq)) = [s EXCEPT !.closed = FALSE, !.saved_seq = seq]
  BY DEF Summarized, Saved, SummaryState
<1>4. Summarized(s, Close) = [s EXCEPT !.closed = TRUE]
  BY DEF Summarized, Close, SummaryState
<1> QED BY <1>1, <1>2, <1>3, <1>4

\* summarize: an edit.
LEMMA SummarizedEdit ==
  ASSUME NEW s \in SummaryState, NEW seq, NEW e, NEW t, NEW sh \in BOOLEAN
  PROVE  Summarized(s, Edit(seq, e, t, sh)) =
           [closed |-> FALSE, undo |-> Append(s.undo, seq), redo |-> <<>>,
            saved_seq |-> s.saved_seq, open |-> s.open \ {t}, pending |-> s.pending,
            truncated |-> IF sh THEN s.truncated \cup {t} ELSE s.truncated,
            inconsistent |-> s.inconsistent]
BY DEF Summarized, Edit, SummaryState

\* summarize: undo, redo, dropped entries.
LEMMA SummarizedHistory ==
  ASSUME NEW s \in SummaryState, NEW seq
  PROVE  /\ s.undo # <<>> /\ Top(s.undo) = seq =>
              Summarized(s, UndoRec(seq)) =
                [closed |-> FALSE, undo |-> Pop(s.undo), redo |-> Append(s.redo, seq),
                 saved_seq |-> s.saved_seq, open |-> s.open, pending |-> s.pending,
                 truncated |-> s.truncated, inconsistent |-> s.inconsistent]
         /\ s.redo # <<>> /\ Top(s.redo) = seq =>
              Summarized(s, RedoRec(seq)) =
                [closed |-> FALSE, undo |-> Append(s.undo, seq), redo |-> Pop(s.redo),
                 saved_seq |-> s.saved_seq, open |-> s.open, pending |-> s.pending,
                 truncated |-> s.truncated, inconsistent |-> s.inconsistent]
         /\ \A n : Summarized(s, DropUndo(n)) =
                [closed |-> FALSE,
                 undo |-> SubSeq(s.undo, Least(n, Len(s.undo)) + 1, Len(s.undo)),
                 redo |-> s.redo,
                 saved_seq |-> s.saved_seq, open |-> s.open, pending |-> s.pending,
                 truncated |-> s.truncated, inconsistent |-> s.inconsistent]
<1>1. s.undo # <<>> /\ Top(s.undo) = seq =>
              Summarized(s, UndoRec(seq)) =
                [closed |-> FALSE, undo |-> Pop(s.undo), redo |-> Append(s.redo, seq),
                 saved_seq |-> s.saved_seq, open |-> s.open, pending |-> s.pending,
                 truncated |-> s.truncated, inconsistent |-> s.inconsistent]
  BY DEF Summarized, UndoRec, SummaryState
<1>2. s.redo # <<>> /\ Top(s.redo) = seq =>
              Summarized(s, RedoRec(seq)) =
                [closed |-> FALSE, undo |-> Append(s.undo, seq), redo |-> Pop(s.redo),
                 saved_seq |-> s.saved_seq, open |-> s.open, pending |-> s.pending,
                 truncated |-> s.truncated, inconsistent |-> s.inconsistent]
  BY DEF Summarized, RedoRec, SummaryState
<1>3. \A n : Summarized(s, DropUndo(n)) =
                [closed |-> FALSE,
                 undo |-> SubSeq(s.undo, Least(n, Len(s.undo)) + 1, Len(s.undo)),
                 redo |-> s.redo,
                 saved_seq |-> s.saved_seq, open |-> s.open, pending |-> s.pending,
                 truncated |-> s.truncated, inconsistent |-> s.inconsistent]
  BY DEF Summarized, DropUndo, SummaryState
<1> QED BY <1>1, <1>2, <1>3

\* summarize: the records about takes.
LEMMA SummarizedTake ==
  ASSUME NEW s \in SummaryState, NEW t
  PROVE  /\ \A al \in BOOLEAN : Summarized(s, TakeBegin(t, al)) =
              [closed |-> FALSE, undo |-> s.undo, redo |-> s.redo, saved_seq |-> s.saved_seq,
               open |-> IF al THEN s.open ELSE s.open \cup {t},
               pending |-> IF al THEN s.pending \cup {t} ELSE s.pending,
               truncated |-> s.truncated, inconsistent |-> s.inconsistent]
         /\ Summarized(s, TakeWindow(t)) =
              [closed |-> FALSE, undo |-> s.undo, redo |-> s.redo, saved_seq |-> s.saved_seq,
               open |-> s.open \cup ({t} \cap s.pending), pending |-> s.pending \ {t},
               truncated |-> s.truncated, inconsistent |-> s.inconsistent]
         /\ \A rec \in {TakeDiscard(t), TakeCancel(t)} : Summarized(s, rec) =
              [closed |-> FALSE, undo |-> s.undo, redo |-> s.redo, saved_seq |-> s.saved_seq,
               open |-> s.open \ {t}, pending |-> s.pending \ {t},
               truncated |-> s.truncated, inconsistent |-> s.inconsistent]
<1>1. \A al \in BOOLEAN : Summarized(s, TakeBegin(t, al)) =
              [closed |-> FALSE, undo |-> s.undo, redo |-> s.redo, saved_seq |-> s.saved_seq,
               open |-> IF al THEN s.open ELSE s.open \cup {t},
               pending |-> IF al THEN s.pending \cup {t} ELSE s.pending,
               truncated |-> s.truncated, inconsistent |-> s.inconsistent]
  <2> SUFFICES ASSUME NEW al \in BOOLEAN
               PROVE  Summarized(s, TakeBegin(t, al)) =
              [closed |-> FALSE, undo |-> s.undo, redo |-> s.redo, saved_seq |-> s.saved_seq,
               open |-> IF al THEN s.open ELSE s.open \cup {t},
               pending |-> IF al THEN s.pending \cup {t} ELSE s.pending,
               truncated |-> s.truncated, inconsistent |-> s.inconsistent]
    OBVIOUS
  <2> DEFINE x == TakeBegin(t, al)
             c == [s EXCEPT !.closed = FALSE]
  <2>1. x.type = "take_begin" /\ x.take = t /\ (x.aligned <=> al)
    BY DEF TakeBegin
  <2> HIDE DEF x
  <2>2. Summarized(s, x) = IF al THEN [c EXCEPT !.pending = @ \cup {t}]
                                ELSE [c EXCEPT !.open = @ \cup {t}]
    BY <2>1 DEF Summarized
  <2>3. CASE al
    BY <2>2, <2>3 DEF SummaryState, x
  <2>4. CASE ~al
    BY <2>2, <2>4 DEF SummaryState, x
  <2> QED BY <2>3, <2>4
<1>2. Summarized(s, TakeWindow(t)) =
              [closed |-> FALSE, undo |-> s.undo, redo |-> s.redo, saved_seq |-> s.saved_seq,
               open |-> s.open \cup ({t} \cap s.pending), pending |-> s.pending \ {t},
               truncated |-> s.truncated, inconsistent |-> s.inconsistent]
  BY DEF Summarized, TakeWindow, SummaryState
<1>3. \A rec \in {TakeDiscard(t), TakeCancel(t)} : Summarized(s, rec) =
              [closed |-> FALSE, undo |-> s.undo, redo |-> s.redo, saved_seq |-> s.saved_seq,
               open |-> s.open \ {t}, pending |-> s.pending \ {t},
               truncated |-> s.truncated, inconsistent |-> s.inconsistent]
  <2> SUFFICES ASSUME NEW rec \in {TakeDiscard(t), TakeCancel(t)}
               PROVE  Summarized(s, rec) =
              [closed |-> FALSE, undo |-> s.undo, redo |-> s.redo, saved_seq |-> s.saved_seq,
               open |-> s.open \ {t}, pending |-> s.pending \ {t},
               truncated |-> s.truncated, inconsistent |-> s.inconsistent]
    OBVIOUS
  <2>1. rec.type \in {"take_discard", "take_cancel"} /\ rec.take = t
    BY DEF TakeDiscard, TakeCancel
  <2> QED BY <2>1 DEF Summarized, SummaryState
<1> QED BY <1>1, <1>2, <1>3

-----------------------------------------------------------------------------
(* The seqs of a stack. *)

\* The seqs of a stack are numbers, one per entry.
LEMMA SeqsOfType ==
  ASSUME NEW stack \in Seq(Entry)
  PROVE  /\ SeqsOf(stack) \in Seq(Nat)
         /\ Len(SeqsOf(stack)) = Len(stack)
         /\ Len(stack) \in Nat
         /\ \A i \in 1..Len(stack) : SeqsOf(stack)[i] = stack[i].seq
         /\ SeqsOf(stack) = <<>> <=> stack = <<>>
<1> DEFINE n == Len(stack)
<1>1. n \in Nat /\ DOMAIN stack = 1..n /\ \A i \in 1..n : stack[i] \in Entry
  BY LenProperties, ElementOfSeq
<1>2. SeqsOf(stack) = [i \in 1..n |-> stack[i].seq]
  BY <1>1 DEF SeqsOf
<1>3. \A i \in 1..n : stack[i].seq \in Nat
  BY <1>1 DEF Entry
<1>4. SeqsOf(stack) \in Seq(Nat) /\ Len(SeqsOf(stack)) = n
  BY <1>1, <1>2, <1>3
<1>5. \A i \in 1..n : SeqsOf(stack)[i] = stack[i].seq
  BY <1>2
<1>6. \A S : \A q \in Seq(S) : q = <<>> <=> Len(q) = 0
  BY EmptySeq
<1>7. SeqsOf(stack) = <<>> <=> stack = <<>>
  BY <1>4, <1>6
<1> QED BY <1>1, <1>4, <1>5, <1>7

\* A pushed entry pushes its seq.
LEMMA SeqsOfAppend ==
  ASSUME NEW stack \in Seq(Entry), NEW e \in Entry
  PROVE  SeqsOf(Append(stack, e)) = Append(SeqsOf(stack), e.seq)
<1> DEFINE a == Append(stack, e)
           s == SeqsOf(stack)
           u == SeqsOf(a)
           v == Append(s, e.seq)
           n == Len(stack)
<1>1. e.seq \in Nat
  BY DEF Entry
<1>2. a \in Seq(Entry) /\ Len(a) = n + 1 /\ (\A i \in 1..n : a[i] = stack[i]) /\ a[n + 1] = e
  BY AppendProperties
<1>3. s \in Seq(Nat) /\ Len(s) = n /\ n \in Nat /\ \A i \in 1..n : s[i] = stack[i].seq
  BY SeqsOfType
<1> HIDE DEF a, s, n
<1>4. u \in Seq(Nat) /\ Len(u) = n + 1 /\ \A i \in 1..(n + 1) : u[i] = a[i].seq
  BY <1>2, SeqsOfType
<1>5. v \in Seq(Nat) /\ Len(v) = n + 1 /\ (\A i \in 1..n : v[i] = s[i]) /\ v[n + 1] = e.seq
  BY <1>1, <1>3, AppendProperties
<1> HIDE DEF u, v
<1>6. \A i \in 1..(n + 1) : u[i] = v[i]
  <2> SUFFICES ASSUME NEW i \in 1..(n + 1) PROVE u[i] = v[i]
    OBVIOUS
  <2>1. CASE i \in 1..n
    BY <1>2, <1>3, <1>4, <1>5, <2>1
  <2>2. CASE i = n + 1
    BY <1>2, <1>4, <1>5, <2>2
  <2> QED BY <1>3, <2>1, <2>2
<1>7. u = v
  BY <1>4, <1>5, <1>6, SeqEqual
<1> QED BY <1>7 DEF u, v, a, s

\* A popped entry pops its seq.
LEMMA SeqsOfPop ==
  ASSUME NEW stack \in Seq(Entry), stack # <<>>
  PROVE  /\ SeqsOf(Pop(stack)) = Pop(SeqsOf(stack))
         /\ SeqsOf(stack) # <<>>
         /\ Top(SeqsOf(stack)) = Top(stack).seq
<1> DEFINE s == SeqsOf(stack)
           n == Len(stack)
           u == SeqsOf(Pop(stack))
           v == Pop(s)
<1>1. n \in Nat \ {0}
  BY EmptySeq
<1>2. s \in Seq(Nat) /\ Len(s) = n /\ (\A i \in 1..n : s[i] = stack[i].seq) /\ s # <<>>
  BY SeqsOfType
<1>3. /\ Pop(stack) \in Seq(Entry) /\ Len(Pop(stack)) = n - 1
      /\ \A i \in 1..(n - 1) : Pop(stack)[i] = stack[i]
  BY PopType
<1>4. u \in Seq(Nat) /\ Len(u) = n - 1 /\ \A i \in 1..(n - 1) : u[i] = Pop(stack)[i].seq
  BY <1>3, SeqsOfType
<1> HIDE DEF s, n, u
<1>5. v \in Seq(Nat) /\ Len(v) = n - 1 /\ \A i \in 1..(n - 1) : v[i] = s[i]
  <2>1. v = SubSeq(s, 1, n - 1)
    BY <1>2 DEF Pop
  <2>2. \A i \in 1..(n - 1) : s[i] \in Nat
    BY <1>1, <1>2, ElementOfSeq
  <2>3. 1 \in Int /\ n - 1 \in Int
    BY <1>1
  <2>4. /\ SubSeq(s, 1, n - 1) \in Seq(Nat)
        /\ Len(SubSeq(s, 1, n - 1)) = IF 1 <= n - 1 THEN (n - 1) - 1 + 1 ELSE 0
        /\ \A i \in 1..((n - 1) - 1 + 1) : SubSeq(s, 1, n - 1)[i] = s[1 + i - 1]
    BY <2>2, <2>3, SubSeqProperties
  <2> HIDE DEF v
  <2> QED BY <1>1, <2>1, <2>4
<1> HIDE DEF v
<1>6. \A i \in 1..(n - 1) : u[i] = v[i]
  <2>1. \A i \in 1..(n - 1) : i \in 1..n
    BY <1>1
  <2> QED BY <1>2, <1>3, <1>4, <1>5, <2>1
<1>7. u = v
  BY <1>4, <1>5, <1>6, SeqEqual
<1>8. Top(s) = Top(stack).seq
  BY <1>1, <1>2 DEF Top, n
<1> QED BY <1>2, <1>7, <1>8 DEF u, v, s

\* Dropping the oldest entries drops their seqs.
LEMMA SeqsOfDrop ==
  ASSUME NEW stack \in Seq(Entry), NEW n \in 1..Len(stack)
  PROVE  SeqsOf(SubSeq(stack, n + 1, Len(stack)))
           = SubSeq(SeqsOf(stack), n + 1, Len(stack))
<1> DEFINE s == SeqsOf(stack)
           k == Len(stack)
           d == SubSeq(stack, n + 1, k)
           u == SeqsOf(d)
           v == SubSeq(s, n + 1, k)
<1>1. k \in Nat /\ s \in Seq(Nat) /\ Len(s) = k /\ \A i \in 1..k : s[i] = stack[i].seq
  BY SeqsOfType
<1>2. d \in Seq(Entry) /\ Len(d) = k - n /\ \A i \in 1..(k - n) : d[i] = stack[n + i]
  BY DropType
<1> HIDE DEF s, k, d
<1>k. n \in 1..k
  BY DEF k
<1>3. u \in Seq(Nat) /\ Len(u) = k - n /\ \A i \in 1..(k - n) : u[i] = d[i].seq
  BY <1>2, SeqsOfType
<1> HIDE DEF u
<1>4. v \in Seq(Nat) /\ Len(v) = k - n /\ \A i \in 1..(k - n) : v[i] = s[n + i]
  <2>1. \A i \in (n + 1)..k : s[i] \in Nat
    BY <1>1, <1>k, ElementOfSeq
  <2>2. n + 1 \in Int /\ k \in Int
    BY <1>1, <1>k
  <2>3. /\ SubSeq(s, n + 1, k) \in Seq(Nat)
        /\ Len(SubSeq(s, n + 1, k)) = IF n + 1 <= k THEN k - (n + 1) + 1 ELSE 0
        /\ \A i \in 1..(k - (n + 1) + 1) : SubSeq(s, n + 1, k)[i] = s[(n + 1) + i - 1]
    BY <2>1, <2>2, SubSeqProperties
  <2> HIDE DEF v
  <2>4. v = SubSeq(s, n + 1, k)
    BY DEF v
  <2>5. \A i \in 1..(k - n) : (n + 1) + i - 1 = n + i
    BY <1>1, <1>k
  <2>6. k - (n + 1) + 1 = k - n /\ (n + 1 <= k \/ k - n = 0)
    BY <1>1, <1>k
  <2> QED BY <2>3, <2>4, <2>5, <2>6
<1> HIDE DEF v
<1>5. \A i \in 1..(k - n) : u[i] = v[i]
  <2>1. \A i \in 1..(k - n) : n + i \in 1..k
    BY <1>1, <1>k
  <2> QED BY <1>1, <1>2, <1>3, <1>4, <2>1
<1>6. u = v
  BY <1>3, <1>4, <1>5, SeqEqual
<1> QED BY <1>6 DEF u, v, s, d, k

-----------------------------------------------------------------------------
(* Which records fit. *)

Standing(r, s, w) == GoodState(r) /\ TakesStand(r, w) /\ Agree(s, r)

\* The parts of a good state.
LEMMA GoodParts ==
  ASSUME NEW r, GoodState(r)
  PROVE  /\ r \in ReplayState
         /\ r.hist \in HistoryState /\ r.ids \in SUBSET Chunk /\ r.open \in SUBSET TakeId
         /\ r.windowed \in SUBSET TakeId /\ r.markers \in [TakeId -> SUBSET MarkerId]
         /\ r.max_take \in 0..MaxTake
         /\ Live(r.hist) \subseteq r.ids /\ MarkersBelow(r.hist)
         /\ r.windowed \subseteq r.open
         /\ \A t \in r.open : t <= r.max_take
         /\ \A t \in TakeId : t \notin r.open => r.markers[t] = {}
         /\ \A t \in r.open : r.markers[t] \cap r.hist.current.markers = {}
BY DEF GoodState, ReplayState

\* What makes a state good, field by field.
LEMMA MakeGood ==
  ASSUME NEW hs \in HistoryState, NEW I \in SUBSET Chunk, NEW O \in SUBSET TakeId,
         NEW W \in SUBSET TakeId, NEW K \in [TakeId -> SUBSET MarkerId], NEW n \in 0..MaxTake,
         Live(hs) \subseteq I, MarkersBelow(hs), W \subseteq O, \A t \in O : t <= n,
         \A t \in TakeId : t \notin O => K[t] = {},
         \A t \in O : K[t] \cap hs.current.markers = {}
  PROVE  GoodState([hist |-> hs, ids |-> I, open |-> O, windowed |-> W, markers |-> K,
                    max_take |-> n])
BY DEF GoodState, ReplayState

\* The parts of a scan that agrees with the replay.
LEMMA AgreeParts ==
  ASSUME NEW r, NEW s, Agree(s, r)
  PROVE  /\ s \in SummaryState
         /\ s.undo \in Seq(Nat) /\ s.redo \in Seq(Nat) /\ s.saved_seq \in Nat
         /\ s.open \in SUBSET TakeId /\ s.pending \in SUBSET TakeId
         /\ s.truncated \in SUBSET (TakeId \cup {NoTake}) /\ s.inconsistent = FALSE
         /\ s.undo = SeqsOf(r.hist.undo) /\ s.redo = SeqsOf(r.hist.redo)
         /\ s.saved_seq = r.hist.saved_seq
         /\ s.open = r.open \cap r.windowed
         /\ s.pending \cap r.open = r.open \ r.windowed
         /\ \A t \in s.pending : t <= r.max_take
BY DEF Agree, SummaryState

\* What makes them agree, field by field.
LEMMA MakeAgree ==
  ASSUME NEW c \in BOOLEAN, NEW U \in Seq(Nat), NEW R \in Seq(Nat), NEW q \in Nat,
         NEW O \in SUBSET TakeId, NEW P \in SUBSET TakeId,
         NEW T \in SUBSET (TakeId \cup {NoTake}),
         NEW r, U = SeqsOf(r.hist.undo), R = SeqsOf(r.hist.redo), q = r.hist.saved_seq,
         O = r.open \cap r.windowed, P \cap r.open = r.open \ r.windowed,
         \A t \in P : t <= r.max_take
  PROVE  Agree([closed |-> c, undo |-> U, redo |-> R, saved_seq |-> q, open |-> O,
                pending |-> P, truncated |-> T, inconsistent |-> FALSE], r)
BY DEF Agree, SummaryState

\* The session writes a list of chunks.
LEMMA ChunksFit ==
  ASSUME NEW r, NEW s, NEW w, Standing(r, s, w), NEW I \in SUBSET Chunk
  PROVE  Fits(r, s, Chunks(I), w)
<1> DEFINE x  == Chunks(I)
           r1 == [hist |-> r.hist, ids |-> r.ids \cup I, open |-> r.open,
                  windowed |-> r.windowed, markers |-> r.markers, max_take |-> r.max_take]
<1>1. /\ GoodState(r) /\ TakesStand(r, w) /\ Agree(s, r)
      /\ r \in ReplayState /\ s \in SummaryState
  BY DEF Standing, GoodState, Agree
<1>2. Applied(r, x) = r1
  BY <1>1, AppliedChunks
<1>3. GoodState(r1)
  <2>1. Live(r.hist) \subseteq r.ids \cup I /\ r.ids \cup I \in SUBSET Chunk
    BY <1>1, GoodParts
  <2> QED BY <1>1, <2>1 DEF GoodState, ReplayState
<1>4. Summarized(s, x) = [s EXCEPT !.closed = FALSE]
  BY <1>1, SummarizedPlain
<1>5. Agree([s EXCEPT !.closed = FALSE], r1)
  BY <1>1 DEF Agree, SummaryState
<1>6. TakesStand(r1, w)
  BY <1>1 DEF TakesStand
<1>7. Applies(r, x) /\ IdsOf(x) = I /\ BegunBy(x) = {}
  BY DEF Applies, IdsOf, BegunBy, Chunks
<1>8. /\ r.max_take <= r1.max_take /\ r1.open \subseteq r.open \cup BegunBy(x)
      /\ r1.ids = r.ids \cup IdsOf(x) /\ \A t \in BegunBy(x) : t <= r1.max_take
  BY <1>1, <1>7, GoodParts
<1> HIDE DEF x, r1
<1>9. Fits(r, s, x, w)
  BY <1>2, <1>3, <1>4, <1>5, <1>6, <1>7, <1>8 DEF Fits
<1> QED BY <1>9 DEF x

\* A close record fits anywhere.
LEMMA CloseFits ==
  ASSUME NEW r, NEW s, NEW w, Standing(r, s, w)
  PROVE  Fits(r, s, Close, w)
<1>1. /\ GoodState(r) /\ TakesStand(r, w) /\ Agree(s, r)
      /\ r \in ReplayState /\ s \in SummaryState
  BY DEF Standing, GoodState, Agree
<1>2. Applied(r, Close) = r
  BY <1>1, AppliedTake
<1>3. Agree(Summarized(s, Close), r)
  <2>1. Summarized(s, Close) = [s EXCEPT !.closed = TRUE]
    BY <1>1, SummarizedPlain
  <2>2. Agree([s EXCEPT !.closed = TRUE], r)
    BY <1>1 DEF Agree, SummaryState
  <2> QED BY <2>1, <2>2
<1>4. Applies(r, Close) /\ IdsOf(Close) = {} /\ BegunBy(Close) = {}
  BY DEF Applies, IdsOf, BegunBy, Close
<1>5. r.max_take <= r.max_take
  BY <1>1, GoodParts
<1> HIDE DEF Close
<1> QED BY <1>1, <1>2, <1>3, <1>4, <1>5 DEF Fits

\* A record that only changes the history: its new documents are old ones, and
\* the scan follows the stacks.
LEMMA HistoryFits ==
  ASSUME NEW r, NEW s, NEW w, Standing(r, s, w),
         NEW x \in UNION {{UndoRec(q), RedoRec(q), Saved(q), DropUndo(q)} : q \in Nat},
         Applies(r, x), NEW hs \in HistoryState,
         Applied(r, x) = [hist |-> hs, ids |-> r.ids, open |-> r.open,
                          windowed |-> r.windowed, markers |-> r.markers,
                          max_take |-> r.max_take],
         Contents(hs) \subseteq Contents(r.hist),
         hs.next_marker_id = r.hist.next_marker_id,
         \A t \in r.open : r.markers[t] \cap hs.current.markers = {},
         Summarized(s, x) =
           [closed |-> FALSE, undo |-> SeqsOf(hs.undo), redo |-> SeqsOf(hs.redo),
            saved_seq |-> hs.saved_seq, open |-> s.open, pending |-> s.pending,
            truncated |-> s.truncated, inconsistent |-> s.inconsistent]
  PROVE  Fits(r, s, x, w)
<1> DEFINE r1 == Applied(r, x)
<1>1. /\ GoodState(r) /\ TakesStand(r, w) /\ Agree(s, r)
      /\ r \in ReplayState /\ s \in SummaryState
  BY DEF Standing, GoodState, Agree
<1>2. /\ r1.hist = hs /\ r1.ids = r.ids /\ r1.open = r.open /\ r1.windowed = r.windowed
      /\ r1.markers = r.markers /\ r1.max_take = r.max_take
  OBVIOUS
<1>3. Live(hs) \subseteq r.ids /\ MarkersBelow(hs)
  BY <1>1, LiveIsContents, GoodParts DEF MarkersBelow
<1>4. GoodState(r1)
  <2>1. /\ r.ids \in SUBSET Chunk /\ r.open \in SUBSET TakeId
        /\ r.windowed \in SUBSET TakeId /\ r.markers \in [TakeId -> SUBSET MarkerId]
        /\ r.max_take \in 0..MaxTake /\ r.windowed \subseteq r.open
        /\ \A t \in r.open : t <= r.max_take
        /\ \A t \in TakeId : t \notin r.open => r.markers[t] = {}
    BY <1>1, GoodParts
  <2>2. GoodState([hist |-> hs, ids |-> r.ids, open |-> r.open, windowed |-> r.windowed,
                   markers |-> r.markers, max_take |-> r.max_take])
    <3>1. hs \in HistoryState /\ \A t \in r.open : r.markers[t] \cap hs.current.markers = {}
      OBVIOUS
    <3> QED BY ONLY <1>3, <2>1, <3>1, MakeGood
  <2> QED BY <2>2
<1>5. Agree(Summarized(s, x), r1)
  <2>1. SeqsOf(hs.undo) \in Seq(Nat) /\ SeqsOf(hs.redo) \in Seq(Nat) /\ hs.saved_seq \in Nat
    BY SeqsOfType, StackShape, HistoryParts
  <2>2. /\ s.open \in SUBSET TakeId /\ s.pending \in SUBSET TakeId
        /\ s.truncated \in SUBSET (TakeId \cup {NoTake}) /\ s.inconsistent = FALSE
        /\ s.open = r1.open \cap r1.windowed
        /\ s.pending \cap r1.open = r1.open \ r1.windowed
        /\ \A t \in s.pending : t <= r1.max_take
    <3>1. /\ s.open \in SUBSET TakeId /\ s.pending \in SUBSET TakeId
          /\ s.truncated \in SUBSET (TakeId \cup {NoTake}) /\ s.inconsistent = FALSE
          /\ s.open = r.open \cap r.windowed
          /\ s.pending \cap r.open = r.open \ r.windowed
          /\ \A t \in s.pending : t <= r.max_take
      BY <1>1, AgreeParts
    <3> QED BY <1>2, <3>1
  <2> HIDE DEF r1
  <2>3. /\ SeqsOf(hs.undo) = SeqsOf(r1.hist.undo) /\ SeqsOf(hs.redo) = SeqsOf(r1.hist.redo)
        /\ hs.saved_seq = r1.hist.saved_seq /\ FALSE \in BOOLEAN
    BY <1>2
  <2>4. Agree([closed |-> FALSE, undo |-> SeqsOf(hs.undo), redo |-> SeqsOf(hs.redo),
               saved_seq |-> hs.saved_seq, open |-> s.open, pending |-> s.pending,
               truncated |-> s.truncated, inconsistent |-> FALSE], r1)
    BY ONLY <2>1, <2>2, <2>3, MakeAgree
  <2> QED BY <2>2, <2>4
<1>6. TakesStand(r1, w)
  BY <1>1, <1>2 DEF TakesStand
<1>7. IdsOf(x) = {} /\ BegunBy(x) = {}
  BY DEF IdsOf, BegunBy, UndoRec, RedoRec, Saved, DropUndo
<1>8. r.max_take <= r.max_take
  BY <1>1, GoodParts
<1> QED BY <1>2, <1>4, <1>5, <1>6, <1>7, <1>8 DEF Fits

\* So does the undo of the newest entry ...
LEMMA UndoFits ==
  ASSUME NEW r, NEW s, NEW w, Standing(r, s, w), r.hist.undo # <<>>,
         \A t \in r.open : r.markers[t] = {}
  PROVE  /\ Fits(r, s, UndoRec(Top(r.hist.undo).seq), w)
         /\ Top(r.hist.undo).seq \in Nat
<1> DEFINE q  == Top(r.hist.undo).seq
           x  == UndoRec(q)
           hs == Undone(r.hist)
<1>1. /\ GoodState(r) /\ Agree(s, r) /\ r \in ReplayState /\ s \in SummaryState
      /\ r.hist \in HistoryState
  BY DEF Standing, GoodState, Agree, ReplayState
<1>2. r.hist.undo \in Seq(Entry) /\ r.hist.redo \in Seq(Entry)
  BY <1>1, StackShape
<1>3. Top(r.hist.undo) \in Entry /\ q \in Nat
  BY <1>2, PopType DEF Entry
<1>4. hs \in HistoryState /\ Contents(hs) \subseteq Contents(r.hist)
  BY <1>1, UndoneType, UndoneContents
<1>5. Applied(r, x) = [hist |-> hs, ids |-> r.ids, open |-> r.open,
                       windowed |-> r.windowed, markers |-> r.markers,
                       max_take |-> r.max_take]
  BY <1>1, AppliedHistory
<1>6. /\ hs.next_marker_id = r.hist.next_marker_id /\ hs.saved_seq = r.hist.saved_seq
      /\ hs.undo = Pop(r.hist.undo)
      /\ hs.redo = Append(r.hist.redo, [Top(r.hist.undo) EXCEPT !.snapshot = r.hist.current])
  BY <1>1 DEF Undone, HistoryState
<1>7. Applies(r, x)
  BY DEF Applies, UndoRec
<1>8. Summarized(s, x) =
           [closed |-> FALSE, undo |-> SeqsOf(hs.undo), redo |-> SeqsOf(hs.redo),
            saved_seq |-> hs.saved_seq, open |-> s.open, pending |-> s.pending,
            truncated |-> s.truncated, inconsistent |-> s.inconsistent]
  <2>1. s.undo = SeqsOf(r.hist.undo) /\ s.redo = SeqsOf(r.hist.redo) /\ s.saved_seq = hs.saved_seq
    BY <1>1, <1>6, AgreeParts
  <2>2. /\ SeqsOf(hs.undo) = Pop(s.undo) /\ s.undo # <<>> /\ Top(s.undo) = q
    BY <1>2, <1>6, <2>1, SeqsOfPop
  <2>3. SeqsOf(hs.redo) = Append(s.redo, q)
    <3> DEFINE e == [Top(r.hist.undo) EXCEPT !.snapshot = r.hist.current]
    <3>1. e \in Entry /\ e.seq = q
      BY <1>1, <1>3 DEF Entry, HistoryState
    <3>2. hs.redo = Append(r.hist.redo, e)
      BY <1>6
    <3> HIDE DEF e
    <3> QED BY <1>2, <2>1, <3>1, <3>2, SeqsOfAppend
  <2>4. Summarized(s, UndoRec(q)) =
                [closed |-> FALSE, undo |-> Pop(s.undo), redo |-> Append(s.redo, q),
                 saved_seq |-> s.saved_seq, open |-> s.open, pending |-> s.pending,
                 truncated |-> s.truncated, inconsistent |-> s.inconsistent]
    BY <1>1, <2>2, SummarizedHistory
  <2> QED BY <2>1, <2>2, <2>3, <2>4
<1>9. x \in UNION {{UndoRec(k), RedoRec(k), Saved(k), DropUndo(k)} : k \in Nat}
  BY <1>3
<1>10. \A t \in r.open : r.markers[t] \cap hs.current.markers = {}
  OBVIOUS
<1>11. Standing(r, s, w)
  OBVIOUS
<1> HIDE DEF x, hs, q
<1>12. Fits(r, s, x, w)
  BY ONLY <1>4, <1>5, <1>6, <1>7, <1>8, <1>9, <1>10, <1>11, HistoryFits
<1> QED BY <1>3, <1>12 DEF x, q

\* ... the redo of the one undone last ...
LEMMA RedoFits ==
  ASSUME NEW r, NEW s, NEW w, Standing(r, s, w), r.hist.redo # <<>>,
         \A t \in r.open : r.markers[t] = {}
  PROVE  /\ Fits(r, s, RedoRec(Top(r.hist.redo).seq), w)
         /\ Top(r.hist.redo).seq \in Nat
<1> DEFINE q  == Top(r.hist.redo).seq
           x  == RedoRec(q)
           hs == Redone(r.hist)
<1>1. /\ GoodState(r) /\ Agree(s, r) /\ r \in ReplayState /\ s \in SummaryState
      /\ r.hist \in HistoryState
  BY DEF Standing, GoodState, Agree, ReplayState
<1>2. r.hist.undo \in Seq(Entry) /\ r.hist.redo \in Seq(Entry)
  BY <1>1, StackShape
<1>3. Top(r.hist.redo) \in Entry /\ q \in Nat
  BY <1>2, PopType DEF Entry
<1>4. hs \in HistoryState /\ Contents(hs) \subseteq Contents(r.hist)
  BY <1>1, RedoneType, RedoneContents
<1>5. Applied(r, x) = [hist |-> hs, ids |-> r.ids, open |-> r.open,
                       windowed |-> r.windowed, markers |-> r.markers,
                       max_take |-> r.max_take]
  BY <1>1, AppliedHistory
<1>6. /\ hs.next_marker_id = r.hist.next_marker_id /\ hs.saved_seq = r.hist.saved_seq
      /\ hs.redo = Pop(r.hist.redo)
      /\ hs.undo = Append(r.hist.undo, [Top(r.hist.redo) EXCEPT !.snapshot = r.hist.current])
  BY <1>1 DEF Redone, HistoryState
<1>7. Applies(r, x)
  BY DEF Applies, RedoRec
<1>8. Summarized(s, x) =
           [closed |-> FALSE, undo |-> SeqsOf(hs.undo), redo |-> SeqsOf(hs.redo),
            saved_seq |-> hs.saved_seq, open |-> s.open, pending |-> s.pending,
            truncated |-> s.truncated, inconsistent |-> s.inconsistent]
  <2>1. s.undo = SeqsOf(r.hist.undo) /\ s.redo = SeqsOf(r.hist.redo) /\ s.saved_seq = hs.saved_seq
    BY <1>1, <1>6, AgreeParts
  <2>2. /\ SeqsOf(hs.redo) = Pop(s.redo) /\ s.redo # <<>> /\ Top(s.redo) = q
    BY <1>2, <1>6, <2>1, SeqsOfPop
  <2>3. SeqsOf(hs.undo) = Append(s.undo, q)
    <3> DEFINE e == [Top(r.hist.redo) EXCEPT !.snapshot = r.hist.current]
    <3>1. e \in Entry /\ e.seq = q
      BY <1>1, <1>3 DEF Entry, HistoryState
    <3>2. hs.undo = Append(r.hist.undo, e)
      BY <1>6
    <3> HIDE DEF e
    <3> QED BY <1>2, <2>1, <3>1, <3>2, SeqsOfAppend
  <2>4. Summarized(s, RedoRec(q)) =
                [closed |-> FALSE, undo |-> Append(s.undo, q), redo |-> Pop(s.redo),
                 saved_seq |-> s.saved_seq, open |-> s.open, pending |-> s.pending,
                 truncated |-> s.truncated, inconsistent |-> s.inconsistent]
    BY <1>1, <2>2, SummarizedHistory
  <2> QED BY <2>1, <2>2, <2>3, <2>4
<1>9. x \in UNION {{UndoRec(k), RedoRec(k), Saved(k), DropUndo(k)} : k \in Nat}
  BY <1>3
<1>10. \A t \in r.open : r.markers[t] \cap hs.current.markers = {}
  OBVIOUS
<1>11. Standing(r, s, w)
  OBVIOUS
<1> HIDE DEF x, hs, q
<1>12. Fits(r, s, x, w)
  BY ONLY <1>4, <1>5, <1>6, <1>7, <1>8, <1>9, <1>10, <1>11, HistoryFits
<1> QED BY <1>3, <1>12 DEF x, q

\* ... a drop of the oldest entries ...
LEMMA DropFits ==
  ASSUME NEW r, NEW s, NEW w, Standing(r, s, w), NEW n \in 1..Len(r.hist.undo)
  PROVE  /\ Fits(r, s, DropUndo(n), w)
         /\ Applied(r, DropUndo(n)).hist = DroppedOldest(r.hist, n)
<1> DEFINE x  == DropUndo(n)
           hs == DroppedOldest(r.hist, n)
<1>1. /\ GoodState(r) /\ Agree(s, r) /\ r \in ReplayState /\ s \in SummaryState
      /\ r.hist \in HistoryState
  BY DEF Standing, GoodState, Agree, ReplayState
<1>2. r.hist.undo \in Seq(Entry) /\ Len(r.hist.undo) \in Nat
  BY <1>1, StackShape
<1>3. Least(n, Len(r.hist.undo)) = n
  BY <1>2 DEF Least
<1>4. hs \in HistoryState /\ Contents(hs) \subseteq Contents(r.hist)
  BY <1>1, DroppedType, DroppedContents
<1>5. Applied(r, x) = [hist |-> hs, ids |-> r.ids, open |-> r.open,
                       windowed |-> r.windowed, markers |-> r.markers,
                       max_take |-> r.max_take]
  BY <1>1, <1>3, AppliedHistory
<1>6. /\ hs.next_marker_id = r.hist.next_marker_id /\ hs.saved_seq = r.hist.saved_seq
      /\ hs.undo = SubSeq(r.hist.undo, n + 1, Len(r.hist.undo))
      /\ hs.redo = r.hist.redo /\ hs.current = r.hist.current
  BY <1>1 DEF DroppedOldest, HistoryState
<1>7. Applies(r, x)
  BY DEF Applies, DropUndo
<1>8. Summarized(s, x) =
           [closed |-> FALSE, undo |-> SeqsOf(hs.undo), redo |-> SeqsOf(hs.redo),
            saved_seq |-> hs.saved_seq, open |-> s.open, pending |-> s.pending,
            truncated |-> s.truncated, inconsistent |-> s.inconsistent]
  <2>1. s.undo = SeqsOf(r.hist.undo) /\ s.redo = SeqsOf(r.hist.redo) /\ s.saved_seq = hs.saved_seq
    BY <1>1, <1>6, AgreeParts
  <2>2. Len(s.undo) = Len(r.hist.undo)
    BY <1>2, <2>1, SeqsOfType
  <2>3. SeqsOf(hs.undo) = SubSeq(s.undo, n + 1, Len(s.undo))
    BY <1>2, <1>6, <2>1, <2>2, SeqsOfDrop
  <2>4. Summarized(s, DropUndo(n)) =
                [closed |-> FALSE,
                 undo |-> SubSeq(s.undo, Least(n, Len(s.undo)) + 1, Len(s.undo)),
                 redo |-> s.redo,
                 saved_seq |-> s.saved_seq, open |-> s.open, pending |-> s.pending,
                 truncated |-> s.truncated, inconsistent |-> s.inconsistent]
    BY <1>1, SummarizedHistory
  <2>5. Least(n, Len(s.undo)) = n /\ SeqsOf(hs.redo) = s.redo
    BY <1>3, <1>6, <2>1, <2>2
  <2> QED BY <2>1, <2>3, <2>4, <2>5
<1>9. x \in UNION {{UndoRec(k), RedoRec(k), Saved(k), DropUndo(k)} : k \in Nat}
  <2>1. n \in Nat
    BY <1>2
  <2> QED BY <2>1
<1>10. \A t \in r.open : r.markers[t] \cap hs.current.markers = {}
  BY <1>1, <1>6, GoodParts
<1>11. Standing(r, s, w)
  OBVIOUS
<1>13. Applied(r, x).hist = hs
  BY <1>5
<1> HIDE DEF x, hs
<1>12. Fits(r, s, x, w)
  BY ONLY <1>4, <1>5, <1>6, <1>7, <1>8, <1>9, <1>10, <1>11, HistoryFits
<1> QED BY <1>12, <1>13 DEF x, hs

\* ... and a save.
LEMMA SavedFits ==
  ASSUME NEW r, NEW s, NEW w, Standing(r, s, w), NEW q \in Nat
  PROVE  Fits(r, s, Saved(q), w)
<1> DEFINE x  == Saved(q)
           hs == MarkedSavedAt(r.hist, q)
<1>1. /\ GoodState(r) /\ Agree(s, r) /\ r \in ReplayState /\ s \in SummaryState
      /\ r.hist \in HistoryState
  BY DEF Standing, GoodState, Agree, ReplayState
<1>4. hs \in HistoryState /\ Contents(hs) \subseteq Contents(r.hist)
  BY <1>1, MarkedSavedType, OtherContents
<1>5. Applied(r, x) = [hist |-> hs, ids |-> r.ids, open |-> r.open,
                       windowed |-> r.windowed, markers |-> r.markers,
                       max_take |-> r.max_take]
  BY <1>1, AppliedHistory
<1>6. /\ hs.next_marker_id = r.hist.next_marker_id /\ hs.saved_seq = q
      /\ hs.undo = r.hist.undo /\ hs.redo = r.hist.redo /\ hs.current = r.hist.current
  BY <1>1 DEF MarkedSavedAt, HistoryState
<1>7. Applies(r, x)
  BY DEF Applies, Saved
<1>8. Summarized(s, x) =
           [closed |-> FALSE, undo |-> SeqsOf(hs.undo), redo |-> SeqsOf(hs.redo),
            saved_seq |-> hs.saved_seq, open |-> s.open, pending |-> s.pending,
            truncated |-> s.truncated, inconsistent |-> s.inconsistent]
  <2>1. s.undo = SeqsOf(hs.undo) /\ s.redo = SeqsOf(hs.redo)
    <3>1. s.undo = SeqsOf(r.hist.undo) /\ s.redo = SeqsOf(r.hist.redo)
      BY ONLY <1>1, AgreeParts
    <3> HIDE DEF hs
    <3> QED BY ONLY <1>6, <3>1
  <2>2. Summarized(s, x) = [s EXCEPT !.closed = FALSE, !.saved_seq = q]
    BY <1>1, SummarizedPlain
  <2> HIDE DEF x, hs
  <2> QED BY <1>1, <1>6, <2>1, <2>2 DEF SummaryState
<1>9. x \in UNION {{UndoRec(k), RedoRec(k), Saved(k), DropUndo(k)} : k \in Nat}
  OBVIOUS
<1>10. \A t \in r.open : r.markers[t] \cap hs.current.markers = {}
  BY <1>1, <1>6, GoodParts
<1>11. Standing(r, s, w)
  OBVIOUS
<1> HIDE DEF x, hs
<1>12. Fits(r, s, x, w)
  BY ONLY <1>4, <1>5, <1>6, <1>7, <1>8, <1>9, <1>10, <1>11, HistoryFits
<1> QED BY <1>12 DEF x

\* What a commit does to marker ids and live chunks.
LEMMA CommitIds ==
  ASSUME NEW hs \in HistoryState, NEW e \in EditOps, MarkersBelow(hs)
  PROVE  /\ MarkersBelow(Commit(hs, e))
         /\ Commit(hs, e).next_marker_id = IdAbove(hs.next_marker_id, e.madd)
         /\ hs.next_marker_id <= Commit(hs, e).next_marker_id
         /\ Live(Commit(hs, e)) \subseteq Live(hs) \cup e.ins
         /\ Commit(hs, e).current.markers = (hs.current.markers \ e.mdel) \cup e.madd
<1> DEFINE hc == Commit(hs, e)
           n  == hs.next_marker_id
           k  == IdAbove(n, e.madd)
           d  == Content(Prepared(hs, e))
<1>1. n \in Nat /\ hs.current \in Snapshot
  BY HistoryParts
<1>2. e.madd \in SUBSET MarkerId /\ e.ins \in SUBSET Chunk
  BY DEF EditOps
<1>3. k \in Nat /\ k >= n /\ \A m \in e.madd : k > m
  BY <1>1, <1>2, IdAboveType
<1>4. hc.next_marker_id = k
  BY DEF Commit, HistoryState
<1>5. Contents(hc) \subseteq Contents(hs) \cup {d} /\ hc \in HistoryState
  BY CommitContents, CommitType
<1>6. /\ d.pieces = (hs.current.pieces \ e.del) \cup e.ins
      /\ d.markers = (hs.current.markers \ e.mdel) \cup e.madd
      /\ hc.current.markers = (hs.current.markers \ e.mdel) \cup e.madd
  <2>1. hc.current = Prepared(hs, e)
    BY CommitEffect
  <2> QED BY <2>1 DEF Content, Prepared
<1>7. Content(hs.current) \in Contents(hs)
      /\ Content(hs.current).markers = hs.current.markers
      /\ Content(hs.current).pieces = hs.current.pieces
  BY DEF Contents, Content
<1>8. \A c \in Contents(hs) : c.markers \subseteq MarkerId
  BY HistoryParts, SnapshotParts DEF Contents
<1>9. \A m \in MarkerId : m \in Int
  BY DEF MarkerId
<1> HIDE DEF hc, k, d, n
<1>10. ASSUME NEW c \in Contents(hc), NEW m \in c.markers
       PROVE  m < k
  <2>1. CASE c \in Contents(hs)
    <3>1. m < n /\ m \in Int
      BY <1>8, <1>9, <2>1 DEF MarkersBelow, n
    <3> QED BY <1>1, <1>3, <3>1
  <2>2. CASE c = d
    <3>1. m \in e.madd \/ m \in hs.current.markers
      BY <1>6, <2>2
    <3>2. CASE m \in e.madd
      BY <1>2, <1>3, <1>9, <3>2
    <3>3. CASE m \in hs.current.markers
      <4>1. m < n /\ m \in Int
        BY <1>7, <1>8, <1>9, <3>3 DEF MarkersBelow, n
      <4> QED BY <1>1, <1>3, <4>1
    <3> QED BY <3>1, <3>2, <3>3
  <2> QED BY <1>5, <2>1, <2>2
<1>11. MarkersBelow(hc)
  BY <1>4, <1>10 DEF MarkersBelow
<1>12. Live(hc) \subseteq Live(hs) \cup e.ins
  <2>1. Live(hc) = UNION {c.pieces : c \in Contents(hc)}
    BY <1>5, LiveIsContents
  <2>2. Live(hs) = UNION {c.pieces : c \in Contents(hs)}
    BY LiveIsContents
  <2>3. d.pieces \subseteq Live(hs) \cup e.ins
    BY <1>6, <1>7, <2>2
  <2> QED BY <1>5, <2>1, <2>2, <2>3
<1> QED BY <1>3, <1>4, <1>6, <1>11, <1>12 DEF hc, k, n

\* An edit, which closes take t if there is one.
LEMMA EditFits ==
  ASSUME NEW r, NEW s, NEW w, Standing(r, s, w),
         NEW e \in EditOps, NEW t \in TakeId \cup {NoTake}, NEW sh \in BOOLEAN,
         e.ins \subseteq r.ids, Prepares(r.hist, e),
         \A u \in r.open : u # t => r.markers[u] \cap e.madd = {}
  PROVE  /\ Fits(r, s, Edit(r.hist.next_seq, e, t, sh), w)
         /\ r.hist.next_seq \in Nat
<1> DEFINE q  == r.hist.next_seq
           x  == Edit(q, e, t, sh)
           hs == Commit(r.hist, e)
           O  == IF t = NoTake THEN r.open ELSE r.open \ {t}
           W  == IF t = NoTake THEN r.windowed ELSE r.windowed \ {t}
           K  == IF t = NoTake THEN r.markers ELSE [r.markers EXCEPT ![t] = {}]
           r1 == [hist |-> hs, ids |-> r.ids, open |-> O, windowed |-> W, markers |-> K,
                  max_take |-> r.max_take]
<1>1. /\ GoodState(r) /\ Agree(s, r) /\ r \in ReplayState /\ s \in SummaryState
      /\ r.hist \in HistoryState /\ TakesStand(r, w)
  BY DEF Standing, GoodState, Agree, ReplayState
<1>2. /\ r.ids \in SUBSET Chunk /\ r.open \in SUBSET TakeId
      /\ r.windowed \in SUBSET TakeId /\ r.markers \in [TakeId -> SUBSET MarkerId]
      /\ r.max_take \in 0..MaxTake
      /\ Live(r.hist) \subseteq r.ids /\ MarkersBelow(r.hist)
      /\ r.windowed \subseteq r.open
      /\ \A u \in r.open : u <= r.max_take
      /\ \A u \in TakeId : u \notin r.open => r.markers[u] = {}
      /\ \A u \in r.open : r.markers[u] \cap r.hist.current.markers = {}
  BY <1>1, GoodParts
<1>0. NoTake \notin TakeId
  BY DEF NoTake, TakeId
<1>3. Applied(r, x) = r1
  <2>1. \A a, b, c, d : Applied(r, Edit(a, b, c, d)) =
           [hist |-> Commit(r.hist, b), ids |-> r.ids,
            open |-> IF c = NoTake THEN r.open ELSE r.open \ {c},
            windowed |-> IF c = NoTake THEN r.windowed ELSE r.windowed \ {c},
            markers |-> IF c = NoTake THEN r.markers ELSE [r.markers EXCEPT ![c] = {}],
            max_take |-> r.max_take]
    BY ONLY <1>1, AppliedEdit
  <2> QED BY <2>1
<1>4. hs \in HistoryState
  BY <1>1, CommitType
<1>5. MarkersBelow(hs) /\ Live(hs) \subseteq r.ids
      /\ hs.current.markers \subseteq r.hist.current.markers \cup e.madd
  BY <1>1, <1>2, CommitIds
<1>6. O = r.open \ {t} /\ W = r.windowed \ {t}
  BY <1>0, <1>2
<1>7. /\ K \in [TakeId -> SUBSET MarkerId]
      /\ \A u \in TakeId : K[u] = IF u = t THEN {} ELSE r.markers[u]
  BY <1>0, <1>2
<1> HIDE DEF O, W, K, hs
<1>8. GoodState(r1)
  <2>1. /\ O \in SUBSET TakeId /\ W \in SUBSET TakeId /\ W \subseteq O
        /\ \A u \in O : u <= r.max_take
    BY <1>2, <1>6
  <2>2. \A u \in TakeId : u \notin O => K[u] = {}
    BY <1>2, <1>6, <1>7
  <2>3. \A u \in O : K[u] \cap hs.current.markers = {}
    BY <1>2, <1>5, <1>6, <1>7
  <2> QED BY <1>2, <1>4, <1>5, <1>7, <2>1, <2>2, <2>3, MakeGood
<1>9. TakesStand(r1, w)
  <2>1. ASSUME NEW u \in O
        PROVE  (\A v \in O : v <= u) \/ (w[u] = "none" /\ K[u] = {})
    BY <1>1, <1>2, <1>6, <1>7 DEF TakesStand
  <2> QED BY <2>1 DEF TakesStand
<1>10. q \in Nat
  BY <1>1, HistoryParts
<1>11. Summarized(s, x) =
           [closed |-> FALSE, undo |-> Append(s.undo, q), redo |-> <<>>,
            saved_seq |-> s.saved_seq, open |-> s.open \ {t}, pending |-> s.pending,
            truncated |-> IF sh THEN s.truncated \cup {t} ELSE s.truncated,
            inconsistent |-> s.inconsistent]
  <2>1. \A a, b, c : \A d \in BOOLEAN : Summarized(s, Edit(a, b, c, d)) =
           [closed |-> FALSE, undo |-> Append(s.undo, a), redo |-> <<>>,
            saved_seq |-> s.saved_seq, open |-> s.open \ {c}, pending |-> s.pending,
            truncated |-> IF d THEN s.truncated \cup {c} ELSE s.truncated,
            inconsistent |-> s.inconsistent]
    BY ONLY <1>1, SummarizedEdit
  <2> QED BY <2>1
<1>12. Agree(Summarized(s, x), r1)
  <2>1. /\ s.undo \in Seq(Nat) /\ s.saved_seq \in Nat
        /\ s.open \in SUBSET TakeId /\ s.pending \in SUBSET TakeId
        /\ s.truncated \in SUBSET (TakeId \cup {NoTake}) /\ s.inconsistent = FALSE
        /\ s.undo = SeqsOf(r.hist.undo)
        /\ s.saved_seq = r.hist.saved_seq
        /\ s.open = r.open \cap r.windowed
        /\ s.pending \cap r.open = r.open \ r.windowed
        /\ \A u \in s.pending : u <= r.max_take
    BY <1>1, AgreeParts
  <2> DEFINE T == IF sh THEN s.truncated \cup {t} ELSE s.truncated
             en == [snapshot |-> r.hist.current, seq |-> q, audio |-> ChangesAudio(e)]
  <2>2. T \in SUBSET (TakeId \cup {NoTake})
    BY <2>1
  <2>3. /\ hs.undo = Append(r.hist.undo, en) /\ hs.redo = <<>>
        /\ hs.saved_seq = r.hist.saved_seq
    BY <1>1 DEF Commit, HistoryState, hs
  <2>4. en \in Entry /\ en.seq = q
    BY <1>1, <1>10, HistoryParts DEF Entry, ChangesAudio
  <2>5. SeqsOf(hs.undo) = Append(s.undo, q)
    <3> HIDE DEF en
    <3> QED BY <1>1, <2>1, <2>3, <2>4, StackShape, SeqsOfAppend
  <2>6. SeqsOf(hs.redo) = <<>> /\ <<>> \in Seq(Entry)
    BY <2>3, SeqsOfType, EmptySeq
  <2>7. Append(s.undo, q) \in Seq(Nat) /\ <<>> \in Seq(Nat)
    BY <1>10, <2>1, EmptySeq, AppendProperties
  <2>8. /\ s.open \ {t} \in SUBSET TakeId
        /\ s.open \ {t} = O \cap W
        /\ s.pending \cap O = O \ W
    BY <1>2, <1>6, <2>1
  <2>9. FALSE \in BOOLEAN
    OBVIOUS
  <2> HIDE DEF T
  <2>10. /\ r1.hist = hs /\ r1.open = O /\ r1.windowed = W /\ r1.max_take = r.max_take
    OBVIOUS
  <2> HIDE DEF r1
  <2>11. /\ Append(s.undo, q) = SeqsOf(r1.hist.undo) /\ <<>> = SeqsOf(r1.hist.redo)
         /\ s.saved_seq = r1.hist.saved_seq
         /\ s.open \ {t} = r1.open \cap r1.windowed
         /\ s.pending \cap r1.open = r1.open \ r1.windowed
         /\ \A u \in s.pending : u <= r1.max_take
    BY <2>1, <2>3, <2>5, <2>6, <2>8, <2>10
  <2>12. Agree([closed |-> FALSE, undo |-> Append(s.undo, q), redo |-> <<>>,
            saved_seq |-> s.saved_seq, open |-> s.open \ {t}, pending |-> s.pending,
            truncated |-> T, inconsistent |-> FALSE], r1)
    BY <2>1, <2>2, <2>7, <2>8, <2>9, <2>11, MakeAgree
  <2> QED BY <1>11, <2>1, <2>12 DEF T
<1>13. Applies(r, x) /\ IdsOf(x) = e.ins /\ BegunBy(x) = {}
  BY DEF Applies, IdsOf, BegunBy, Edit
<1>14. /\ r1.ids = r.ids \cup IdsOf(x) /\ r1.open \subseteq r.open
       /\ r.max_take <= r1.max_take
  BY <1>2, <1>6, <1>13
<1> HIDE DEF x, r1, q
<1>15. Fits(r, s, x, w)
  BY <1>3, <1>8, <1>9, <1>12, <1>13, <1>14 DEF Fits
<1> QED BY <1>10, <1>15 DEF x, q

\* The facts a standing state gives, all at once.
LEMMA StandingParts ==
  ASSUME NEW r, NEW s, NEW w, Standing(r, s, w)
  PROVE  /\ GoodState(r) /\ Agree(s, r) /\ r \in ReplayState /\ s \in SummaryState
         /\ TakesStand(r, w)
         /\ r.hist \in HistoryState /\ r.ids \in SUBSET Chunk /\ r.open \in SUBSET TakeId
         /\ r.windowed \in SUBSET TakeId /\ r.markers \in [TakeId -> SUBSET MarkerId]
         /\ r.max_take \in 0..MaxTake
         /\ Live(r.hist) \subseteq r.ids /\ MarkersBelow(r.hist)
         /\ r.windowed \subseteq r.open
         /\ \A u \in r.open : u <= r.max_take
         /\ \A u \in TakeId : u \notin r.open => r.markers[u] = {}
         /\ \A u \in r.open : r.markers[u] \cap r.hist.current.markers = {}
         /\ s.undo \in Seq(Nat) /\ s.redo \in Seq(Nat) /\ s.saved_seq \in Nat
         /\ s.open \in SUBSET TakeId /\ s.pending \in SUBSET TakeId
         /\ s.truncated \in SUBSET (TakeId \cup {NoTake}) /\ s.inconsistent = FALSE
         /\ s.undo = SeqsOf(r.hist.undo) /\ s.redo = SeqsOf(r.hist.redo)
         /\ s.saved_seq = r.hist.saved_seq
         /\ s.open = r.open \cap r.windowed
         /\ s.pending \cap r.open = r.open \ r.windowed
         /\ \A u \in s.pending : u <= r.max_take
BY GoodParts, AgreeParts DEF Standing

\* A record that only changes what is known of takes.
LEMMA TakeFits ==
  ASSUME NEW r, NEW s, NEW w, Standing(r, s, w),
         NEW x, Applies(r, x), IdsOf(x) = {},
         NEW O \in SUBSET TakeId, NEW W \in SUBSET TakeId,
         NEW K \in [TakeId -> SUBSET MarkerId], NEW n \in 0..MaxTake,
         Applied(r, x) = [hist |-> r.hist, ids |-> r.ids, open |-> O, windowed |-> W,
                          markers |-> K, max_take |-> n],
         NEW SO \in SUBSET TakeId, NEW SP \in SUBSET TakeId,
         Summarized(s, x) =
              [closed |-> FALSE, undo |-> s.undo, redo |-> s.redo, saved_seq |-> s.saved_seq,
               open |-> SO, pending |-> SP, truncated |-> s.truncated,
               inconsistent |-> s.inconsistent],
         W \subseteq O, O \subseteq r.open \cup BegunBy(x), r.max_take <= n,
         \A u \in O \cup BegunBy(x) \cup SP : u <= n,
         \A u \in TakeId : u \notin O => K[u] = {},
         \A u \in O : K[u] \cap r.hist.current.markers = {},
         \A u \in O : (\A v \in O : v <= u) \/ (w[u] = "none" /\ K[u] = {}),
         SO = O \cap W, SP \cap O = O \ W
  PROVE  Fits(r, s, x, w)
<1> DEFINE r1 == [hist |-> r.hist, ids |-> r.ids, open |-> O, windowed |-> W,
                  markers |-> K, max_take |-> n]
<1>1. /\ r.hist \in HistoryState /\ r.ids \in SUBSET Chunk
      /\ Live(r.hist) \subseteq r.ids /\ MarkersBelow(r.hist)
      /\ s.undo \in Seq(Nat) /\ s.redo \in Seq(Nat) /\ s.saved_seq \in Nat
      /\ s.truncated \in SUBSET (TakeId \cup {NoTake}) /\ s.inconsistent = FALSE
      /\ s.undo = SeqsOf(r.hist.undo) /\ s.redo = SeqsOf(r.hist.redo)
      /\ s.saved_seq = r.hist.saved_seq
  <2>1. Standing(r, s, w)
    OBVIOUS
  <2>2. /\ r.hist \in HistoryState /\ r.ids \in SUBSET Chunk
        /\ Live(r.hist) \subseteq r.ids /\ MarkersBelow(r.hist)
    BY ONLY <2>1, StandingParts
  <2>3. /\ s.undo \in Seq(Nat) /\ s.redo \in Seq(Nat) /\ s.saved_seq \in Nat
        /\ s.truncated \in SUBSET (TakeId \cup {NoTake}) /\ s.inconsistent = FALSE
    BY ONLY <2>1, StandingParts
  <2>4. /\ s.undo = SeqsOf(r.hist.undo) /\ s.redo = SeqsOf(r.hist.redo)
        /\ s.saved_seq = r.hist.saved_seq
    BY ONLY <2>1, StandingParts
  <2> QED BY ONLY <2>2, <2>3, <2>4
<1>2. GoodState(r1)
  BY <1>1, MakeGood
<1>3. TakesStand(r1, w)
  BY DEF TakesStand
<1>4. /\ r1.hist = r.hist /\ r1.ids = r.ids /\ r1.open = O /\ r1.windowed = W
      /\ r1.max_take = n
  OBVIOUS
<1>5. Applied(r, x) = r1
  OBVIOUS
<1> HIDE DEF r1
<1>6. Agree([closed |-> FALSE, undo |-> s.undo, redo |-> s.redo, saved_seq |-> s.saved_seq,
             open |-> SO, pending |-> SP, truncated |-> s.truncated,
             inconsistent |-> FALSE], r1)
  <2>1. /\ s.undo = SeqsOf(r1.hist.undo) /\ s.redo = SeqsOf(r1.hist.redo)
        /\ s.saved_seq = r1.hist.saved_seq /\ FALSE \in BOOLEAN
        /\ SO = r1.open \cap r1.windowed /\ SP \cap r1.open = r1.open \ r1.windowed
        /\ \A u \in SP : u <= r1.max_take
        /\ SO \in SUBSET TakeId /\ SP \in SUBSET TakeId
    BY <1>1, <1>4
  <2> QED BY ONLY <1>1, <2>1, MakeAgree
<1>7. Agree(Summarized(s, x), r1)
  BY <1>1, <1>6
<1> QED BY <1>2, <1>3, <1>4, <1>5, <1>7 DEF Fits

\* A take begins with an id above all others, while no open one has a WAV.
LEMMA BeginFits ==
  ASSUME NEW r, NEW s, NEW w, Standing(r, s, w), NEW t \in TakeId, NEW al \in BOOLEAN,
         t > r.max_take, \A u \in r.open : w[u] = "none" /\ r.markers[u] = {}
  PROVE  Fits(r, s, TakeBegin(t, al), w)
<1> DEFINE x  == TakeBegin(t, al)
           O  == r.open \cup {t}
           W  == IF al THEN r.windowed \ {t} ELSE r.windowed \cup {t}
           n  == IF t > r.max_take THEN t ELSE r.max_take
           SO == IF al THEN s.open ELSE s.open \cup {t}
           SP == IF al THEN s.pending \cup {t} ELSE s.pending
<1>1. /\ r \in ReplayState /\ s \in SummaryState
      /\ r.hist \in HistoryState /\ r.open \in SUBSET TakeId
      /\ r.windowed \in SUBSET TakeId /\ r.markers \in [TakeId -> SUBSET MarkerId]
      /\ r.max_take \in 0..MaxTake
      /\ r.windowed \subseteq r.open
      /\ \A u \in r.open : u <= r.max_take
      /\ \A u \in TakeId : u \notin r.open => r.markers[u] = {}
      /\ s.open \in SUBSET TakeId /\ s.pending \in SUBSET TakeId
      /\ s.open = r.open \cap r.windowed
      /\ s.pending \cap r.open = r.open \ r.windowed
      /\ \A u \in s.pending : u <= r.max_take
  BY StandingParts
<1>2. Applied(r, x) = [hist |-> r.hist, ids |-> r.ids, open |-> O, windowed |-> W,
                       markers |-> r.markers, max_take |-> n]
  BY <1>1, AppliedTake
<1>3. Summarized(s, x) =
              [closed |-> FALSE, undo |-> s.undo, redo |-> s.redo, saved_seq |-> s.saved_seq,
               open |-> SO, pending |-> SP,
               truncated |-> s.truncated, inconsistent |-> s.inconsistent]
  BY <1>1, SummarizedTake
<1>4. Applies(r, x) /\ IdsOf(x) = {} /\ BegunBy(x) = {t}
  BY DEF Applies, IdsOf, BegunBy, TakeBegin
<1>5. n = t /\ t \in 0..MaxTake /\ t \in Int /\ r.max_take \in Int /\ \A u \in TakeId : u \in Int
  BY <1>1 DEF TakeId
<1>6. t \notin r.open /\ t \notin s.pending /\ t \notin r.windowed
  BY <1>1, <1>5
<1>7. /\ O \in SUBSET TakeId /\ W \in SUBSET TakeId /\ W \subseteq O
      /\ O \subseteq r.open \cup BegunBy(x)
      /\ SO \in SUBSET TakeId /\ SP \in SUBSET TakeId
  BY <1>1, <1>4
<1>8. SO = O \cap W /\ SP \cap O = O \ W
  <2>1. CASE al
    BY <1>1, <1>6, <2>1
  <2>2. CASE ~al
    BY <1>1, <1>6, <2>2
  <2> QED BY <2>1, <2>2
<1>9. /\ r.max_take <= n /\ n \in 0..MaxTake
      /\ \A u \in O \cup BegunBy(x) \cup SP : u <= n
  <2>1. r.max_take <= n /\ n \in 0..MaxTake
    BY <1>5
  <2>2. ASSUME NEW u \in O \cup BegunBy(x) \cup SP
        PROVE  u <= n
    <3>1. u \in r.open \/ u \in s.pending \/ u = t
      BY <1>4
    <3>2. u = t => u <= n
      BY <1>5
    <3>3. u \in r.open \/ u \in s.pending => u <= r.max_take /\ u \in Int
      BY <1>1, <1>5
    <3> HIDE DEF n
    <3> QED BY <1>5, <3>1, <3>2, <3>3
  <2> QED BY <2>1, <2>2
<1>10. \A u \in O : (\A v \in O : v <= u) \/ (w[u] = "none" /\ r.markers[u] = {})
  <2>1. ASSUME NEW u \in O, u \notin r.open
        PROVE  \A v \in O : v <= u
    <3>1. u = t
      BY <2>1
    <3>2. \A v \in r.open : v <= t
      <4>1. \A v \in r.open : v <= r.max_take /\ v \in Int
        BY <1>1, <1>5
      <4> QED BY <1>5, <4>1
    <3>3. t <= t
      BY <1>5
    <3> QED BY <3>1, <3>2, <3>3
  <2>2. \A u \in r.open : w[u] = "none" /\ r.markers[u] = {}
    OBVIOUS
  <2> QED BY <2>1, <2>2
<1>11. \A u \in TakeId : u \notin O => r.markers[u] = {}
  BY <1>1
<1>12. \A u \in O : r.markers[u] \cap r.hist.current.markers = {}
  BY <1>1, <1>6
<1>13. Standing(r, s, w) /\ r.markers \in [TakeId -> SUBSET MarkerId]
  BY <1>1
<1> HIDE DEF x, O, W, n, SO, SP
<1>14. Fits(r, s, x, w)
  BY ONLY <1>2, <1>3, <1>4, <1>7, <1>8, <1>9, <1>10, <1>11, <1>12, <1>13, TakeFits
<1> QED BY <1>14 DEF x

\* The window of an open take.
LEMMA WindowFits ==
  ASSUME NEW r, NEW s, NEW w, Standing(r, s, w), NEW t \in r.open
  PROVE  Fits(r, s, TakeWindow(t), w)
<1> DEFINE x  == TakeWindow(t)
           W  == r.windowed \cup ({t} \cap r.open)
           SO == s.open \cup ({t} \cap s.pending)
           SP == s.pending \ {t}
<1>1. /\ r \in ReplayState /\ s \in SummaryState /\ TakesStand(r, w)
      /\ r.hist \in HistoryState /\ r.open \in SUBSET TakeId
      /\ r.windowed \in SUBSET TakeId /\ r.markers \in [TakeId -> SUBSET MarkerId]
      /\ r.max_take \in 0..MaxTake
      /\ r.windowed \subseteq r.open
      /\ \A u \in r.open : u <= r.max_take
      /\ \A u \in TakeId : u \notin r.open => r.markers[u] = {}
      /\ \A u \in r.open : r.markers[u] \cap r.hist.current.markers = {}
      /\ s.open \in SUBSET TakeId /\ s.pending \in SUBSET TakeId
      /\ s.open = r.open \cap r.windowed
      /\ s.pending \cap r.open = r.open \ r.windowed
      /\ \A u \in s.pending : u <= r.max_take
  BY StandingParts
<1>2. Applied(r, x) = [hist |-> r.hist, ids |-> r.ids, open |-> r.open, windowed |-> W,
                       markers |-> r.markers, max_take |-> r.max_take]
  BY <1>1, AppliedTake
<1>3. Summarized(s, x) =
              [closed |-> FALSE, undo |-> s.undo, redo |-> s.redo, saved_seq |-> s.saved_seq,
               open |-> SO, pending |-> SP,
               truncated |-> s.truncated, inconsistent |-> s.inconsistent]
  BY <1>1, SummarizedTake
<1>4. Applies(r, x) /\ IdsOf(x) = {} /\ BegunBy(x) = {}
  BY DEF Applies, IdsOf, BegunBy, TakeWindow
<1>7. /\ W \in SUBSET TakeId /\ W \subseteq r.open
      /\ r.open \subseteq r.open \cup BegunBy(x)
      /\ SO \in SUBSET TakeId /\ SP \in SUBSET TakeId
      /\ SO = r.open \cap W /\ SP \cap r.open = r.open \ W
  BY <1>1, <1>4
<1>9. /\ r.max_take <= r.max_take
      /\ \A u \in r.open \cup BegunBy(x) \cup SP : u <= r.max_take
  BY <1>1, <1>4
<1>10. \A u \in r.open : (\A v \in r.open : v <= u) \/ (w[u] = "none" /\ r.markers[u] = {})
  BY <1>1 DEF TakesStand
<1>13. Standing(r, s, w)
  OBVIOUS
<1> HIDE DEF x, W, SO, SP
<1>14. Fits(r, s, x, w)
  BY ONLY <1>1, <1>2, <1>3, <1>4, <1>7, <1>9, <1>10, <1>13, TakeFits
<1> QED BY <1>14 DEF x

\* A marker is noted for the newest open take.
LEMMA MarkerFits ==
  ASSUME NEW r, NEW s, NEW w, Standing(r, s, w), NEW t \in r.open,
         \A u \in r.open : u <= t, NEW m \in MarkerId, m \notin r.hist.current.markers
  PROVE  Fits(r, s, TakeMarker(t, m), w)
<1> DEFINE x  == TakeMarker(t, m)
           K  == [r.markers EXCEPT ![t] = @ \cup {m}]
<1>1. /\ r \in ReplayState /\ s \in SummaryState /\ TakesStand(r, w)
      /\ r.hist \in HistoryState /\ r.open \in SUBSET TakeId
      /\ r.windowed \in SUBSET TakeId /\ r.markers \in [TakeId -> SUBSET MarkerId]
      /\ r.max_take \in 0..MaxTake
      /\ r.windowed \subseteq r.open
      /\ \A u \in r.open : u <= r.max_take
      /\ \A u \in TakeId : u \notin r.open => r.markers[u] = {}
      /\ \A u \in r.open : r.markers[u] \cap r.hist.current.markers = {}
      /\ s.open \in SUBSET TakeId /\ s.pending \in SUBSET TakeId
      /\ s.open = r.open \cap r.windowed
      /\ s.pending \cap r.open = r.open \ r.windowed
      /\ \A u \in s.pending : u <= r.max_take
  BY StandingParts
<1>2. Applied(r, x) = [hist |-> r.hist, ids |-> r.ids, open |-> r.open,
                       windowed |-> r.windowed, markers |-> K, max_take |-> r.max_take]
  BY <1>1, AppliedTake
<1>3. Summarized(s, x) =
              [closed |-> FALSE, undo |-> s.undo, redo |-> s.redo, saved_seq |-> s.saved_seq,
               open |-> s.open, pending |-> s.pending,
               truncated |-> s.truncated, inconsistent |-> s.inconsistent]
  <2>1. Summarized(s, x) = [s EXCEPT !.closed = FALSE]
    BY <1>1, SummarizedPlain
  <2> HIDE DEF x
  <2> QED BY <1>1, <2>1 DEF SummaryState
<1>4. Applies(r, x) /\ IdsOf(x) = {} /\ BegunBy(x) = {}
  BY DEF Applies, IdsOf, BegunBy, TakeMarker
<1>5. /\ K \in [TakeId -> SUBSET MarkerId]
      /\ \A u \in TakeId : K[u] = IF u = t THEN r.markers[u] \cup {m} ELSE r.markers[u]
  BY <1>1
<1> HIDE DEF x, K
<1>6. \A u \in TakeId : u \notin r.open => K[u] = {}
  BY <1>1, <1>5
<1>7. \A u \in r.open : K[u] \cap r.hist.current.markers = {}
  BY <1>1, <1>5
<1>8. r.open \subseteq r.open \cup BegunBy(x)
  BY <1>4
<1>9. /\ r.max_take <= r.max_take
      /\ \A u \in r.open \cup BegunBy(x) \cup s.pending : u <= r.max_take
  BY <1>1, <1>4
<1>10. \A u \in r.open : (\A v \in r.open : v <= u) \/ (w[u] = "none" /\ K[u] = {})
  BY <1>1, <1>5 DEF TakesStand
<1>13. Standing(r, s, w)
  OBVIOUS
<1>14. Fits(r, s, x, w)
  BY ONLY <1>1, <1>2, <1>3, <1>4, <1>5, <1>6, <1>7, <1>8, <1>9, <1>10, <1>13, TakeFits
<1> QED BY <1>14 DEF x

\* A take is discarded or cancelled.
LEMMA ClosedFits ==
  ASSUME NEW r, NEW s, NEW w, Standing(r, s, w), NEW t \in TakeId,
         NEW x \in {TakeDiscard(t), TakeCancel(t)}
  PROVE  Fits(r, s, x, w)
<1> DEFINE O  == r.open \ {t}
           W  == r.windowed \ {t}
           K  == [r.markers EXCEPT ![t] = {}]
           SO == s.open \ {t}
           SP == s.pending \ {t}
<1>1. /\ r \in ReplayState /\ s \in SummaryState /\ TakesStand(r, w)
      /\ r.hist \in HistoryState /\ r.open \in SUBSET TakeId
      /\ r.windowed \in SUBSET TakeId /\ r.markers \in [TakeId -> SUBSET MarkerId]
      /\ r.max_take \in 0..MaxTake
      /\ r.windowed \subseteq r.open
      /\ \A u \in r.open : u <= r.max_take
      /\ \A u \in TakeId : u \notin r.open => r.markers[u] = {}
      /\ \A u \in r.open : r.markers[u] \cap r.hist.current.markers = {}
      /\ s.open \in SUBSET TakeId /\ s.pending \in SUBSET TakeId
      /\ s.open = r.open \cap r.windowed
      /\ s.pending \cap r.open = r.open \ r.windowed
      /\ \A u \in s.pending : u <= r.max_take
  BY StandingParts
<1>2. Applied(r, x) = [hist |-> r.hist, ids |-> r.ids, open |-> O,
                       windowed |-> W, markers |-> K, max_take |-> r.max_take]
  BY <1>1, AppliedTake
<1>3. Summarized(s, x) =
              [closed |-> FALSE, undo |-> s.undo, redo |-> s.redo, saved_seq |-> s.saved_seq,
               open |-> SO, pending |-> SP,
               truncated |-> s.truncated, inconsistent |-> s.inconsistent]
  BY <1>1, SummarizedTake
<1>4. Applies(r, x) /\ IdsOf(x) = {} /\ BegunBy(x) = {}
  BY DEF Applies, IdsOf, BegunBy, TakeDiscard, TakeCancel
<1>5. /\ K \in [TakeId -> SUBSET MarkerId]
      /\ \A u \in TakeId : K[u] = IF u = t THEN {} ELSE r.markers[u]
  BY <1>1
<1>6. /\ O \in SUBSET TakeId /\ W \in SUBSET TakeId /\ W \subseteq O
      /\ O \subseteq r.open \cup BegunBy(x)
      /\ SO \in SUBSET TakeId /\ SP \in SUBSET TakeId
      /\ SO = O \cap W /\ SP \cap O = O \ W
  BY <1>1
<1>9. /\ r.max_take <= r.max_take
      /\ \A u \in O \cup BegunBy(x) \cup SP : u <= r.max_take
  BY <1>1, <1>4
<1>o. O \subseteq r.open /\ t \notin O /\ \A u \in r.open : u # t => u \in O
  OBVIOUS
<1> HIDE DEF O, W, K, SO, SP
<1>7. \A u \in TakeId : u \notin O => K[u] = {}
  BY <1>1, <1>5, <1>o
<1>8. \A u \in O : K[u] \cap r.hist.current.markers = {}
  BY <1>1, <1>5, <1>o
<1>10. \A u \in O : (\A v \in O : v <= u) \/ (w[u] = "none" /\ K[u] = {})
  BY <1>1, <1>5, <1>o DEF TakesStand
<1>13. Standing(r, s, w)
  OBVIOUS
<1> QED
  BY ONLY <1>1, <1>2, <1>3, <1>4, <1>5, <1>6, <1>7, <1>8, <1>9, <1>10, <1>13, TakeFits

-----------------------------------------------------------------------------
(* Journals of which every beginning replays. *)

Fine(L, w) == L \in JournalRecords /\ \A n \in 1..Len(L) : Sound(SubSeq(L, 1, n), w)

\* S may follow L, wherever the write of it stops.
Follows(L, S, w) == S \in Seq(Record) /\ \A k \in 0..Len(S) : Fine(L \o SubSeq(S, 1, k), w)

\* A beginning of a sequence has its elements.
LEMMA PrefixProperties ==
  ASSUME NEW S, NEW L \in Seq(S), NEW n \in 0..Len(L)
  PROVE  /\ Len(L) \in Nat /\ DOMAIN L = 1..Len(L)
         /\ SubSeq(L, 1, n) \in Seq(S)
         /\ Len(SubSeq(L, 1, n)) = n
         /\ DOMAIN SubSeq(L, 1, n) = 1..n
         /\ \A i \in 1..n : SubSeq(L, 1, n)[i] = L[i]
<1>1. Len(L) \in Nat /\ DOMAIN L = 1..Len(L) /\ n \in Int /\ 1 \in Int
  BY LenProperties
<1>2. \A i \in 1..n : L[i] \in S
  BY <1>1, ElementOfSeq
<1>3. /\ SubSeq(L, 1, n) \in Seq(S)
      /\ Len(SubSeq(L, 1, n)) = IF 1 <= n THEN n - 1 + 1 ELSE 0
      /\ \A i \in 1..(n - 1 + 1) : SubSeq(L, 1, n)[i] = L[1 + i - 1]
  BY <1>1, <1>2, SubSeqProperties
<1>4. Len(SubSeq(L, 1, n)) = n
  BY <1>1, <1>3
<1>5. DOMAIN SubSeq(L, 1, n) = 1..n
  BY <1>3, <1>4, LenProperties
<1>6. \A i \in 1..n : SubSeq(L, 1, n)[i] = L[i]
  BY <1>1, <1>3
<1> QED BY <1>1, <1>3, <1>4, <1>5, <1>6

\* A beginning of a beginning.
LEMMA PrefixOfPrefix ==
  ASSUME NEW S, NEW L \in Seq(S), NEW n \in 0..Len(L), NEW k \in 0..n
  PROVE  SubSeq(SubSeq(L, 1, n), 1, k) = SubSeq(L, 1, k)
<1> DEFINE P == SubSeq(L, 1, n)
<1>1. Len(L) \in Nat /\ P \in Seq(S) /\ Len(P) = n /\ \A i \in 1..n : P[i] = L[i]
  BY PrefixProperties
<1> HIDE DEF P
<1>2. k \in 0..Len(L) /\ k \in 0..Len(P)
  BY <1>1
<1>3. SubSeq(P, 1, k) \in Seq(S) /\ Len(SubSeq(P, 1, k)) = k
      /\ \A i \in 1..k : SubSeq(P, 1, k)[i] = P[i]
  BY <1>1, <1>2, PrefixProperties
<1>4. SubSeq(L, 1, k) \in Seq(S) /\ Len(SubSeq(L, 1, k)) = k
      /\ \A i \in 1..k : SubSeq(L, 1, k)[i] = L[i]
  BY <1>2, PrefixProperties
<1>5. \A i \in 1..k : i \in 1..n
  BY <1>1
<1>6. \A i \in 1..k : SubSeq(P, 1, k)[i] = SubSeq(L, 1, k)[i]
  BY <1>1, <1>3, <1>4, <1>5
<1> DEFINE A == SubSeq(P, 1, k)
           B == SubSeq(L, 1, k)
<1>7. A \in Seq(S) /\ B \in Seq(S) /\ Len(A) = Len(B) /\ \A i \in 1..Len(A) : A[i] = B[i]
  BY <1>3, <1>4, <1>6
<1> HIDE DEF A, B
<1>8. A = B
  BY <1>7, SeqEqual
<1> QED BY <1>8 DEF A, B, P

\* A beginning does not see what is appended.
LEMMA PrefixOfAppend ==
  ASSUME NEW S, NEW L \in Seq(S), NEW x \in S, NEW n \in 0..Len(L)
  PROVE  SubSeq(Append(L, x), 1, n) = SubSeq(L, 1, n)
<1> DEFINE P == Append(L, x)
<1>1. Len(L) \in Nat /\ P \in Seq(S) /\ Len(P) = Len(L) + 1 /\ \A i \in 1..Len(L) : P[i] = L[i]
  BY AppendProperties, LenProperties
<1> HIDE DEF P
<1>2. n \in 0..Len(P)
  BY <1>1
<1>3. SubSeq(P, 1, n) \in Seq(S) /\ Len(SubSeq(P, 1, n)) = n
      /\ \A i \in 1..n : SubSeq(P, 1, n)[i] = P[i]
  BY <1>1, <1>2, PrefixProperties
<1>4. SubSeq(L, 1, n) \in Seq(S) /\ Len(SubSeq(L, 1, n)) = n
      /\ \A i \in 1..n : SubSeq(L, 1, n)[i] = L[i]
  BY PrefixProperties
<1>5. \A i \in 1..n : i \in 1..Len(L)
  BY <1>1
<1> DEFINE A == SubSeq(P, 1, n)
           B == SubSeq(L, 1, n)
<1>7. A \in Seq(S) /\ B \in Seq(S) /\ Len(A) = Len(B) /\ \A i \in 1..Len(A) : A[i] = B[i]
  BY <1>1, <1>3, <1>4, <1>5
<1> HIDE DEF A, B
<1>8. A = B
  BY <1>7, SeqEqual
<1> QED BY <1>8 DEF A, B, P

\* A journal has at least its first checkpoint.
LEMMA JournalIs ==
  ASSUME NEW L \in JournalRecords
  PROVE  L \in Seq(Record) /\ Len(L) \in Nat /\ Len(L) >= 1 /\ DOMAIN L = 1..Len(L)
         /\ SubSeq(L, 1, Len(L)) = L
<1>1. L \in Seq(Record) /\ L # <<>>
  BY DEF JournalRecords
<1>2. SubSeq(L, 1, Len(L)) = L
  BY <1>1, SubSeqFull
<1> QED BY <1>1, <1>2, EmptySeq, LenProperties

\* A beginning of a journal that is not empty is one.
LEMMA PrefixIsJournal ==
  ASSUME NEW L \in JournalRecords, NEW n \in 1..Len(L)
  PROVE  SubSeq(L, 1, n) \in JournalRecords
<1>1. L \in Seq(Record) /\ L[1].type = "checkpoint" /\ n \in 0..Len(L) /\ 1 \in 1..n
  BY JournalIs DEF JournalRecords
<1>2. /\ SubSeq(L, 1, n) \in Seq(Record) /\ Len(SubSeq(L, 1, n)) = n
      /\ SubSeq(L, 1, n)[1] = L[1]
  BY <1>1, PrefixProperties
<1>3. SubSeq(L, 1, n) # <<>>
  BY <1>1, <1>2, EmptySeq
<1> QED BY <1>1, <1>2, <1>3 DEF JournalRecords

\* A journal of which every beginning replays is sound itself.
LEMMA FineSound ==
  ASSUME NEW L, NEW w, Fine(L, w)
  PROVE  /\ L \in JournalRecords /\ Sound(L, w)
         /\ Standing(State(L), Summary(L), w)
         /\ State(L).ids = IdsIn(L)
<1>1. L \in JournalRecords /\ Sound(SubSeq(L, 1, Len(L)), w)
  <2>1. L \in JournalRecords
    BY DEF Fine
  <2>2. Len(L) \in 1..Len(L)
    BY <2>1, JournalIs
  <2> QED BY <2>1, <2>2 DEF Fine
<1>2. Sound(L, w)
  BY <1>1, JournalIs
<1> QED BY <1>1, <1>2 DEF Sound, Standing

\* So is each of its beginnings.
LEMMA FinePrefix ==
  ASSUME NEW L, NEW w, Fine(L, w), NEW n \in 1..Len(L)
  PROVE  Fine(SubSeq(L, 1, n), w)
<1>1. L \in JournalRecords /\ L \in Seq(Record) /\ Len(L) \in Nat
  BY JournalIs DEF Fine
<1>2. n \in 0..Len(L) /\ n \in Nat
  BY <1>1
<1>3. SubSeq(L, 1, n) \in JournalRecords /\ Len(SubSeq(L, 1, n)) = n
  BY <1>1, <1>2, PrefixIsJournal, PrefixProperties
<1>4. ASSUME NEW k \in 1..n
      PROVE  Sound(SubSeq(SubSeq(L, 1, n), 1, k), w)
  <2>1. k \in 0..n /\ k \in 1..Len(L)
    BY <1>1, <1>2
  <2>2. SubSeq(SubSeq(L, 1, n), 1, k) = SubSeq(L, 1, k)
    BY <1>1, <1>2, <2>1, PrefixOfPrefix
  <2> QED BY <2>1, <2>2 DEF Fine
<1> QED BY <1>3, <1>4 DEF Fine

\* Sound after one more record, and so every beginning is.
LEMMA FineLonger ==
  ASSUME NEW L, NEW w, Fine(L, w), NEW x \in Record, Sound(Append(L, x), w)
  PROVE  Fine(Append(L, x), w)
<1> DEFINE M == Append(L, x)
<1>1. L \in JournalRecords /\ L \in Seq(Record) /\ Len(L) \in Nat
  BY JournalIs DEF Fine
<1>2. M \in JournalRecords /\ Len(M) = Len(L) + 1
  BY <1>1, AppendJournal
<1>3. ASSUME NEW n \in 1..Len(M)
      PROVE  Sound(SubSeq(M, 1, n), w)
  <2>1. CASE n \in 1..Len(L)
    <3>1. n \in 0..Len(L)
      BY <1>1, <2>1
    <3>2. SubSeq(M, 1, n) = SubSeq(L, 1, n)
      BY <1>1, <3>1, PrefixOfAppend
    <3> QED BY <2>1, <3>2 DEF Fine
  <2>2. CASE n = Len(M)
    BY <1>2, <2>2, JournalIs
  <2> QED BY <1>1, <1>2, <2>1, <2>2
<1> HIDE DEF M
<1>4. Fine(M, w)
  BY <1>2, <1>3 DEF Fine
<1> QED BY <1>4 DEF M

\* A record that fits may follow it.
LEMMA FineAppend ==
  ASSUME NEW L, NEW w, Fine(L, w), NEW x \in Record, x.type # "checkpoint",
         Fits(State(L), Summary(L), x, w)
  PROVE  Fine(Append(L, x), w) /\ State(Append(L, x)) = Applied(State(L), x)
<1>1. L \in JournalRecords /\ Sound(L, w)
  BY FineSound
<1>2. Sound(Append(L, x), w) /\ State(Append(L, x)) = Applied(State(L), x)
  BY <1>1, SoundAppend
<1> QED BY <1>2, FineLonger

\* WAVs of takes the journal does not know, and deleted ones, make no difference.
LEMMA FineWav ==
  ASSUME NEW L, NEW w, NEW w2, Fine(L, w), \A t \in BegunIn(L) : w[t] = "none" => w2[t] = "none"
  PROVE  Fine(L, w2)
<1>1. L \in JournalRecords /\ L \in Seq(Record) /\ Len(L) \in Nat /\ DOMAIN L = 1..Len(L)
  BY JournalIs DEF Fine
<1>2. ASSUME NEW n \in 1..Len(L)
      PROVE  Sound(SubSeq(L, 1, n), w2)
  <2> DEFINE P == SubSeq(L, 1, n)
  <2>1. Sound(P, w)
    BY DEF Fine
  <2>2. BegunIn(P) \subseteq BegunIn(L)
    <3>1. n \in 0..Len(L) /\ 1..n \subseteq 1..Len(L)
      BY <1>1
    <3>2. DOMAIN P = 1..n /\ \A i \in 1..n : P[i] = L[i]
      BY <1>1, <3>1, PrefixProperties
    <3> HIDE DEF P
    <3> QED BY <1>1, <3>1, <3>2 DEF BegunIn
  <2>3. \A t \in State(P).open : w[t] = "none" => w2[t] = "none"
    BY <2>1, <2>2 DEF Sound
  <2> HIDE DEF P
  <2>4. TakesStand(State(P), w2)
    BY <2>1, <2>3 DEF Sound, TakesStand
  <2>5. Sound(P, w2)
    BY <2>1, <2>4 DEF Sound
  <2> QED BY <2>5 DEF P
<1> QED BY <1>1, <1>2 DEF Fine

-----------------------------------------------------------------------------
(* A floor: what a checkpoint makes of a journal without edits or takes. *)

Plain(L) ==
  /\ L \in Seq(Record)
  /\ Summary(L) \in SummaryState
  /\ Summary(L).open = {} /\ Summary(L).pending = {} /\ Summary(L).inconsistent = FALSE
  /\ BegunIn(L) = {}
  /\ \A base : FoldLeft(NoteMetadata, base, L) = base

FloorState(hs, I) ==
  [hist |-> hs, ids |-> I, open |-> {}, windowed |-> {},
   markers |-> [t \in TakeId |-> {}], max_take |-> 0]

\* The empty journal, before the first checkpoint.
LEMMA PlainNone == Plain(<<>>) /\ IdsIn(<<>>) = {}
<1>1. Summary(<<>>) =
        [closed |-> FALSE, undo |-> <<>>, redo |-> <<>>, saved_seq |-> 0,
         open |-> {}, pending |-> {}, truncated |-> {}, inconsistent |-> FALSE]
  BY EmptyFolds DEF Summary
<1>2. <<>> \in Seq(Nat) /\ <<>> \in Seq(Record) /\ DOMAIN <<>> = {}
  BY EmptySeq, LenProperties
<1>3. Summary(<<>>) \in SummaryState
  <2>1. \A e \in Seq(Nat) :
          [closed |-> FALSE, undo |-> e, redo |-> e, saved_seq |-> 0,
           open |-> {}, pending |-> {}, truncated |-> {}, inconsistent |-> FALSE]
             \in SummaryState
    BY DEF SummaryState
  <2> QED BY <1>1, <1>2, <2>1
<1>4. BegunIn(<<>>) = {} /\ IdsIn(<<>>) = {}
  BY <1>2 DEF BegunIn, IdsIn
<1> QED BY <1>1, <1>2, <1>3, <1>4, EmptyFolds DEF Plain

\* summarize: a checkpoint.
LEMMA SummarizedCheckpoint ==
  ASSUME NEW s \in SummaryState, NEW hs, NEW I
  PROVE  Summarized(s, Checkpoint(hs, I)) =
           [closed |-> FALSE, undo |-> SeqsOf(hs.undo), redo |-> SeqsOf(hs.redo),
            saved_seq |-> hs.saved_seq, open |-> s.open, pending |-> s.pending,
            truncated |-> s.truncated, inconsistent |-> s.inconsistent]
BY DEF Summarized, Checkpoint, SummaryState, SeqsOf

\* What the two kinds of records of a floor are.
LEMMA RecordIs ==
  /\ \A x \in CheckpointRecord :
       x \in Record /\ x.type = "checkpoint" /\ x = Checkpoint(x.hist, x.ids)
         /\ x.hist \in HistoryState /\ x.ids \in SUBSET Chunk
  /\ \A x \in ChunksRecord :
       x \in Record /\ x.type = "chunks" /\ x = Chunks(x.ids) /\ x.ids \in SUBSET Chunk
  /\ \A x \in Record : x.type = "checkpoint" => x \in CheckpointRecord
<1>1. \A x \in CheckpointRecord :
       x \in Record /\ x.type = "checkpoint" /\ x = Checkpoint(x.hist, x.ids)
         /\ x.hist \in HistoryState /\ x.ids \in SUBSET Chunk
  BY DEF CheckpointRecord, Record, Checkpoint
<1>2. \A x \in ChunksRecord :
       x \in Record /\ x.type = "chunks" /\ x = Chunks(x.ids) /\ x.ids \in SUBSET Chunk
  BY DEF ChunksRecord, Record, Chunks
<1>3. \A x \in Record : x.type = "checkpoint" => x \in CheckpointRecord
  BY DEF Record, ChunksRecord, EditRecord, SeqRecord, CountRecord, BeginRecord,
         TakeRecord, MarkerRecord, Close
<1> QED BY <1>1, <1>2, <1>3

\* Chunks and checkpoints keep a journal plain.
LEMMA PlainAppend ==
  ASSUME NEW L, Plain(L), NEW x \in CheckpointRecord \cup ChunksRecord
  PROVE  /\ Plain(Append(L, x))
         /\ IdsIn(Append(L, x)) = IdsIn(L) \cup x.ids
<1> DEFINE M == Append(L, x)
           s == Summary(L)
<1>1. L \in Seq(Record) /\ x \in Record /\ M \in Seq(Record)
  BY RecordIs, AppendProperties DEF Plain
<1>2. Summary(M) = Summarized(s, x)
  BY <1>1, SummaryOfAppend
<1>3. s \in SummaryState /\ s.open = {} /\ s.pending = {} /\ s.inconsistent = FALSE
  BY DEF Plain
<1>4. BegunBy(x) = {} /\ IdsOf(x) = x.ids
  BY DEF BegunBy, IdsOf, CheckpointRecord, ChunksRecord
<1>5. IdsIn(M) = IdsIn(L) \cup x.ids /\ BegunIn(M) = {}
  BY <1>1, <1>4, InOfAppend DEF Plain
<1>6. ASSUME NEW base
      PROVE  FoldLeft(NoteMetadata, base, M) = base
  <2>1. FoldLeft(NoteMetadata, base, M) = NoteMetadata(FoldLeft(NoteMetadata, base, L), x)
    BY <1>1, NotesFold
  <2>2. FoldLeft(NoteMetadata, base, L) = base
    BY DEF Plain
  <2>3. NoteMetadata(base, x) = base
    BY DEF NoteMetadata, CheckpointRecord, ChunksRecord
  <2> HIDE DEF M
  <2> QED BY <2>1, <2>2, <2>3
<1> HIDE DEF M, s
<1>7. /\ Summary(M) \in SummaryState
      /\ Summary(M).open = {} /\ Summary(M).pending = {} /\ Summary(M).inconsistent = FALSE
  <2>1. CASE x \in ChunksRecord
    <3>1. x = Chunks(x.ids)
      BY <2>1, RecordIs
    <3>2. \A I : Summarized(s, Chunks(I)) = [s EXCEPT !.closed = FALSE]
      BY <1>3, SummarizedPlain
    <3>3. Summarized(s, x) = [s EXCEPT !.closed = FALSE]
      BY <3>1, <3>2
    <3> QED BY <1>2, <1>3, <3>3 DEF SummaryState
  <2>2. CASE x \in CheckpointRecord
    <3>1. x = Checkpoint(x.hist, x.ids) /\ x.hist \in HistoryState
      BY <2>2, RecordIs
    <3>2. Summarized(s, x) =
           [closed |-> FALSE, undo |-> SeqsOf(x.hist.undo), redo |-> SeqsOf(x.hist.redo),
            saved_seq |-> x.hist.saved_seq, open |-> s.open, pending |-> s.pending,
            truncated |-> s.truncated, inconsistent |-> s.inconsistent]
      BY <1>3, <3>1, SummarizedCheckpoint
    <3>3. /\ SeqsOf(x.hist.undo) \in Seq(Nat) /\ SeqsOf(x.hist.redo) \in Seq(Nat)
          /\ x.hist.saved_seq \in Nat
      BY <3>1, SeqsOfType, StackShape, HistoryParts
    <3> QED BY <1>2, <1>3, <3>2, <3>3 DEF SummaryState
  <2> QED BY <2>1, <2>2
<1>8. Plain(M)
  BY <1>1, <1>5, <1>6, <1>7 DEF Plain
<1> QED BY <1>5, <1>8 DEF M

\* A checkpoint that covers the chunks before it makes a sound journal.
LEMMA SoundFloor ==
  ASSUME NEW L, Plain(L), NEW hs \in HistoryState, NEW I \in SUBSET Chunk,
         IdsIn(L) \subseteq I, Live(hs) \subseteq I, MarkersBelow(hs), NEW w
  PROVE  /\ Sound(Append(L, Checkpoint(hs, I)), w)
         /\ State(Append(L, Checkpoint(hs, I))) = FloorState(hs, I)
<1> DEFINE x == Checkpoint(hs, I)
           M == Append(L, x)
           r == FloorState(hs, I)
<1>1. x \in CheckpointRecord /\ x \in Record /\ L \in Seq(Record) /\ x.type = "checkpoint"
      /\ x.hist = hs /\ x.ids = I
  BY DEF Plain, CheckpointRecord, Record, Checkpoint
<1>2. FoldLeft(NoteMetadata, r, L) = r
  BY DEF Plain
<1>3. r = [hist |-> x.hist, ids |-> x.ids, open |-> {}, windowed |-> {},
           markers |-> [t \in TakeId |-> {}], max_take |-> 0]
  BY <1>1 DEF FloorState
<1> HIDE DEF x
<1>4. Replay(M) = [state |-> FoldLeft(NoteMetadata, [hist |-> x.hist, ids |-> x.ids,
                       open |-> {}, windowed |-> {}, markers |-> [t \in TakeId |-> {}],
                       max_take |-> 0], L),
                   consumed |-> Len(L) + 1, stopped |-> FALSE]
  BY <1>1, ReplayOfCheckpoint
<1>5. Len(M) = Len(L) + 1
  BY <1>1, AppendProperties
<1> HIDE DEF r
<1>6. Replay(M) = [state |-> r, consumed |-> Len(M), stopped |-> FALSE]
  BY <1>2, <1>3, <1>4, <1>5
<1>7. State(M) = r
  BY <1>6 DEF State
<1>8. Plain(M) /\ IdsIn(M) = IdsIn(L) \cup I
  BY <1>1, PlainAppend
<1>9. Summary(M) = Summarized(Summary(L), x)
  BY <1>1, SummaryOfAppend
<1>10. Summary(M) =
           [closed |-> FALSE, undo |-> SeqsOf(hs.undo), redo |-> SeqsOf(hs.redo),
            saved_seq |-> hs.saved_seq, open |-> {}, pending |-> {},
            truncated |-> Summary(L).truncated, inconsistent |-> FALSE]
  BY <1>9, SummarizedCheckpoint DEF Plain, x
<1>11. GoodState(r)
  <2>1. 0 \in 0..MaxTake
    BY MaxTakeIsNat
  <2>2. [t \in TakeId |-> {}] \in [TakeId -> SUBSET MarkerId]
    OBVIOUS
  <2>3. GoodState([hist |-> hs, ids |-> I, open |-> {}, windowed |-> {},
                   markers |-> [t \in TakeId |-> {}], max_take |-> 0])
    <3> DEFINE K == [t \in TakeId |-> {}]
    <3>1. \A t \in TakeId : K[t] = {}
      OBVIOUS
    <3>2. K \in [TakeId -> SUBSET MarkerId]
      OBVIOUS
    <3> HIDE DEF K
    <3>3. GoodState([hist |-> hs, ids |-> I, open |-> {}, windowed |-> {},
                     markers |-> K, max_take |-> 0])
      BY <2>1, <3>1, <3>2, MakeGood
    <3> QED BY <3>3 DEF K
  <2> QED BY <2>3 DEF r, FloorState
<1>12. r.hist = hs /\ r.ids = I /\ r.open = {} /\ r.windowed = {}
  BY DEF r, FloorState
<1>13. Agree(Summary(M), r)
  <2>1. Summary(M) \in SummaryState
    BY <1>8 DEF Plain
  <2> QED BY <1>10, <1>12, <2>1 DEF Agree
<1>14. TakesStand(r, w)
  BY <1>12 DEF TakesStand
<1>15. IdsIn(M) = I /\ BegunIn(M) = {}
  BY <1>8 DEF Plain
<1>16. Sound(M, w)
  BY <1>6, <1>7, <1>11, <1>12, <1>13, <1>14, <1>15 DEF Sound
<1> QED BY <1>7, <1>16 DEF M, x, r

\* The first checkpoint of a journal.
LEMMA FineFloor ==
  ASSUME NEW hs \in HistoryState, NEW I \in SUBSET Chunk,
         Live(hs) \subseteq I, MarkersBelow(hs), NEW w
  PROVE  /\ Fine(<<Checkpoint(hs, I)>>, w)
         /\ State(<<Checkpoint(hs, I)>>) = FloorState(hs, I)
         /\ IdsIn(<<Checkpoint(hs, I)>>) = I
<1> DEFINE x == Checkpoint(hs, I)
           M == <<x>>
<1>1. x \in CheckpointRecord /\ x \in Record /\ x.type = "checkpoint" /\ x.ids = I
  BY DEF CheckpointRecord, Record, Checkpoint
<1> HIDE DEF x
<1>2. M = Append(<<>>, x) /\ M \in Seq(Record) /\ Len(M) = 1 /\ M[1] = x /\ M # <<>>
  BY <1>1
<1>3. Sound(M, w) /\ State(M) = FloorState(hs, I)
  BY <1>2, PlainNone, SoundFloor DEF x
<1>4. IdsIn(M) = I
  <2>1. Plain(<<>>) /\ IdsIn(<<>>) = {} /\ x \in CheckpointRecord \cup ChunksRecord
    BY <1>1, PlainNone
  <2>2. IdsIn(Append(<<>>, x)) = IdsIn(<<>>) \cup x.ids
    BY ONLY <2>1, PlainAppend
  <2> HIDE DEF M
  <2> QED BY ONLY <1>1, <1>2, <2>1, <2>2
<1> HIDE DEF M
<1>5. M \in JournalRecords
  BY <1>1, <1>2 DEF JournalRecords
<1>6. ASSUME NEW n \in 1..Len(M)
      PROVE  Sound(SubSeq(M, 1, n), w)
  <2>1. n = Len(M)
    BY <1>2
  <2> QED BY <1>3, <1>5, <2>1, JournalIs
<1>7. Fine(M, w)
  BY <1>5, <1>6 DEF Fine
<1> QED BY <1>3, <1>4, <1>7 DEF M, x

\* A journal of one record is plain.
LEMMA ShortIsPlain ==
  ASSUME NEW L \in JournalRecords, Len(L) = 1
  PROVE  Plain(L)
<1>1. L \in Seq(Record) /\ 1 \in DOMAIN L /\ L[1].type = "checkpoint"
  BY JournalIs DEF JournalRecords
<1>2. L[1] \in CheckpointRecord /\ L[1] \in Record
  BY <1>1, RecordIs, ElementOfSeq
<1> DEFINE M == Append(<<>>, L[1])
<1>3. M \in Seq(Record) /\ Len(M) = Len(L) /\ L \in Seq(Record)
      /\ \A i \in 1..Len(M) : M[i] = L[i]
  BY <1>1, <1>2
<1>4. Plain(M)
  BY <1>2, PlainNone, PlainAppend
<1> HIDE DEF M
<1>5. M = L
  BY <1>3, SeqEqual
<1> QED BY <1>4, <1>5

-----------------------------------------------------------------------------
(* The records of one call, after a journal. *)

\* Appending one record ...
LEMMA OneIs ==
  ASSUME NEW E, NEW L \in Seq(E), NEW x \in E
  PROVE  /\ <<x>> \in Seq(E) /\ Len(<<x>>) = 1
         /\ L \o <<x>> = Append(L, x) /\ Append(L, x) \in Seq(E)
         /\ SubSeq(<<x>>, 1, 0) = <<>> /\ SubSeq(<<x>>, 1, 1) = <<x>>
         /\ L \o <<>> = L
         /\ IdsIn(<<x>>) = IdsOf(x)
<1>1. <<x>> \in Seq(E) /\ Len(<<x>>) = 1 /\ <<x>>[1] = x /\ DOMAIN <<x>> = {1}
  OBVIOUS
<1>2. L \o <<x>> = Append(L, x) /\ Append(L, x) \in Seq(E) /\ L \o <<>> = L
  OBVIOUS
<1>3. SubSeq(<<x>>, 1, 0) = <<>> /\ SubSeq(<<x>>, 1, 1) = <<x>>
  <2> DEFINE S == <<x>>
  <2>1. S \in Seq(E) /\ Len(S) = 1 /\ 0 \in Int /\ 1 \in Int /\ 0 < 1
    BY <1>1
  <2> HIDE DEF S
  <2>2. SubSeq(S, 1, 0) = <<>> /\ SubSeq(S, 1, Len(S)) = S
    BY <2>1, SubSeqFull, SubSeqEmpty
  <2>3. SubSeq(S, 1, 0) = <<>> /\ SubSeq(S, 1, 1) = S
    BY <2>1, <2>2
  <2> QED BY <2>3 DEF S
<1>4. IdsIn(<<x>>) = IdsOf(x)
  BY <1>1 DEF IdsIn
<1> QED BY <1>1, <1>2, <1>3, <1>4

\* ... and two.
LEMMA PairIs ==
  ASSUME NEW E, NEW x \in E, NEW y \in E
  PROVE  /\ <<x, y>> \in Seq(E) /\ Len(<<x, y>>) = 2
         /\ <<x>> \o <<y>> = <<x, y>>
         /\ SubSeq(<<x, y>>, 1, 0) = <<>> /\ SubSeq(<<x, y>>, 1, 1) = <<x>>
         /\ SubSeq(<<x, y>>, 1, 2) = <<x, y>>
         /\ IdsIn(<<x, y>>) = IdsOf(x) \cup IdsOf(y)
<1>1. <<x, y>> \in Seq(E) /\ Len(<<x, y>>) = 2 /\ <<x, y>>[1] = x /\ <<x, y>>[2] = y
      /\ DOMAIN <<x, y>> = {1, 2}
  OBVIOUS
<1>2. <<x>> \o <<y>> = <<x, y>>
  <2>1. <<x, y>> = Append(<<x>>, y) /\ <<x>> \in Seq(E)
    OBVIOUS
  <2> DEFINE S == <<x>>
  <2> HIDE DEF S
  <2>2. S \in Seq(E) => S \o <<y>> = Append(S, y)
    BY OneIs
  <2> QED BY <2>1, <2>2 DEF S
<1>3. SubSeq(<<x, y>>, 1, 0) = <<>> /\ SubSeq(<<x, y>>, 1, 2) = <<x, y>>
  <2> DEFINE S == <<x, y>>
  <2>1. S \in Seq(E) /\ Len(S) = 2 /\ 0 \in Int /\ 1 \in Int /\ 0 < 1
    BY <1>1
  <2> HIDE DEF S
  <2>2. SubSeq(S, 1, 0) = <<>> /\ SubSeq(S, 1, Len(S)) = S
    BY <2>1, SubSeqFull, SubSeqEmpty
  <2>3. SubSeq(S, 1, 0) = <<>> /\ SubSeq(S, 1, 2) = S
    BY <2>1, <2>2
  <2> QED BY <2>3 DEF S
<1>4. SubSeq(<<x, y>>, 1, 1) = <<x>>
  <2>1. <<x, y>> = Append(<<x>>, y) /\ <<x>> \in Seq(E) /\ Len(<<x>>) = 1
    OBVIOUS
  <2>2. 1 \in 0..Len(<<x>>)
    BY <2>1
  <2>3. SubSeq(Append(<<x>>, y), 1, 1) = SubSeq(<<x>>, 1, 1)
    BY <2>1, <2>2, PrefixOfAppend
  <2> QED BY <2>1, <2>3, OneIs
<1>5. IdsIn(<<x, y>>) = IdsOf(x) \cup IdsOf(y)
  BY <1>1 DEF IdsIn
<1> QED BY <1>1, <1>2, <1>3, <1>4, <1>5

\* The chunks two records bring in.
LEMMA PairIds ==
  ASSUME NEW x \in Record, NEW y \in Record
  PROVE  IdsIn(<<x, y>>) = IdsOf(x) \cup IdsOf(y)
BY ONLY PairIs

\* Two records are appended one after the other.
LEMMA TwoIs ==
  ASSUME NEW E, NEW L \in Seq(E), NEW x \in E, NEW y \in E
  PROVE  L \o <<x, y>> = Append(Append(L, x), y)
<1>1. <<x>> \o <<y>> = <<x, y>>
  BY PairIs
<1>2. L \o <<x>> = Append(L, x) /\ <<x>> \in Seq(E) /\ <<y>> \in Seq(E)
      /\ Append(L, x) \in Seq(E)
  OBVIOUS
<1>3. (L \o <<x>>) \o <<y>> = Append(Append(L, x), y)
  BY <1>2, OneIs
<1>4. (L \o <<x>>) \o <<y>> = L \o (<<x>> \o <<y>>)
  BY <1>2, ConcatAssociative
<1> QED BY <1>1, <1>3, <1>4

\* What may follow a journal is records, and both are fine.
LEMMA FollowsParts ==
  ASSUME NEW L, NEW S, NEW w, Follows(L, S, w)
  PROVE  /\ S \in Seq(Record) /\ Len(S) \in Nat
         /\ Fine(L, w) /\ Fine(L \o S, w)
         /\ L \in JournalRecords /\ L \in Seq(Record)
<1>1. S \in Seq(Record) /\ Len(S) \in Nat
  BY LenProperties DEF Follows
<1>2. SubSeq(S, 1, 0) = <<>> /\ SubSeq(S, 1, Len(S)) = S
  BY <1>1, SubSeqFull, SubSeqEmpty
<1>3. 0 \in 0..Len(S) /\ Len(S) \in 0..Len(S)
  BY <1>1
<1>4. Fine(L \o <<>>, w) /\ Fine(L \o S, w)
  BY <1>2, <1>3 DEF Follows
<1>5. Fine(L, w)
  <2>1. L \o <<>> \in Seq(Record)
    BY <1>4 DEF Fine, JournalRecords
  <2> QED BY <1>4, <2>1
<1>6. L \in JournalRecords /\ L \in Seq(Record)
  BY <1>5 DEF Fine, JournalRecords
<1> QED BY <1>1, <1>4, <1>5, <1>6

\* No record may follow.
LEMMA FollowsNone ==
  ASSUME NEW L, NEW w, Fine(L, w)
  PROVE  Follows(L, <<>>, w)
<1>1. L \in Seq(Record) /\ Len(<<>>) = 0 /\ <<>> \in Seq(Record)
  BY EmptySeq DEF Fine, JournalRecords
<1>2. SubSeq(<<>>, 1, 0) = <<>> /\ L \o <<>> = L
  BY <1>1, SubSeqEmpty
<1>3. \A k \in 0..0 : k = 0
  OBVIOUS
<1> QED BY <1>1, <1>2, <1>3 DEF Follows

\* One record may, when the journal with it is fine.
LEMMA FollowsOne ==
  ASSUME NEW L, NEW w, NEW x \in Record, Fine(L, w), Fine(Append(L, x), w)
  PROVE  Follows(L, <<x>>, w)
<1> DEFINE S == <<x>>
<1>1. L \in Seq(Record)
  BY DEF Fine, JournalRecords
<1>2. /\ S \in Seq(Record) /\ Len(S) = 1 /\ L \o S = Append(L, x)
      /\ SubSeq(S, 1, 0) = <<>> /\ SubSeq(S, 1, 1) = S /\ L \o <<>> = L
  BY <1>1, OneIs
<1>3. \A k \in 0..1 : k = 0 \/ k = 1
  OBVIOUS
<1> HIDE DEF S
<1>4. Follows(L, S, w)
  BY <1>2, <1>3 DEF Follows
<1> QED BY <1>4 DEF S

\* Two may, when the first one may and the second one after it.
LEMMA FollowsTwo ==
  ASSUME NEW L, NEW w, NEW x \in Record, NEW y \in Record, Fine(L, w),
         Fine(Append(L, x), w), Fine(Append(Append(L, x), y), w)
  PROVE  Follows(L, <<x, y>>, w)
<1> DEFINE S == <<x, y>>
           S1 == <<x>>
<1>1. L \in Seq(Record)
  BY DEF Fine, JournalRecords
<1>2. /\ S \in Seq(Record) /\ Len(S) = 2 /\ L \o S = Append(Append(L, x), y)
      /\ SubSeq(S, 1, 0) = <<>> /\ SubSeq(S, 1, 1) = S1 /\ SubSeq(S, 1, 2) = S
      /\ L \o <<>> = L /\ L \o S1 = Append(L, x)
  <2>1. /\ S1 \in Seq(Record) /\ L \o S1 = Append(L, x) /\ L \o <<>> = L
    BY <1>1, OneIs
  <2>2. /\ S \in Seq(Record) /\ Len(S) = 2 /\ L \o S = Append(Append(L, x), y)
        /\ SubSeq(S, 1, 0) = <<>> /\ SubSeq(S, 1, 1) = S1 /\ SubSeq(S, 1, 2) = S
    <3>1. <<x, y>> \in Seq(Record) /\ Len(<<x, y>>) = 2
      OBVIOUS
    <3>2. L \o <<x, y>> = Append(Append(L, x), y)
      BY <1>1, TwoIs
    <3>3. SubSeq(<<x, y>>, 1, 0) = <<>> /\ SubSeq(<<x, y>>, 1, 1) = <<x>>
      BY PairIs
    <3>4. SubSeq(<<x, y>>, 1, 2) = <<x, y>>
      BY PairIs
    <3> QED BY <3>1, <3>2, <3>3, <3>4
  <2> QED BY <2>1, <2>2
<1>3. \A k \in 0..2 : k = 0 \/ k = 1 \/ k = 2
  OBVIOUS
<1> HIDE DEF S, S1
<1>4. Follows(L, S, w)
  BY <1>2, <1>3 DEF Follows
<1> QED BY <1>4 DEF S

\* What a journal is when the process ends inside a write.
LEMMA FollowsEnd ==
  ASSUME NEW L, NEW S, NEW w, Follows(L, S, w), NEW k \in 0..Len(S)
  PROVE  /\ Follows(L \o SubSeq(S, 1, k), <<>>, w)
         /\ IdsIn(L \o SubSeq(S, 1, k)) \subseteq IdsIn(L) \cup IdsIn(S)
         /\ k = 0 => L \o SubSeq(S, 1, k) = L
<1>1. Follows(L \o SubSeq(S, 1, k), <<>>, w)
  BY FollowsNone DEF Follows
<1>2. S \in Seq(Record) /\ L \in Seq(Record)
  BY FollowsParts
<1> DEFINE P == SubSeq(S, 1, k)
           M == L \o P
<1>3. /\ P \in Seq(Record) /\ Len(P) = k /\ DOMAIN P = 1..k /\ DOMAIN S = 1..Len(S)
      /\ Len(S) \in Nat /\ \A i \in 1..k : P[i] = S[i]
  BY <1>2, PrefixProperties
<1> HIDE DEF P
<1>4. /\ Len(L) \in Nat /\ DOMAIN L = 1..Len(L)
      /\ M \in Seq(Record) /\ Len(M) = Len(L) + k
      /\ \A i \in 1..(Len(L) + k) : M[i] = IF i <= Len(L) THEN L[i] ELSE P[i - Len(L)]
  BY <1>2, <1>3, LenProperties, ConcatProperties
<1>5. DOMAIN M = 1..(Len(L) + k)
  BY <1>4, LenProperties
<1> HIDE DEF M
<1>6. IdsIn(M) \subseteq IdsIn(L) \cup IdsIn(S)
  <2> SUFFICES ASSUME NEW i \in 1..(Len(L) + k)
               PROVE  IdsOf(M[i]) \subseteq IdsIn(L) \cup IdsIn(S)
    BY <1>5 DEF IdsIn
  <2>1. CASE i <= Len(L)
    <3>1. i \in DOMAIN L /\ M[i] = L[i]
      BY <1>4, <2>1
    <3> QED BY <3>1 DEF IdsIn
  <2>2. CASE ~(i <= Len(L))
    <3>1. i - Len(L) \in 1..k /\ k \in 0..Len(S)
      BY <1>3, <1>4, <2>2
    <3>2. i - Len(L) \in DOMAIN S /\ M[i] = S[i - Len(L)]
      BY <1>3, <1>4, <2>2, <3>1
    <3> QED BY <3>2 DEF IdsIn
  <2> QED BY <2>1, <2>2
<1>7. k = 0 => M = L
  <2> SUFFICES ASSUME k = 0 PROVE M = L
    OBVIOUS
  <2>1. M \in Seq(Record) /\ L \in Seq(Record) /\ Len(M) = Len(L)
        /\ \A i \in 1..Len(M) : M[i] = L[i]
    BY <1>2, <1>4
  <2> QED BY <2>1, SeqEqual
<1> QED BY <1>1, <1>6, <1>7 DEF M, P

\* And when the whole of it is written.
LEMMA FollowsAll ==
  ASSUME NEW L, NEW S, NEW w, Follows(L, S, w)
  PROVE  /\ Follows(L \o S, <<>>, w)
         /\ IdsIn(L \o S) \subseteq IdsIn(L) \cup IdsIn(S)
<1>1. S \in Seq(Record) /\ Len(S) \in 0..Len(S) /\ SubSeq(S, 1, Len(S)) = S
  BY FollowsParts, SubSeqFull
<1>2. Follows(L, S, w)
  OBVIOUS
<1>3. /\ Follows(L \o SubSeq(S, 1, Len(S)), <<>>, w)
      /\ IdsIn(L \o SubSeq(S, 1, Len(S))) \subseteq IdsIn(L) \cup IdsIn(S)
  BY ONLY <1>1, <1>2, FollowsEnd
<1> QED BY ONLY <1>1, <1>3

\* Takes whose WAV was deleted make no difference.
LEMMA FollowsWav ==
  ASSUME NEW L, NEW S, NEW w, Follows(L, S, w), NEW v, \A t \in TakeId : w[t] = "none" => v[t] = "none"
  PROVE  Follows(L, S, v)
<1>1. ASSUME NEW M, Fine(M, w)
      PROVE  Fine(M, v)
  <2>1. BegunIn(M) \subseteq TakeId
    <3>1. M \in Seq(Record) /\ \A i \in DOMAIN M : M[i] \in Record
      BY <1>1, LenProperties, ElementOfSeq DEF Fine, JournalRecords
    <3>2. \A rec \in Record : BegunBy(rec) \subseteq TakeId
      BY DEF Record, CheckpointRecord, ChunksRecord, EditRecord, SeqRecord, CountRecord,
             BeginRecord, TakeRecord, MarkerRecord, Close, BegunBy
    <3> QED BY <3>1, <3>2 DEF BegunIn
  <2>2. \A t \in BegunIn(M) : w[t] = "none" => v[t] = "none"
    BY <2>1
  <2> QED BY <1>1, <2>2, FineWav
<1> QED BY <1>1 DEF Follows

-----------------------------------------------------------------------------
(* Memory and the replayed history differ at most in ids that were only handed  *)
(* out.                                                                         *)

SameHistory(a, b) ==
  /\ a.current = b.current /\ a.undo = b.undo /\ a.redo = b.redo
  /\ a.next_rev = b.next_rev /\ a.next_audio_rev = b.next_audio_rev
  /\ a.next_seq = b.next_seq /\ a.saved_seq = b.saved_seq
  /\ a.next_marker_id <= b.next_marker_id

\* The histories of memory and of the replay, as JournalHoldsMemory compares them.
LEMMA SameIs ==
  ASSUME NEW a \in HistoryState, NEW b \in HistoryState, SameHistory(a, b)
  PROVE  /\ [a EXCEPT !.next_marker_id = b.next_marker_id] = b
         /\ a.next_marker_id <= b.next_marker_id
         /\ Contents(a) = Contents(b) /\ Live(a) = Live(b)
         /\ MarkersBelow(a) => MarkersBelow(b)
<1>1. [a EXCEPT !.next_marker_id = b.next_marker_id] = b
  BY DEF HistoryState, SameHistory
<1>2. Contents(a) = Contents(b)
  BY DEF Contents, SameHistory
<1>3. Live(a) = Live(b)
  BY <1>2, LiveIsContents
<1>4. a.next_marker_id <= b.next_marker_id
  BY DEF SameHistory
<1>5. ASSUME MarkersBelow(a), NEW d \in Contents(b), NEW m \in d.markers
      PROVE  m < b.next_marker_id
  <2>1. d.markers \subseteq MarkerId
    <3>1. \A s \in Snapshot : Content(s).markers \subseteq MarkerId
      BY SnapshotParts
    <3> QED BY <3>1, HistoryParts DEF Contents
  <2>2. m \in Int /\ m < a.next_marker_id
    BY <1>2, <1>5, <2>1 DEF MarkersBelow, MarkerId
  <2>3. a.next_marker_id \in Nat /\ b.next_marker_id \in Nat
    BY HistoryParts
  <2> QED BY <1>4, <2>2, <2>3
<1> QED BY <1>1, <1>2, <1>3, <1>4, <1>5 DEF MarkersBelow

\* A history is the same as itself.
LEMMA SameSelf ==
  ASSUME NEW a \in HistoryState
  PROVE  SameHistory(a, a)
BY HistoryParts DEF SameHistory

\* The calls that do not commit keep them the same.
LEMMA SameSteps ==
  ASSUME NEW a \in HistoryState, NEW b \in HistoryState, SameHistory(a, b)
  PROVE  /\ SameHistory(a, AllocatedMarker(b))
         /\ SameHistory(Undone(a), Undone(b))
         /\ SameHistory(Redone(a), Redone(b))
         /\ \A n : SameHistory(DroppedOldest(a, n), DroppedOldest(b, n))
         /\ \A q : SameHistory(MarkedSavedAt(a, q), MarkedSavedAt(b, q))
<1>1. a.next_marker_id \in Nat /\ b.next_marker_id \in Nat
  BY HistoryParts
<1>2. SameHistory(a, AllocatedMarker(b))
  BY <1>1 DEF SameHistory, AllocatedMarker, HistoryState
<1>3. SameHistory(Undone(a), Undone(b))
  BY DEF SameHistory, Undone, Restamp, HistoryState
<1>4. SameHistory(Redone(a), Redone(b))
  BY DEF SameHistory, Redone, Restamp, HistoryState
<1>5. \A n : SameHistory(DroppedOldest(a, n), DroppedOldest(b, n))
  BY DEF SameHistory, DroppedOldest, HistoryState
<1>6. \A q : SameHistory(MarkedSavedAt(a, q), MarkedSavedAt(b, q))
  BY DEF SameHistory, MarkedSavedAt, HistoryState
<1> QED BY <1>2, <1>3, <1>4, <1>5, <1>6

\* The next marker id grows with the one before.
LEMMA IdAboveGrows ==
  ASSUME NEW n \in Nat, NEW k \in Nat, n <= k, NEW M \in SUBSET MarkerId
  PROVE  IdAbove(n, M) <= IdAbove(k, M)
<1>1. /\ IdAbove(n, M) \in {n} \cup {m + 1 : m \in M} /\ IdAbove(n, M) \in Nat
      /\ IdAbove(k, M) \in Nat /\ IdAbove(k, M) >= k
      /\ \A m \in M : IdAbove(k, M) > m
  BY IdAboveType
<1>2. \A m \in M : m \in Nat
  BY DEF MarkerId
<1>3. CASE IdAbove(n, M) = n
  BY <1>1, <1>3
<1>4. CASE \E m \in M : IdAbove(n, M) = m + 1
  BY <1>1, <1>2, <1>4
<1> QED BY <1>1, <1>3, <1>4

\* And so does a commit.
LEMMA SameCommit ==
  ASSUME NEW a \in HistoryState, NEW b \in HistoryState, SameHistory(a, b), NEW e \in EditOps
  PROVE  /\ SameHistory(Commit(a, e), Commit(b, e))
         /\ Prepares(b, e) <=> Prepares(a, e)
<1>1. a.next_marker_id \in Nat /\ b.next_marker_id \in Nat /\ e.madd \in SUBSET MarkerId
  BY HistoryParts DEF EditOps
<1>2. a.next_marker_id <= b.next_marker_id
  BY DEF SameHistory
<1>3. IdAbove(a.next_marker_id, e.madd) <= IdAbove(b.next_marker_id, e.madd)
  BY <1>1, <1>2, IdAboveGrows
<1>4. Prepared(a, e) = Prepared(b, e)
  BY DEF Prepared, SameHistory
<1>5. SameHistory(Commit(a, e), Commit(b, e))
  BY <1>3, <1>4 DEF SameHistory, Commit, HistoryState
<1>6. Prepares(b, e) <=> Prepares(a, e)
  BY DEF Prepares, SameHistory
<1> QED BY <1>5, <1>6

-----------------------------------------------------------------------------
(* What each call writes follows, and what it leaves. *)

\* r after an edit e that closes take t and may use the chunks J.
Edited(r, J, e, t) ==
  [hist |-> Commit(r.hist, e), ids |-> J,
   open |-> IF t = NoTake THEN r.open ELSE r.open \ {t},
   windowed |-> IF t = NoTake THEN r.windowed ELSE r.windowed \ {t},
   markers |-> IF t = NoTake THEN r.markers ELSE [r.markers EXCEPT ![t] = {}],
   max_take |-> r.max_take]

\* An edit record does to the replayed state what commit_internal does in memory.
LEMMA AppliedEdited ==
  ASSUME NEW r \in ReplayState
  PROVE  \A q, e, t, sh : Applied(r, Edit(q, e, t, sh)) = Edited(r, r.ids, e, t)
<1>1. \A a, b, c, d : Applied(r, Edit(a, b, c, d)) =
           [hist |-> Commit(r.hist, b), ids |-> r.ids,
            open |-> IF c = NoTake THEN r.open ELSE r.open \ {c},
            windowed |-> IF c = NoTake THEN r.windowed ELSE r.windowed \ {c},
            markers |-> IF c = NoTake THEN r.markers ELSE [r.markers EXCEPT ![c] = {}],
            max_take |-> r.max_take]
  BY AppliedEdit
<1> QED BY <1>1 DEF Edited

\* Every record the calls write is one.
LEMMA RecordsAre ==
  /\ \A I \in SUBSET Chunk : Chunks(I) \in Record
  /\ \A hs \in HistoryState, I \in SUBSET Chunk : Checkpoint(hs, I) \in Record
  /\ \A q \in Nat, e \in EditOps, t \in TakeId \cup {NoTake}, sh \in BOOLEAN :
       Edit(q, e, t, sh) \in Record
  /\ \A q \in Nat : UndoRec(q) \in Record /\ RedoRec(q) \in Record /\ Saved(q) \in Record
                    /\ DropUndo(q) \in Record
  /\ \A t \in TakeId, al \in BOOLEAN : TakeBegin(t, al) \in Record
  /\ \A t \in TakeId : TakeWindow(t) \in Record /\ TakeDiscard(t) \in Record
                       /\ TakeCancel(t) \in Record
  /\ \A t \in TakeId, m \in MarkerId : TakeMarker(t, m) \in Record
  /\ Close \in Record
<1>1. \A I \in SUBSET Chunk : Chunks(I) \in Record
  BY DEF Record, ChunksRecord, Chunks
<1>2. \A hs \in HistoryState, I \in SUBSET Chunk : Checkpoint(hs, I) \in Record
  BY DEF Record, CheckpointRecord, Checkpoint
<1>3. \A q \in Nat, e \in EditOps, t \in TakeId \cup {NoTake}, sh \in BOOLEAN :
       Edit(q, e, t, sh) \in Record
  BY DEF Record, EditRecord, Edit
<1>4. \A q \in Nat : UndoRec(q) \in Record /\ RedoRec(q) \in Record /\ Saved(q) \in Record
                    /\ DropUndo(q) \in Record
  BY DEF Record, SeqRecord, CountRecord, UndoRec, RedoRec, Saved, DropUndo
<1>5. \A t \in TakeId, al \in BOOLEAN : TakeBegin(t, al) \in Record
  BY DEF Record, BeginRecord, TakeBegin
<1>6. \A t \in TakeId : TakeWindow(t) \in Record /\ TakeDiscard(t) \in Record
                       /\ TakeCancel(t) \in Record
  BY DEF Record, TakeRecord, TakeWindow, TakeDiscard, TakeCancel
<1>7. \A t \in TakeId, m \in MarkerId : TakeMarker(t, m) \in Record
  BY DEF Record, MarkerRecord, TakeMarker
<1>8. Close \in Record
  BY DEF Record
<1> QED BY <1>1, <1>2, <1>3, <1>4, <1>5, <1>6, <1>7, <1>8

\* One record that fits.
LEMMA OneFollows ==
  ASSUME NEW L, NEW w, Fine(L, w), NEW x \in Record, x.type # "checkpoint",
         Fits(State(L), Summary(L), x, w)
  PROVE  /\ Follows(L, <<x>>, w)
         /\ L \o <<x>> = Append(L, x)
         /\ State(L \o <<x>>) = Applied(State(L), x)
         /\ IdsIn(<<x>>) = IdsOf(x)
<1>1. Fine(Append(L, x), w) /\ State(Append(L, x)) = Applied(State(L), x)
  BY FineAppend
<1>2. Follows(L, <<x>>, w)
  BY <1>1, FollowsOne
<1>3. L \in Seq(Record)
  BY DEF Fine, JournalRecords
<1>4. L \o <<x>> = Append(L, x) /\ IdsIn(<<x>>) = IdsOf(x)
  BY <1>3, OneIs
<1> QED BY <1>1, <1>2, <1>4

\* Two that fit one after the other.
LEMMA TwoFollow ==
  ASSUME NEW L, NEW w, Fine(L, w), NEW x \in Record, x.type # "checkpoint",
         Fits(State(L), Summary(L), x, w),
         NEW y \in Record, y.type # "checkpoint",
         Fits(Applied(State(L), x), Summarized(Summary(L), x), y, w)
  PROVE  /\ Follows(L, <<x, y>>, w)
         /\ Follows(Append(L, x), <<y>>, w)
         /\ State(L \o <<x, y>>) = Applied(Applied(State(L), x), y)
<1> DEFINE M == Append(L, x)
<1>1. Fine(M, w) /\ State(M) = Applied(State(L), x)
  BY FineAppend
<1>2. L \in Seq(Record)
  BY DEF Fine, JournalRecords
<1>3. Summary(M) = Summarized(Summary(L), x)
  BY <1>2, SummaryOfAppend
<1>4. Fits(State(M), Summary(M), y, w)
  BY <1>1, <1>3
<1> HIDE DEF M
<1>5. Fine(Append(M, y), w) /\ State(Append(M, y)) = Applied(State(M), y)
  BY <1>1, <1>4, FineAppend
<1>6. Follows(L, <<x, y>>, w)
  BY <1>1, <1>5, FollowsTwo DEF M
<1>7. L \o <<x, y>> = Append(M, y)
  BY <1>2, TwoIs DEF M
<1>9. Follows(M, <<y>>, w)
  BY <1>1, <1>4, OneFollows
<1> QED BY <1>1, <1>5, <1>6, <1>7, <1>9 DEF M

\* A record that fits leaves the state standing.
LEMMA FitsStands ==
  ASSUME NEW r, NEW s, NEW x, NEW w, Fits(r, s, x, w)
  PROVE  Standing(Applied(r, x), Summarized(s, x), w)
BY DEF Fits, Standing

\* An edit whose chunks the journal has.
LEMMA EditFollows ==
  ASSUME NEW L, NEW w, Fine(L, w), NEW e \in EditOps, NEW t \in TakeId \cup {NoTake},
         NEW sh \in BOOLEAN, e.ins \subseteq State(L).ids, Prepares(State(L).hist, e),
         \A u \in State(L).open : u # t => State(L).markers[u] \cap e.madd = {}
  PROVE  LET x == Edit(State(L).hist.next_seq, e, t, sh) IN
         /\ Follows(L, <<x>>, w)
         /\ State(L \o <<x>>) = Edited(State(L), State(L).ids, e, t)
         /\ IdsIn(<<x>>) = e.ins
<1> DEFINE r == State(L)
           s == Summary(L)
           q == r.hist.next_seq
           x == Edit(q, e, t, sh)
<1>1. Standing(r, s, w)
  BY FineSound
<1> HIDE DEF r, s
<1>2. /\ e.ins \subseteq r.ids /\ Prepares(r.hist, e)
      /\ \A u \in r.open : u # t => r.markers[u] \cap e.madd = {}
  BY DEF r
<1>3. Fits(r, s, x, w) /\ q \in Nat
  BY <1>1, <1>2, EditFits
<1>4. x \in Record
  BY <1>3, RecordsAre
<1>5. x.type # "checkpoint" /\ IdsOf(x) = e.ins
  BY DEF Edit, IdsOf
<1>6. Applied(r, x) = Edited(r, r.ids, e, t)
  <2>1. r \in ReplayState
    BY <1>1, StandingParts
  <2> QED BY <2>1, AppliedEdited
<1> HIDE DEF x
<1>7. /\ Follows(L, <<x>>, w) /\ State(L \o <<x>>) = Applied(r, x) /\ IdsIn(<<x>>) = IdsOf(x)
  BY <1>3, <1>4, <1>5, OneFollows DEF r, s
<1> QED BY <1>5, <1>6, <1>7 DEF x, q, r

\* recs may follow L, and bring in the chunks I and the state r.
Yields(L, recs, w, r, I) ==
  Follows(L, recs, w) /\ State(L \o recs) = r /\ IdsIn(recs) = I

\* An edit with new chunks.
LEMMA ChunksEditFollow ==
  ASSUME NEW L, NEW w, Fine(L, w), NEW e \in EditOps, NEW t \in TakeId \cup {NoTake},
         NEW sh \in BOOLEAN, NEW I \in SUBSET Chunk,
         e.ins \subseteq State(L).ids \cup I, Prepares(State(L).hist, e),
         \A u \in State(L).open : u # t => State(L).markers[u] \cap e.madd = {}
  PROVE  Yields(L, <<Chunks(I), Edit(State(L).hist.next_seq, e, t, sh)>>, w,
                Edited(State(L), State(L).ids \cup I, e, t), I \cup e.ins)
<1> DEFINE r == State(L)
           s == Summary(L)
           q == r.hist.next_seq
           x == Chunks(I)
           y == Edit(q, e, t, sh)
           r1 == [hist |-> r.hist, ids |-> r.ids \cup I, open |-> r.open,
                  windowed |-> r.windowed, markers |-> r.markers, max_take |-> r.max_take]
           s1 == Summarized(s, x)
<1>1. Standing(r, s, w)
  BY FineSound
<1>2. r \in ReplayState
  BY <1>1, StandingParts
<1> HIDE DEF r, s
<1>3. Fits(r, s, x, w) /\ x \in Record /\ x.type # "checkpoint" /\ IdsOf(x) = I
  BY <1>1, ChunksFit, RecordsAre DEF Chunks, IdsOf
<1>4. Applied(r, x) = r1
  BY <1>2, AppliedChunks
<1>5. /\ r1.hist = r.hist /\ r1.ids = r.ids \cup I /\ r1.open = r.open
      /\ r1.windowed = r.windowed /\ r1.markers = r.markers /\ r1.max_take = r.max_take
  OBVIOUS
<1>6. /\ e.ins \subseteq r.ids \cup I /\ Prepares(r.hist, e)
      /\ \A u \in r.open : u # t => r.markers[u] \cap e.madd = {}
  BY DEF r
<1> HIDE DEF r1, s1, x
<1>7. Standing(r1, s1, w)
  BY <1>3, <1>4, FitsStands DEF s1
<1>8. Fits(r1, s1, Edit(r1.hist.next_seq, e, t, sh), w) /\ r1.hist.next_seq \in Nat
  <2>1. /\ e.ins \subseteq r1.ids /\ Prepares(r1.hist, e)
        /\ \A u \in r1.open : u # t => r1.markers[u] \cap e.madd = {}
    BY <1>5, <1>6
  <2> QED BY <1>7, <2>1, EditFits
<1>9. Fits(r1, s1, y, w) /\ q \in Nat
  BY <1>5, <1>8
<1>10. y \in Record
  BY <1>9, RecordsAre
<1>11. y.type # "checkpoint" /\ IdsOf(y) = e.ins
  BY DEF Edit, IdsOf
<1>12. Applied(r1, y) = Edited(r, r.ids \cup I, e, t)
  <2>1. r1 \in ReplayState
    BY <1>7, StandingParts
  <2>2. Applied(r1, y) = Edited(r1, r1.ids, e, t)
    BY <2>1, AppliedEdited
  <2> QED BY <1>5, <2>2 DEF Edited
<1> HIDE DEF y
<1>13. Fits(Applied(State(L), x), Summarized(Summary(L), x), y, w)
  BY <1>4, <1>9 DEF r, s, s1
<1>14. /\ Follows(L, <<x, y>>, w)
       /\ State(L \o <<x, y>>) = Applied(Applied(State(L), x), y)
       /\ IdsIn(<<x, y>>) = IdsOf(x) \cup IdsOf(y)
  <2>1. Fine(L, w) /\ Fits(State(L), Summary(L), x, w)
    BY <1>3 DEF r, s
  <2>2. \A a \in Record, b \in Record :
           /\ a.type # "checkpoint" /\ Fits(State(L), Summary(L), a, w)
           /\ b.type # "checkpoint"
           /\ Fits(Applied(State(L), a), Summarized(Summary(L), a), b, w)
           => /\ Follows(L, <<a, b>>, w)
              /\ State(L \o <<a, b>>) = Applied(Applied(State(L), a), b)
    BY ONLY <2>1, TwoFollow
  <2>3. IdsIn(<<x, y>>) = IdsOf(x) \cup IdsOf(y)
    <3>1. x \in Record /\ y \in Record
      BY <1>3, <1>10
    <3> QED BY ONLY <3>1, PairIds
  <2> QED BY ONLY <1>3, <1>10, <1>11, <1>13, <2>1, <2>2, <2>3
<1>15. Applied(Applied(State(L), x), y) = Edited(r, r.ids \cup I, e, t)
  BY <1>4, <1>12 DEF r
<1> QED BY <1>3, <1>11, <1>14, <1>15 DEF x, y, q, r, Yields

\* What commit_internal writes.
Commits(L, recs, w, e, t) ==
  /\ Follows(L, recs, w)
  /\ State(L \o recs) = Edited(State(L), State(L).ids \cup (e.ins \ State(L).ids), e, t)
  /\ IdsIn(recs) = e.ins

\* The records of commit_internal: the edit, and its new chunks before it.
LEMMA CommitFollows ==
  ASSUME NEW L, NEW w, Fine(L, w), NEW e \in EditOps, NEW t \in TakeId \cup {NoTake},
         NEW sh \in BOOLEAN, Prepares(State(L).hist, e),
         \A u \in State(L).open : u # t => State(L).markers[u] \cap e.madd = {}
  PROVE  LET new  == e.ins \ State(L).ids
             y    == Edit(State(L).hist.next_seq, e, t, sh)
             recs == (IF new = {} THEN <<>> ELSE <<Chunks(new)>>) \o <<y>>
         IN  Commits(L, recs, w, e, t)
<1> DEFINE J    == State(L).ids
           new  == e.ins \ J
           y    == Edit(State(L).hist.next_seq, e, t, sh)
           recs == (IF new = {} THEN <<>> ELSE <<Chunks(new)>>) \o <<y>>
           E    == {y, Chunks(new)}
<1> SUFFICES /\ Follows(L, recs, w)
             /\ State(L \o recs) = Edited(State(L), State(L).ids \cup new, e, t)
             /\ IdsIn(recs) = e.ins
  BY DEF Commits
<1>0. new \in SUBSET Chunk /\ e.ins \subseteq J \cup new /\ new \cup e.ins = e.ins
  BY DEF EditOps
<1>1. CASE new = {}
  <2>1. recs = <<y>>
    <3>1. <<>> \o <<y>> = <<y>>
      <4>1. <<>> \in Seq(E) /\ <<>> \o <<y>> = Append(<<>>, y)
        BY OneIs
      <4> QED BY <4>1
    <3> QED BY <1>1, <3>1
  <2>2. e.ins \subseteq J /\ J \cup new = J
    BY <1>1
  <2>3. /\ Follows(L, <<y>>, w) /\ State(L \o <<y>>) = Edited(State(L), State(L).ids, e, t)
        /\ IdsIn(<<y>>) = e.ins
    BY <2>2, EditFollows
  <2> HIDE DEF recs, y, J
  <2> QED BY <2>1, <2>2, <2>3 DEF recs, y, J
<1>2. CASE new # {}
  <2>1. recs = <<Chunks(new), y>>
    <3>1. <<Chunks(new)>> \o <<y>> = <<Chunks(new), y>>
      <4>1. Chunks(new) \in E /\ y \in E
        OBVIOUS
      <4> HIDE DEF E, y, new
      <4> QED BY <4>1, PairIs
    <3> QED BY <1>2, <3>1
  <2>2. /\ Follows(L, <<Chunks(new), y>>, w)
        /\ State(L \o <<Chunks(new), y>>) = Edited(State(L), State(L).ids \cup new, e, t)
        /\ IdsIn(<<Chunks(new), y>>) = new \cup e.ins
    <3> HIDE DEF new
    <3>1. Yields(L, <<Chunks(new), y>>, w, Edited(State(L), J \cup new, e, t),
                 new \cup e.ins)
      BY <1>0, ChunksEditFollow
    <3> QED BY <3>1 DEF Yields
  <2>3. IdsIn(<<Chunks(new), y>>) = e.ins
    BY <1>0, <2>2
  <2> QED BY <2>1, <2>2, <2>3
<1> QED BY <1>1, <1>2

-----------------------------------------------------------------------------
(* The records of one call, and what a replay of them does to a history. *)

\* A journal that replays applied its last record.
LEMMA FineStep ==
  ASSUME NEW L, NEW w, Fine(L, w), NEW x \in Record, x.type # "checkpoint",
         NEW v, Fine(Append(L, x), v)
  PROVE  Applies(State(L), x) /\ State(Append(L, x)) = Applied(State(L), x)
<1> DEFINE a == Replay(L)
           b == Replay(Append(L, x))
<1>1. L \in JournalRecords /\ Sound(L, w) /\ Sound(Append(L, x), v)
  BY FineSound
<1>2. b = ReplayStep(a, x)
  BY <1>1, ReplayOfAppend
<1>3. a.stopped = FALSE /\ b.stopped = FALSE
  <2>1. Replay(L) = [state |-> State(L), consumed |-> Len(L), stopped |-> FALSE]
    BY <1>1 DEF Sound
  <2>2. Replay(Append(L, x)) = [state |-> State(Append(L, x)), consumed |-> Len(Append(L, x)),
                                stopped |-> FALSE]
    BY <1>1 DEF Sound
  <2> QED BY <2>1, <2>2
<1>4. "stopped" \in DOMAIN a /\ "state" \in DOMAIN a /\ a.state = State(L)
  <2>1. Replay(L) = [state |-> State(L), consumed |-> Len(L), stopped |-> FALSE]
    BY <1>1 DEF Sound
  <2> QED BY <2>1
<1>5. b.state = State(Append(L, x))
  BY DEF State
<1> HIDE DEF a, b
<1>6. CASE ~Applies(a.state, x)
  <2>1. b = [a EXCEPT !.stopped = TRUE]
    BY <1>2, <1>6 DEF ReplayStep
  <2>2. b.stopped = TRUE
    BY <1>4, <2>1
  <2> QED BY <1>3, <2>2
<1>7. CASE Applies(a.state, x)
  <2>1. b = [a EXCEPT !.state = Applied(@, x), !.consumed = @ + 1]
    BY <1>2, <1>3, <1>7 DEF ReplayStep
  <2>2. b.state = Applied(a.state, x)
    BY <1>4, <2>1
  <2> QED BY <1>4, <1>5, <1>7, <2>2
<1> QED BY <1>6, <1>7

\* The takes whose audio an edit record says was cut short.
ShortIn(recs) == {recs[i].take : i \in {j \in DOMAIN recs : recs[j].type = "edit" /\ recs[j].short}}

\* The chunks the edits of the records put into the document.
InsIn(recs) == UNION {recs[i].ops.ins : i \in {j \in DOMAIN recs : recs[j].type = "edit"}}

\* One record takes a history one call further.
LEMMA RecordCalls ==
  ASSUME NEW r, GoodState(r), NEW x \in Record, x.type # "checkpoint", Applies(r, x)
  PROVE  /\ OneCall(r.hist, Applied(r, x).hist, x.type = "drop_undo", x.type = "saved")
         /\ x.type \notin {"edit", "undo", "redo", "drop_undo", "saved"} =>
              Applied(r, x).hist = r.hist
         /\ Live(Applied(r, x).hist) \subseteq
              Live(r.hist) \cup (IF x.type = "edit" THEN x.ops.ins ELSE {})
<1> DEFINE hs == r.hist
           ha == Applied(r, x).hist
<1>1. r \in ReplayState /\ hs \in HistoryState
  BY GoodParts, ReplayParts
<1>2. "hist" \in DOMAIN r
  BY <1>1 DEF ReplayState
<1>3. ha = IF x.type = "chunks" THEN hs ELSE ReplayedHistory(hs, x)
  <2> DEFINE q == IF x.type = "chunks" THEN [r EXCEPT !.ids = @ \cup x.ids]
                  ELSE [r EXCEPT !.hist = ReplayedHistory(@, x)]
  <2>1. q.hist = IF x.type = "chunks" THEN hs ELSE ReplayedHistory(hs, x)
    BY <1>2
  <2>2. DOMAIN q = {"hist", "ids", "open", "windowed", "markers", "max_take"}
    BY <1>1 DEF ReplayState
  <2>3. Applied(r, x) = NoteMetadata(q, x)
    BY DEF Applied
  <2> HIDE DEF q
  <2>4. NoteMetadata(q, x).hist = q.hist
    BY <2>2 DEF NoteMetadata
  <2> QED BY <2>1, <2>3, <2>4
<1> HIDE DEF ha
<1>4. CASE x.type = "edit"
  <2>1. x.ops \in EditOps
    BY <1>4 DEF Record, CheckpointRecord, ChunksRecord, EditRecord, SeqRecord, CountRecord,
                BeginRecord, TakeRecord, MarkerRecord, Close
  <2>2. ha = Commit(hs, x.ops)
    BY <1>3, <1>4 DEF ReplayedHistory
  <2>3. Live(ha) \subseteq Live(hs) \cup x.ops.ins
    BY <1>1, <2>1, <2>2, LiveSteps
  <2> QED BY <1>4, <2>1, <2>2, <2>3 DEF OneCall, ha
<1>5. CASE x.type = "undo"
  <2>1. ha = Undone(hs) /\ hs.undo # <<>>
    BY <1>3, <1>5 DEF ReplayedHistory, Applies
  <2>2. Live(ha) \subseteq Live(hs)
    BY <1>1, <2>1, LiveSteps
  <2> QED BY <1>5, <2>1, <2>2 DEF OneCall, ha
<1>6. CASE x.type = "redo"
  <2>1. ha = Redone(hs) /\ hs.redo # <<>>
    BY <1>3, <1>6 DEF ReplayedHistory, Applies
  <2>2. Live(ha) \subseteq Live(hs)
    BY <1>1, <2>1, LiveSteps
  <2> QED BY <1>6, <2>1, <2>2 DEF OneCall, ha
<1>7. CASE x.type = "saved"
  <2>1. x.seq \in Nat
    BY <1>7 DEF Record, CheckpointRecord, ChunksRecord, EditRecord, SeqRecord, CountRecord,
                BeginRecord, TakeRecord, MarkerRecord, Close
  <2>2. ha = MarkedSavedAt(hs, x.seq)
    BY <1>3, <1>7 DEF ReplayedHistory
  <2>3. Live(ha) = Live(hs)
    BY <1>1, <2>1, <2>2, LiveSteps
  <2> QED BY <1>7, <2>1, <2>2, <2>3 DEF OneCall, ha
<1>8. CASE x.type = "drop_undo"
  <2> DEFINE n == Least(x.count, Len(hs.undo))
  <2>1. x.count \in Nat
    BY <1>8 DEF Record, CheckpointRecord, ChunksRecord, EditRecord, SeqRecord, CountRecord,
                BeginRecord, TakeRecord, MarkerRecord, Close
  <2>2. ha = DroppedOldest(hs, n)
    BY <1>3, <1>8 DEF ReplayedHistory
  <2>3. n = 0 \/ n \in 1..Len(hs.undo)
    <3>1. Len(hs.undo) \in Nat
      BY <1>1, StackShape
    <3> QED BY <2>1, <3>1 DEF Least
  <2> HIDE DEF n
  <2>4. CASE n = 0
    <3>1. ha = hs
      BY <1>1, <2>2, <2>4, DroppedNone
    <3> QED BY <1>8, <3>1 DEF OneCall, ha
  <2>5. CASE n \in 1..Len(hs.undo)
    <3>1. Live(ha) \subseteq Live(hs)
      BY <1>1, <2>2, <2>5, LiveSteps
    <3> QED BY <1>8, <2>2, <2>5, <3>1 DEF OneCall, ha
  <2> QED BY <2>3, <2>4, <2>5
<1>9. CASE x.type \notin {"edit", "undo", "redo", "drop_undo", "saved"}
  <2>1. ha = hs
    BY <1>3, <1>9 DEF ReplayedHistory
  <2> QED BY <1>9, <2>1 DEF OneCall, ha
<1> QED BY <1>4, <1>5, <1>6, <1>7, <1>8, <1>9

\* A record a call writes; what it does shows in g.
Backed(x, g) ==
  /\ x \in Record /\ x.type # "checkpoint"
  /\ x.type = "saved" => g.unmarked
  /\ x.type = "drop_undo" => g.floorMoved
  /\ x.type = "close" => g.closing

\* The records of one call: one, which a chunks record or the begin of a take
\* may lead.
CallRecs(recs, g) ==
  \/ recs = <<>>
  \/ \E x \in Record :
       /\ Backed(x, g)
       /\ recs = <<x>> \/ \E y \in ChunksRecord \cup BeginRecord : recs = <<y, x>>

\* g is what f became.
Grows(f, g) ==
  /\ f.unmarked => g.unmarked
  /\ f.floorMoved => g.floorMoved
  /\ f.closing => g.closing

\* What leads the record of a call changes no document.
LEMMA LeadIs ==
  ASSUME NEW y \in ChunksRecord \cup BeginRecord
  PROVE  y \in Record /\ y.type \in {"chunks", "take_begin"} /\ \A g : Backed(y, g)
<1>1. y \in Record /\ y.type \in {"chunks", "take_begin"}
  BY DEF Record, ChunksRecord, BeginRecord
<1> QED BY <1>1 DEF Backed

\* The records of a call are records, and so are their beginnings.
LEMMA CallPrefix ==
  ASSUME NEW recs, NEW g, CallRecs(recs, g)
  PROVE  /\ recs \in Seq(Record) /\ Len(recs) \in Nat
         /\ \A i \in DOMAIN recs : Backed(recs[i], g)
         /\ \A k \in 0..Len(recs) : CallRecs(SubSeq(recs, 1, k), g)
<1>0. CallRecs(<<>>, g)
  BY DEF CallRecs
<1>1. CASE recs = <<>>
  <2>1. recs \in Seq(Record) /\ Len(recs) = 0
    BY <1>1
  <2>2. DOMAIN recs = {}
    BY <1>1
  <2>3. SubSeq(recs, 1, 0) = <<>>
    BY <1>1
  <2>5. \A i \in DOMAIN recs : Backed(recs[i], g)
    BY <2>2
  <2>6. \A k \in 0..Len(recs) : CallRecs(SubSeq(recs, 1, k), g)
    <3> TAKE k \in 0..Len(recs)
    <3>1. k = 0
      BY <2>1
    <3> QED BY <1>0, <2>3, <3>1
  <2> QED BY <2>1, <2>5, <2>6
<1>2. ASSUME NEW x \in Record, Backed(x, g), recs = <<x>>
      PROVE  /\ recs \in Seq(Record) /\ Len(recs) \in Nat
             /\ \A i \in DOMAIN recs : Backed(recs[i], g)
             /\ \A k \in 0..Len(recs) : CallRecs(SubSeq(recs, 1, k), g)
  <2>0. <<>> \in Seq(Record)
    OBVIOUS
  <2>1. /\ recs \in Seq(Record) /\ Len(recs) = 1
        /\ SubSeq(recs, 1, 0) = <<>> /\ SubSeq(recs, 1, 1) = recs
    BY <1>2, <2>0, OneIs
  <2>2. DOMAIN recs = {1} /\ recs[1] = x
    BY <1>2
  <2>3. CallRecs(recs, g)
    OBVIOUS
  <2>4. \A k \in 0..1 : k = 0 \/ k = 1
    OBVIOUS
  <2> QED BY <1>0, <1>2, <2>1, <2>2, <2>3, <2>4
<1>3. ASSUME NEW x \in Record, Backed(x, g), NEW y \in ChunksRecord \cup BeginRecord,
             recs = <<y, x>>
      PROVE  /\ recs \in Seq(Record) /\ Len(recs) \in Nat
             /\ \A i \in DOMAIN recs : Backed(recs[i], g)
             /\ \A k \in 0..Len(recs) : CallRecs(SubSeq(recs, 1, k), g)
  <2>0. y \in Record /\ Backed(y, g)
    BY LeadIs
  <2>1. /\ recs \in Seq(Record) /\ Len(recs) = 2
        /\ SubSeq(recs, 1, 0) = <<>> /\ SubSeq(recs, 1, 1) = <<y>> /\ SubSeq(recs, 1, 2) = recs
    BY <1>3, <2>0, PairIs
  <2>2. DOMAIN recs = {1, 2} /\ recs[1] = y /\ recs[2] = x
    BY <1>3
  <2>3. CallRecs(recs, g) /\ CallRecs(<<y>>, g)
    BY <2>0 DEF CallRecs
  <2>4. \A k \in 0..2 : k = 0 \/ k = 1 \/ k = 2
    OBVIOUS
  <2> QED BY <1>0, <1>3, <2>0, <2>1, <2>2, <2>3, <2>4
<1> QED BY <1>1, <1>2, <1>3 DEF CallRecs

\* What they do stays visible.
LEMMA CallGrows ==
  ASSUME NEW recs, NEW f, NEW g, CallRecs(recs, f), Grows(f, g)
  PROVE  CallRecs(recs, g)
<1>1. \A x : Backed(x, f) => Backed(x, g)
  BY DEF Backed, Grows
<1> QED BY <1>1 DEF CallRecs

\* OneCall, for a record that is backed.
LEMMA BackedCalls ==
  ASSUME NEW r, GoodState(r), NEW x \in Record, NEW g, Backed(x, g), Applies(r, x)
  PROVE  OneCall(r.hist, Applied(r, x).hist, g.floorMoved, g.unmarked)
<1> DEFINE c == r.hist
           b == Applied(r, x).hist
<1>1. OneCall(c, b, x.type = "drop_undo", x.type = "saved")
  BY RecordCalls DEF Backed
<1>2. (x.type = "drop_undo" => g.floorMoved) /\ (x.type = "saved" => g.unmarked)
  BY DEF Backed
<1> HIDE DEF b, c
<1>3. OneCall(c, b, g.floorMoved, g.unmarked)
  BY <1>1, <1>2 DEF OneCall
<1> QED BY <1>3 DEF b, c

\* Replayed, they take the history in memory at most one call further, which adds
\* no chunks but those of its edit.
LEMMA CallAhead ==
  ASSUME NEW L, NEW w, Fine(L, w), NEW recs, NEW g, CallRecs(recs, g),
         NEW v, Fine(L \o recs, v), NEW a \in HistoryState, SameHistory(State(L).hist, a)
  PROVE  /\ Ahead(a, State(L \o recs).hist, g.floorMoved, g.unmarked)
         /\ Live(State(L \o recs).hist) \subseteq Live(a) \cup InsIn(recs)
<1> DEFINE c == State(L).hist
           b == State(L \o recs).hist
<1>0. /\ L \in JournalRecords /\ L \in Seq(Record) /\ GoodState(State(L))
  BY FineSound DEF Sound, JournalRecords
<1>1. c \in HistoryState
  BY <1>0, GoodParts
<1>2. Alike(a, c) /\ Live(c) = Live(a)
  <2>1. Live(c) = Live(a)
    BY <1>1, SameIs
  <2> QED BY <2>1 DEF Alike, SameHistory
<1> SUFFICES OneCall(c, b, g.floorMoved, g.unmarked) /\ Live(b) \subseteq Live(c) \cup InsIn(recs)
  BY <1>1, <1>2 DEF Ahead
<1>3. CASE recs = <<>>
  <2>1. L \o recs = L
    BY <1>0, <1>3
  <2> QED BY <2>1 DEF OneCall
<1>4. ASSUME NEW x \in Record, Backed(x, g), recs = <<x>>
      PROVE  OneCall(c, b, g.floorMoved, g.unmarked) /\ Live(b) \subseteq Live(c) \cup InsIn(recs)
  <2>1. L \o recs = Append(L, x)
    BY <1>0, <1>4, OneIs
  <2>2. x.type # "checkpoint"
    BY <1>4 DEF Backed
  <2>3. Applies(State(L), x) /\ State(L \o recs) = Applied(State(L), x)
    BY <2>1, <2>2, FineStep
  <2>4. OneCall(c, b, g.floorMoved, g.unmarked)
    BY <1>0, <1>4, <2>3, BackedCalls
  <2>5. Live(b) \subseteq Live(c) \cup (IF x.type = "edit" THEN x.ops.ins ELSE {})
    BY <1>0, <2>2, <2>3, RecordCalls
  <2>6. x.type = "edit" => x.ops.ins \subseteq InsIn(recs)
    <3>1. 1 \in DOMAIN recs /\ recs[1] = x
      BY <1>4
    <3> QED BY <3>1 DEF InsIn
  <2> QED BY <2>4, <2>5, <2>6
<1>5. ASSUME NEW x \in Record, Backed(x, g), NEW y \in ChunksRecord \cup BeginRecord,
             recs = <<y, x>>
      PROVE  OneCall(c, b, g.floorMoved, g.unmarked) /\ Live(b) \subseteq Live(c) \cup InsIn(recs)
  <2> DEFINE M == Append(L, y)
  <2>0. y \in Record /\ y.type \in {"chunks", "take_begin"}
    BY LeadIs
  <2>1. L \o recs = Append(M, x) /\ M \in Seq(Record)
    BY <1>0, <1>5, <2>0, TwoIs, OneIs
  <2>2. x.type # "checkpoint"
    BY <1>5 DEF Backed
  <2>3. Fine(M, v)
    <3>1. M \in JournalRecords /\ Len(M) \in Nat /\ Len(M) >= 1 /\ Len(M) \in 0..Len(M)
      <4>1. M \in JournalRecords
        BY <1>0, <2>0, AppendJournal
      <4> QED BY <4>1, JournalIs
    <3>2. SubSeq(Append(M, x), 1, Len(M)) = M
      <4>1. SubSeq(Append(M, x), 1, Len(M)) = SubSeq(M, 1, Len(M))
        BY <2>1, <3>1, PrefixOfAppend
      <4> QED BY <3>1, <4>1, JournalIs
    <3>3. Len(Append(M, x)) = Len(M) + 1
      BY <3>1, AppendJournal
    <3>4. Len(M) \in 1..Len(Append(M, x))
      BY <3>1, <3>3
    <3> HIDE DEF M
    <3>5. Fine(Append(M, x), v)
      BY <2>1
    <3>6. Fine(SubSeq(Append(M, x), 1, Len(M)), v)
      BY ONLY <3>4, <3>5, FinePrefix
    <3> QED BY <3>2, <3>6
  <2>4. Applies(State(L), y) /\ State(M) = Applied(State(L), y) /\ State(M).hist = c
    <3>1. Applies(State(L), y) /\ State(M) = Applied(State(L), y)
      BY <2>0, <2>3, FineStep
    <3>2. Applied(State(L), y).hist = c
      BY <1>0, <2>0, <3>1, RecordCalls
    <3> QED BY <3>1, <3>2
  <2> HIDE DEF M
  <2>5. Applies(State(M), x) /\ State(L \o recs) = Applied(State(M), x)
    BY <2>1, <2>2, <2>3, FineStep
  <2>6. GoodState(State(M))
    BY <2>3, FineSound DEF Sound
  <2>7. OneCall(c, b, g.floorMoved, g.unmarked)
    BY <1>5, <2>4, <2>5, <2>6, BackedCalls
  <2>8. Live(b) \subseteq Live(c) \cup (IF x.type = "edit" THEN x.ops.ins ELSE {})
    BY <2>2, <2>4, <2>5, <2>6, RecordCalls
  <2>9. x.type = "edit" => x.ops.ins \subseteq InsIn(recs)
    <3>1. 2 \in DOMAIN recs /\ recs[2] = x
      BY <1>5
    <3> QED BY <3>1 DEF InsIn
  <2> QED BY <2>7, <2>8, <2>9
<1> QED BY <1>3, <1>4, <1>5 DEF CallRecs

\* The records of a call, appended one by one to a journal that replays.
LEMMA CallCases ==
  ASSUME NEW L, NEW w, Fine(L, w), NEW recs, NEW g, CallRecs(recs, g),
         NEW v, Fine(L \o recs, v)
  PROVE  \/ recs = <<>> /\ L \o recs = L
         \/ \E x \in Record : Backed(x, g) /\ recs = <<x>> /\ L \o recs = Append(L, x)
         \/ \E x \in Record, y \in ChunksRecord \cup BeginRecord :
              /\ Backed(x, g) /\ recs = <<y, x>> /\ L \o recs = Append(Append(L, y), x)
              /\ y \in Record /\ y.type \in {"chunks", "take_begin"} /\ Fine(Append(L, y), v)
<1>0. L \in JournalRecords /\ L \in Seq(Record)
  BY FineSound DEF JournalRecords
<1>3. CASE recs = <<>>
  BY <1>0, <1>3
<1>4. ASSUME NEW x \in Record, Backed(x, g), recs = <<x>>
      PROVE  L \o recs = Append(L, x)
  BY <1>0, <1>4, OneIs
<1>5. ASSUME NEW x \in Record, Backed(x, g), NEW y \in ChunksRecord \cup BeginRecord,
             recs = <<y, x>>
      PROVE  /\ L \o recs = Append(Append(L, y), x)
             /\ y \in Record /\ y.type \in {"chunks", "take_begin"} /\ Fine(Append(L, y), v)
  <2> DEFINE M == Append(L, y)
  <2>0. y \in Record /\ y.type \in {"chunks", "take_begin"}
    BY LeadIs
  <2>1. L \o recs = Append(M, x) /\ M \in Seq(Record)
    BY <1>0, <1>5, <2>0, TwoIs, OneIs
  <2>2. M \in JournalRecords /\ Len(M) \in Nat /\ Len(M) >= 1 /\ Len(M) \in 0..Len(M)
    <3>1. M \in JournalRecords
      BY <1>0, <2>0, AppendJournal
    <3> QED BY <3>1, JournalIs
  <2>3. SubSeq(Append(M, x), 1, Len(M)) = M
    <3>1. SubSeq(Append(M, x), 1, Len(M)) = SubSeq(M, 1, Len(M))
      BY <2>1, <2>2, PrefixOfAppend
    <3> QED BY <2>2, <3>1, JournalIs
  <2>4. Len(Append(M, x)) = Len(M) + 1
    BY <2>2, AppendJournal
  <2>5. Len(M) \in 1..Len(Append(M, x))
    BY <2>2, <2>4
  <2> HIDE DEF M
  <2>6. Fine(Append(M, x), v)
    BY <2>1
  <2>7. Fine(SubSeq(Append(M, x), 1, Len(M)), v)
    BY ONLY <2>5, <2>6, FinePrefix
  <2> QED BY <2>0, <2>1, <2>3, <2>7 DEF M
<1> QED BY <1>3, <1>4, <1>5 DEF CallRecs

-----------------------------------------------------------------------------
(* What every beginning of a journal replays to. *)

\* It may stand in a checkpoint.
AllSane(L) == \A n \in 1..Len(L) : Sane(State(SubSeq(L, 1, n)).hist)

\* So may the whole, and so do its beginnings.
LEMMA SanePrefix ==
  ASSUME NEW L \in JournalRecords, AllSane(L)
  PROVE  /\ Sane(State(L).hist)
         /\ \A n \in 1..Len(L) : AllSane(SubSeq(L, 1, n))
<1>1. L \in Seq(Record) /\ Len(L) \in Nat /\ Len(L) >= 1 /\ SubSeq(L, 1, Len(L)) = L
  BY JournalIs
<1>2. Sane(State(L).hist)
  <2>1. Len(L) \in 1..Len(L)
    BY <1>1
  <2>2. Sane(State(SubSeq(L, 1, Len(L))).hist)
    BY <2>1 DEF AllSane
  <2> QED BY <1>1, <2>2
<1>3. ASSUME NEW n \in 1..Len(L)
      PROVE  AllSane(SubSeq(L, 1, n))
  <2>1. n \in 0..Len(L) /\ n \in Nat
    BY <1>1
  <2>2. Len(SubSeq(L, 1, n)) = n
    BY <1>1, <2>1, PrefixProperties
  <2>3. ASSUME NEW k \in 1..n
        PROVE  Sane(State(SubSeq(SubSeq(L, 1, n), 1, k)).hist)
    <3>1. k \in 0..n /\ k \in 1..Len(L)
      BY <1>1, <2>1
    <3>2. SubSeq(SubSeq(L, 1, n), 1, k) = SubSeq(L, 1, k)
      BY <1>1, <2>1, <3>1, PrefixOfPrefix
    <3> QED BY <3>1, <3>2 DEF AllSane
  <2> QED BY <2>2, <2>3 DEF AllSane
<1> QED BY <1>2, <1>3

\* One more record.
LEMMA SaneLonger ==
  ASSUME NEW L \in JournalRecords, AllSane(L), NEW x \in Record,
         Sane(State(Append(L, x)).hist)
  PROVE  AllSane(Append(L, x))
<1> DEFINE M == Append(L, x)
<1>1. L \in Seq(Record) /\ Len(L) \in Nat
  BY JournalIs
<1>2. M \in JournalRecords /\ Len(M) = Len(L) + 1
  BY AppendJournal
<1>3. ASSUME NEW n \in 1..Len(M)
      PROVE  Sane(State(SubSeq(M, 1, n)).hist)
  <2>1. CASE n \in 1..Len(L)
    <3>1. n \in 0..Len(L)
      BY <1>1, <2>1
    <3>2. SubSeq(M, 1, n) = SubSeq(L, 1, n)
      BY <1>1, <3>1, PrefixOfAppend
    <3> QED BY <2>1, <3>2 DEF AllSane
  <2>2. CASE n = Len(M)
    <3>1. SubSeq(M, 1, n) = M
      BY <1>2, <2>2, JournalIs
    <3> QED BY <3>1
  <2> QED BY <1>1, <1>2, <2>1, <2>2
<1> HIDE DEF M
<1>4. AllSane(M)
  BY <1>3 DEF AllSane
<1> QED BY <1>4 DEF M

\* One more record of a call.
LEMMA SaneStep ==
  ASSUME NEW L, NEW w, Fine(L, w), AllSane(L), NEW x \in Record, x.type # "checkpoint",
         NEW v, Fine(Append(L, x), v)
  PROVE  AllSane(Append(L, x))
<1>1. L \in JournalRecords /\ GoodState(State(L)) /\ State(L).hist \in HistoryState
  BY FineSound, GoodParts DEF Sound
<1>2. Applies(State(L), x) /\ State(Append(L, x)) = Applied(State(L), x)
  BY FineStep
<1>3. OneCall(State(L).hist, Applied(State(L), x).hist, x.type = "drop_undo", x.type = "saved")
  BY <1>1, <1>2, RecordCalls
<1>4. Sane(State(L).hist)
  BY <1>1, SanePrefix
<1>5. Sane(State(Append(L, x)).hist)
  <2> DEFINE c == State(L).hist
             b == Applied(State(L), x).hist
             f == x.type = "drop_undo"
             m == x.type = "saved"
  <2>1. c \in HistoryState /\ OneCall(c, b, f, m) /\ Sane(c)
    BY <1>1, <1>3, <1>4
  <2>2. State(Append(L, x)).hist = b
    BY <1>2
  <2> HIDE DEF b, c, f, m
  <2>3. Sane(b)
    BY ONLY <2>1, CallSane
  <2> QED BY <2>2, <2>3
<1> QED BY <1>1, <1>5, SaneLonger

\* The records of a call.
LEMMA SaneCall ==
  ASSUME NEW L, NEW w, Fine(L, w), AllSane(L), NEW recs, NEW g, CallRecs(recs, g),
         NEW v, Fine(L \o recs, v)
  PROVE  AllSane(L \o recs)
<1>1. CASE recs = <<>> /\ L \o recs = L
  BY <1>1
<1>2. ASSUME NEW x \in Record, Backed(x, g), L \o recs = Append(L, x)
      PROVE  AllSane(L \o recs)
  <2>1. x.type # "checkpoint"
    BY <1>2 DEF Backed
  <2> QED BY <1>2, <2>1, SaneStep
<1>3. ASSUME NEW x \in Record, Backed(x, g), NEW y \in Record,
             y.type \in {"chunks", "take_begin"}, Fine(Append(L, y), v),
             L \o recs = Append(Append(L, y), x)
      PROVE  AllSane(L \o recs)
  <2>1. x.type # "checkpoint" /\ y.type # "checkpoint"
    BY <1>3 DEF Backed
  <2>2. AllSane(Append(L, y))
    BY <1>3, <2>1, SaneStep
  <2> QED BY <1>3, <2>1, <2>2, SaneStep
<1> QED BY <1>1, <1>2, <1>3, CallCases

-----------------------------------------------------------------------------
(* The verdict of the scan. *)

\* Which takes are cut short, and whether the document was closed.
LEMMA SummarizedEnds ==
  ASSUME NEW s \in SummaryState, NEW x \in Record
  PROVE  /\ s.truncated \subseteq Summarized(s, x).truncated
         /\ x.type = "edit" /\ x.short => x.take \in Summarized(s, x).truncated
         /\ Summarized(s, x).closed <=> x.type = "close"
<1> DEFINE t == [s EXCEPT !.closed = FALSE]
<1>0. "closed" \in DOMAIN s /\ "truncated" \in DOMAIN s
  BY DEF SummaryState
<1>1. t.closed = FALSE /\ t.truncated = s.truncated /\ DOMAIN t = DOMAIN s
  BY <1>0
<1>2. DOMAIN s = {"closed", "undo", "redo", "saved_seq", "open", "pending", "truncated",
                  "inconsistent"}
  BY DEF SummaryState
<1> HIDE DEF t
<1>3. CASE x.type = "edit"
  <2>1. Summarized(s, x) =
          [t EXCEPT !.undo = Append(@, x.seq), !.redo = <<>>, !.open = @ \ {x.take},
                    !.truncated = IF x.short THEN @ \cup {x.take} ELSE @]
    BY <1>3 DEF Summarized, t
  <2>2. /\ Summarized(s, x).closed = t.closed
        /\ Summarized(s, x).truncated = IF x.short THEN t.truncated \cup {x.take}
                                                   ELSE t.truncated
    BY <1>1, <1>2, <2>1
  <2> QED BY <1>1, <1>3, <2>2
<1>4. CASE x.type = "close"
  <2>1. Summarized(s, x) = [t EXCEPT !.closed = TRUE]
    BY <1>4 DEF Summarized, t
  <2>2. Summarized(s, x).closed = TRUE /\ Summarized(s, x).truncated = t.truncated
    BY <1>1, <1>2, <2>1
  <2> QED BY <1>1, <1>4, <2>2
<1>5. CASE x.type \notin {"edit", "close"}
  <2>1. Summarized(s, x).closed = t.closed /\ Summarized(s, x).truncated = t.truncated
    BY <1>1, <1>2, <1>5 DEF Summarized, t
  <2> QED BY <1>1, <1>5, <2>1
<1> QED BY <1>3, <1>4, <1>5

\* A journal closed the document if that is its last record.
LEMMA ClosedIsLast ==
  ASSUME NEW L, NEW w, Fine(L, w), Summary(L).closed
  PROVE  Last(L).type = "close"
<1>1. L \in JournalRecords /\ L \in Seq(Record) /\ Len(L) \in Nat /\ Len(L) >= 1
      /\ DOMAIN L = 1..Len(L)
  BY JournalIs DEF Fine
<1>2. CASE Len(L) = 1
  <2>1. Plain(L) /\ L[1].type = "checkpoint"
    BY <1>1, <1>2, ShortIsPlain DEF JournalRecords
  <2> DEFINE x == L[1]
  <2>2. x \in Record /\ L = Append(<<>>, x) /\ <<>> \in Seq(Record)
    <3>1. x \in Record /\ <<>> \in Seq(Record)
      BY <1>1
    <3>2. Append(<<>>, x) \in Seq(Record) /\ Len(Append(<<>>, x)) = 1
          /\ Append(<<>>, x)[1] = x
      BY <3>1
    <3> HIDE DEF x
    <3>3. \A i \in 1..1 : L[i] = Append(<<>>, x)[i]
      BY <3>2 DEF x
    <3> QED BY <1>1, <1>2, <3>1, <3>2, <3>3, SeqEqual
  <2>3. Summary(L) = Summarized(Summary(<<>>), x)
    <3> HIDE DEF x
    <3>1. Summary(Append(<<>>, x)) = Summarized(Summary(<<>>), x)
      BY ONLY <2>2, SummaryOfAppend
    <3> QED BY <2>2, <3>1
  <2>4. Summary(<<>>) \in SummaryState
    BY PlainNone DEF Plain
  <2> HIDE DEF x
  <2>5. Summarized(Summary(<<>>), x).closed <=> x.type = "close"
    BY <2>2, <2>4, SummarizedEnds
  <2> QED BY <2>1, <2>3, <2>5 DEF x
<1>3. CASE Len(L) # 1
  <2> DEFINE n == Len(L) - 1
             M == SubSeq(L, 1, n)
             x == L[Len(L)]
  <2>1. n \in 1..Len(L) /\ n \in 0..Len(L) /\ Len(L) \in 1..Len(L)
    BY <1>1, <1>3
  <2>2. Fine(M, w) /\ x \in Record
    BY <1>1, <2>1, FinePrefix
  <2>3. M \in Seq(Record) /\ Len(M) = n /\ DOMAIN M = 1..n /\ \A i \in 1..n : M[i] = L[i]
    BY <1>1, <2>1, PrefixProperties
  <2>4. L = Append(M, x)
    <3> HIDE DEF M
    <3>1. /\ Append(M, x) \in Seq(Record) /\ Len(Append(M, x)) = Len(L)
          /\ Append(M, x)[Len(L)] = x /\ \A i \in 1..n : Append(M, x)[i] = M[i]
      <4> HIDE DEF x
      <4>1. M \in JournalRecords /\ x \in Record
        BY <2>2, FineSound
      <4>2. /\ Append(M, x) \in Seq(Record) /\ Len(Append(M, x)) = Len(M) + 1
            /\ Append(M, x)[Len(M) + 1] = x
            /\ \A i \in 1..Len(M) : Append(M, x)[i] = M[i]
        BY ONLY <4>1, AppendJournal
      <4>3. Len(M) = n /\ Len(M) + 1 = Len(L)
        BY <1>1, <2>3
      <4> HIDE DEF M, n
      <4> QED BY <4>2, <4>3
    <3>2. ASSUME NEW i \in 1..Len(L)
          PROVE  Append(M, x)[i] = L[i]
      <4> DEFINE k == Len(L)
      <4>1. k \in Nat /\ i \in 1..k
        BY <1>1
      <4> HIDE DEF k, M, x
      <4>2. i \in 1..(k - 1) \/ i = k
        BY ONLY <4>1
      <4>3. i \in 1..n \/ i = Len(L)
        BY <4>2 DEF k
      <4> HIDE DEF n
      <4> QED BY <2>3, <3>1, <4>3 DEF x
    <3> HIDE DEF x
    <3> QED BY <1>1, <3>1, <3>2, SeqEqual
  <2> HIDE DEF M, x
  <2>5. Summary(L) = Summarized(Summary(M), x)
    BY <2>2, <2>3, <2>4, SummaryOfAppend
  <2>6. Summary(M) \in SummaryState
    <3>1. Standing(State(M), Summary(M), w)
      BY ONLY <2>2, FineSound
    <3> QED BY ONLY <3>1, StandingParts
  <2>7. x.type = "close"
    BY <2>2, <2>5, <2>6, SummarizedEnds
  <2> QED BY <2>7 DEF x, Last
<1> QED BY <1>2, <1>3

\* What the records of a call add to it.
LEMMA CallSummary ==
  ASSUME NEW L, NEW w, Fine(L, w), NEW recs, NEW g, CallRecs(recs, g),
         NEW v, Fine(L \o recs, v)
  PROVE  /\ Summary(L).truncated \cup ShortIn(recs) \subseteq Summary(L \o recs).truncated
         /\ Last(L \o recs).type = "close" => Last(L).type = "close" \/ g.closing
<1>1. L \in Seq(Record) /\ Summary(L) \in SummaryState /\ L \in JournalRecords
  BY FineSound, StandingParts DEF JournalRecords
<1>2. CASE recs = <<>> /\ L \o recs = L
  <2>1. ShortIn(recs) = {}
    BY <1>2 DEF ShortIn
  <2> QED BY <1>2, <2>1
<1>3. ASSUME NEW x \in Record, Backed(x, g), recs = <<x>>, L \o recs = Append(L, x)
      PROVE  /\ Summary(L).truncated \cup ShortIn(recs) \subseteq Summary(L \o recs).truncated
             /\ Last(L \o recs).type = "close" => g.closing
  <2>1. Summary(L \o recs) = Summarized(Summary(L), x)
    BY <1>1, <1>3, SummaryOfAppend
  <2>2. ShortIn(recs) \subseteq Summarized(Summary(L), x).truncated
    <3>1. DOMAIN recs = {1} /\ recs[1] = x
      BY <1>3
    <3>2. x.type = "edit" /\ x.short => x.take \in Summarized(Summary(L), x).truncated
      BY <1>1, SummarizedEnds
    <3> QED BY <3>1, <3>2 DEF ShortIn
  <2>3. Last(L \o recs) = x
    <3>1. Append(L, x)[Len(L) + 1] = x /\ Len(Append(L, x)) = Len(L) + 1
      BY <1>1, AppendJournal
    <3> QED BY <1>3, <3>1 DEF Last
  <2> QED BY <1>1, <1>3, <2>1, <2>2, <2>3, SummarizedEnds DEF Backed
<1>4. ASSUME NEW x \in Record, Backed(x, g), NEW y \in Record,
             y.type \in {"chunks", "take_begin"}, recs = <<y, x>>, Fine(Append(L, y), v),
             L \o recs = Append(Append(L, y), x)
      PROVE  /\ Summary(L).truncated \cup ShortIn(recs) \subseteq Summary(L \o recs).truncated
             /\ Last(L \o recs).type = "close" => g.closing
  <2> DEFINE M == Append(L, y)
  <2>0. Summary(M) = Summarized(Summary(L), y)
    BY <1>1, SummaryOfAppend
  <2>1. M \in JournalRecords /\ M \in Seq(Record) /\ Summary(M) \in SummaryState
    BY <1>4, FineSound, StandingParts DEF JournalRecords
  <2> HIDE DEF M
  <2>2. L \o recs = Append(M, x)
    BY <1>4 DEF M
  <2>3. Summary(L \o recs) = Summarized(Summary(M), x)
    BY <2>1, <2>2, SummaryOfAppend
  <2>4. ShortIn(recs) \subseteq Summarized(Summary(M), x).truncated
    <3>1. DOMAIN recs = {1, 2} /\ recs[1] = y /\ recs[2] = x /\ y.type # "edit"
      BY <1>4
    <3>2. x.type = "edit" /\ x.short => x.take \in Summarized(Summary(M), x).truncated
      BY <2>1, SummarizedEnds
    <3> QED BY <3>1, <3>2 DEF ShortIn
  <2>5. Last(L \o recs) = x
    <3>1. Append(M, x)[Len(M) + 1] = x /\ Len(Append(M, x)) = Len(M) + 1
      BY <2>1, AppendJournal
    <3> QED BY <2>2, <3>1 DEF Last
  <2>6. Summary(L).truncated \subseteq Summary(M).truncated
    BY <1>1, <2>0, SummarizedEnds
  <2>7. Summary(M).truncated \subseteq Summarized(Summary(M), x).truncated
    BY <2>1, SummarizedEnds
  <2> QED BY <1>4, <2>3, <2>4, <2>5, <2>6, <2>7 DEF Backed
<1> QED BY <1>2, <1>3, <1>4, CallCases

-----------------------------------------------------------------------------
(* The records calls write. *)

\* What the edits of one record, and of one with a lead, add.
LEMMA InsOfCall ==
  ASSUME NEW x
  PROVE  /\ InsIn(<<>>) = {} /\ ShortIn(<<>>) = {}
         /\ InsIn(<<x>>) = IF x.type = "edit" THEN x.ops.ins ELSE {}
         /\ ShortIn(<<x>>) = IF x.type = "edit" /\ x.short THEN {x.take} ELSE {}
         /\ \A y : y.type # "edit" => /\ InsIn(<<y, x>>) = InsIn(<<x>>)
                                      /\ ShortIn(<<y, x>>) = ShortIn(<<x>>)
<1>1. InsIn(<<>>) = {} /\ ShortIn(<<>>) = {}
  BY DEF InsIn, ShortIn
<1>2. DOMAIN <<x>> = {1} /\ <<x>>[1] = x
  OBVIOUS
<1>3. /\ InsIn(<<x>>) = IF x.type = "edit" THEN x.ops.ins ELSE {}
      /\ ShortIn(<<x>>) = IF x.type = "edit" /\ x.short THEN {x.take} ELSE {}
  <2> DEFINE s == <<x>>
  <2>1. DOMAIN s = {1} /\ s[1] = x
    BY <1>2
  <2> HIDE DEF s
  <2>2. /\ InsIn(s) = IF x.type = "edit" THEN x.ops.ins ELSE {}
        /\ ShortIn(s) = IF x.type = "edit" /\ x.short THEN {x.take} ELSE {}
    BY <2>1 DEF InsIn, ShortIn
  <2> QED BY <2>2 DEF s
<1>4. ASSUME NEW y, y.type # "edit"
      PROVE  InsIn(<<y, x>>) = InsIn(<<x>>) /\ ShortIn(<<y, x>>) = ShortIn(<<x>>)
  <2> DEFINE s == <<y, x>>
  <2>1. DOMAIN s = {1, 2} /\ s[1] = y /\ s[2] = x
    OBVIOUS
  <2> HIDE DEF s
  <2>2. /\ InsIn(s) = IF x.type = "edit" THEN x.ops.ins ELSE {}
        /\ ShortIn(s) = IF x.type = "edit" /\ x.short THEN {x.take} ELSE {}
    BY <1>4, <2>1 DEF InsIn, ShortIn
  <2>3. InsIn(s) = InsIn(<<x>>) /\ ShortIn(s) = ShortIn(<<x>>)
    BY ONLY <1>3, <2>2
  <2> QED BY <2>3 DEF s
<1> QED BY <1>1, <1>3, <1>4

\* The records of a commit.
CommitRecs(I, q, e, t, sh) ==
  (IF I = {} THEN <<>> ELSE <<Chunks(I)>>) \o <<Edit(q, e, t, sh)>>

\* The take an edit cuts short.
ShortOf(t, sh) == IF sh THEN {t} ELSE {}

\* The records of a commit are of a call.
LEMMA CommitCall ==
  ASSUME NEW I \in SUBSET Chunk, NEW q \in Nat, NEW e \in EditOps,
         NEW t \in TakeId \cup {NoTake}, NEW sh \in BOOLEAN, NEW g
  PROVE  /\ CallRecs(CommitRecs(I, q, e, t, sh), g)
         /\ InsIn(CommitRecs(I, q, e, t, sh)) = e.ins
         /\ ShortIn(CommitRecs(I, q, e, t, sh)) = ShortOf(t, sh)
<1> DEFINE x == Edit(q, e, t, sh)
           y == Chunks(I)
           recs == (IF I = {} THEN <<>> ELSE <<y>>) \o <<x>>
<1>1. /\ x \in Record /\ x.type = "edit" /\ x.ops = e /\ x.take = t /\ x.short = sh
  BY RecordsAre DEF Edit
<1>2. y \in ChunksRecord /\ y \in Record /\ y.type = "chunks"
  BY RecordsAre DEF Chunks, ChunksRecord
<1> HIDE DEF x, y
<1>3. Backed(x, g)
  BY <1>1 DEF Backed
<1>4. /\ InsIn(<<x>>) = e.ins /\ ShortIn(<<x>>) = (IF sh THEN {t} ELSE {})
      /\ InsIn(<<y, x>>) = InsIn(<<x>>) /\ ShortIn(<<y, x>>) = ShortIn(<<x>>)
  BY <1>1, <1>2, InsOfCall
<1>5. recs \in {<<x>>, <<y, x>>}
  <2> DEFINE E == {x, y}
  <2>1. CASE I = {}
    <3>1. <<>> \in Seq(E) /\ x \in E
      OBVIOUS
    <3> HIDE DEF E
    <3>2. <<>> \o <<x>> = <<x>>
      <4>1. <<>> \o <<x>> = Append(<<>>, x)
        BY <3>1, OneIs
      <4> QED BY <4>1
    <3> QED BY <2>1, <3>2
  <2>2. CASE I # {}
    <3>1. y \in E /\ x \in E
      OBVIOUS
    <3> HIDE DEF E
    <3>2. <<y>> \o <<x>> = <<y, x>>
      BY <3>1, PairIs
    <3> QED BY <2>2, <3>2
  <2> QED BY <2>1, <2>2
<1> HIDE DEF recs
<1>6. CallRecs(recs, g)
  BY <1>1, <1>2, <1>3, <1>5 DEF CallRecs
<1>7. InsIn(recs) = e.ins /\ ShortIn(recs) = IF sh THEN {t} ELSE {}
  BY <1>4, <1>5
<1>8. recs = CommitRecs(I, q, e, t, sh)
  BY DEF recs, x, y, CommitRecs
<1> QED BY <1>6, <1>7, <1>8 DEF ShortOf

\* One record that a call may write.
LEMMA OneRecord ==
  ASSUME NEW x, NEW g, Backed(x, g)
  PROVE  CallRecs(<<x>>, g) /\ (x.type # "edit" => InsIn(<<x>>) = {} /\ ShortIn(<<x>>) = {})
<1>1. CallRecs(<<x>>, g)
  BY DEF CallRecs, Backed
<1>2. x.type # "edit" => InsIn(<<x>>) = {} /\ ShortIn(<<x>>) = {}
  BY InsOfCall
<1> QED BY <1>1, <1>2

-----------------------------------------------------------------------------
(* Histories that are the same but for marker ids. *)

\* What is ahead stays ahead when more is known to have happened.
LEMMA AheadGrows ==
  ASSUME NEW a, NEW b, NEW f, NEW m, Ahead(a, b, f, m), NEW f2, NEW m2, f => f2, m => m2
  PROVE  Ahead(a, b, f2, m2)
<1>1. \A c : OneCall(c, b, f, m) => OneCall(c, b, f2, m2)
  BY DEF OneCall
<1> QED BY <1>1 DEF Ahead

\* The same history is no call ahead.
LEMMA SameAhead ==
  ASSUME NEW b \in HistoryState, NEW a, SameHistory(b, a), NEW f, NEW m
  PROVE  Ahead(a, b, f, m)
<1>1. Alike(a, b) /\ OneCall(b, b, f, m)
  BY DEF SameHistory, Alike, OneCall
<1> QED BY <1>1 DEF Ahead

\* A walk, and what it keeps, to the same history.
LEMMA WalkTo ==
  ASSUME NEW a, NEW b, NEW c, Walk(a, b), NEW f, NEW m, Keeps(a, b, f, m), Alike(b, c)
  PROVE  Walk(a, c) /\ Keeps(a, c, f, m)
<1>1. /\ LineOf(b) = LineOf(c) /\ PositionOf(b) = PositionOf(c)
      /\ \A q, d : Names(b, q, d) <=> Names(c, q, d)
  BY AlikeParts
<1>2. b.next_seq = c.next_seq /\ b.saved_seq = c.saved_seq
  BY DEF Alike
<1>3. Walk(a, c)
  BY <1>1 DEF Walk
<1>4. Keeps(a, c, f, m)
  BY <1>1, <1>2 DEF Keeps
<1> QED BY <1>3, <1>4

\* The history in memory before and after a call, if its journal replays to it.
LEMMA CallInMemory ==
  ASSUME NEW L, NEW w, Fine(L, w), NEW recs, NEW g, CallRecs(recs, g),
         NEW v, Fine(L \o recs, v),
         NEW a \in HistoryState, SameHistory(State(L).hist, a),
         NEW b \in HistoryState, SameHistory(State(L \o recs).hist, b)
  PROVE  /\ Walk(a, b) /\ Keeps(a, b, g.floorMoved, g.unmarked)
         /\ Live(b) \subseteq Live(a) \cup InsIn(recs)
         /\ Sane(a) => Sane(b)
<1> DEFINE c == State(L \o recs).hist
           f == g.floorMoved
           m == g.unmarked
<1>1. Ahead(a, c, f, m) /\ Live(c) \subseteq Live(a) \cup InsIn(recs)
  BY CallAhead
<1>2. Alike(c, b)
  BY DEF SameHistory, Alike
<1> HIDE DEF c, f, m
<1>3. /\ c \in HistoryState /\ (Sane(a) => Sane(c)) /\ Walk(a, c) /\ Keeps(a, c, f, m)
  BY ONLY <1>1, AheadParts
<1>4. Walk(a, b) /\ Keeps(a, b, f, m)
  BY ONLY <1>2, <1>3, WalkTo
<1>5. Live(b) = Live(c) /\ (Sane(b) <=> Sane(c))
  BY ONLY <1>2, AlikeParts
<1> QED BY <1>1, <1>3, <1>4, <1>5 DEF f, m

=============================================================================
