--------------------------- MODULE HistoryProofs ---------------------------
(* Proofs about module History, for every value of its constants.          *)
EXTENDS History, JournalProofs

USE MaxSeqIsNat, MaxRevIsNat

\* The history always has the shape the code's struct gives it.
THEOREM HistoryTypeOK == Spec => []TypeOK
<1>1. Init => TypeOK
  BY NewType DEF Init, TypeOK
<1>2. TypeOK /\ [Next]_h => TypeOK'
  <2> SUFFICES ASSUME TypeOK, [Next]_h PROVE TypeOK'
    OBVIOUS
  <2>1. CASE \E e \in EditOps : Apply(e)
    BY <2>1, CommitType DEF TypeOK, Apply
  <2>2. CASE Undo
    BY <2>2, UndoneType DEF TypeOK, Undo
  <2>3. CASE Redo
    BY <2>3, RedoneType DEF TypeOK, Redo
  <2>4. CASE \E n \in 1..MaxSeq : DropOldestUndo(n)
    BY <2>4, DroppedType DEF TypeOK, DropOldestUndo
  <2>5. CASE \E seq \in 0..MaxSeq : MarkSavedAt(seq)
    <3>1. PICK seq \in 0..MaxSeq : MarkSavedAt(seq)
      BY <2>5
    <3>2. seq \in Nat
      BY <3>1
    <3> QED BY <3>1, <3>2, MarkedSavedType DEF TypeOK, MarkSavedAt
  <2>6. CASE AllocateMarkerId
    BY <2>6, AllocatedType DEF TypeOK, AllocateMarkerId
  <2>7. CASE \E p \in SUBSET Chunk, M \in SUBSET MarkerId : Rebase(p, M)
    BY <2>7, RebasedType DEF TypeOK, Rebase
  <2>8. CASE UNCHANGED h
    BY <2>8 DEF TypeOK
  <2> QED BY <2>1, <2>2, <2>3, <2>4, <2>5, <2>6, <2>7, <2>8 DEF Next
<1> QED BY <1>1, <1>2, PTL DEF Spec

-----------------------------------------------------------------------------
(* SeqsNameDocuments becomes inductive with the type invariant and the     *)
(* fact that no edit has seq 0: 0 stands for the floor of the history.     *)

SeqInv == SeqsNameDocuments /\ h.next_seq >= 1

\* The seqs in both stacks, and the next one, are natural numbers.
LEMMA SeqsAreNat ==
  ASSUME NEW hs \in HistoryState
  PROVE  /\ \A i \in 1..Len(hs.undo) : hs.undo[i].seq \in Nat
         /\ \A i \in 1..Len(hs.redo) : hs.redo[i].seq \in Nat
         /\ hs.next_seq \in Nat
BY StackShape DEF Entry, HistoryState

\* The old facts, with the domains as intervals.
LEMMA SeqInvUnfolded ==
  ASSUME TypeOK, SeqInv
  PROVE  /\ Len(h.undo) \in Nat /\ Len(h.redo) \in Nat /\ h.next_seq \in Nat
         /\ \A i \in 1..Len(h.undo) : h.undo[i].seq \in Nat
         /\ \A i \in 1..Len(h.redo) : h.redo[i].seq \in Nat
         /\ \A i, j \in 1..Len(h.undo) : i < j => h.undo[i].seq < h.undo[j].seq
         /\ \A i, j \in 1..Len(h.redo) : i < j => h.redo[i].seq > h.redo[j].seq
         /\ \A i \in 1..Len(h.undo), j \in 1..Len(h.redo) :
               h.undo[i].seq < h.redo[j].seq
         /\ \A i \in 1..Len(h.undo) : h.undo[i].seq \in 1..(h.next_seq - 1)
         /\ \A i \in 1..Len(h.redo) : h.redo[i].seq \in 1..(h.next_seq - 1)
         /\ h.next_seq >= 1
BY StackShape, SeqsAreNat DEF TypeOK, SeqInv, SeqsNameDocuments

\* An edit keeps SeqInv.
LEMMA ApplyKeepsSeqs ==
  ASSUME TypeOK, SeqInv, NEW e \in EditOps, Apply(e)
  PROVE  SeqInv'
<1> DEFINE u == Len(h.undo)
<1>1. h \in HistoryState /\ h' = Commit(h, e) /\ h' \in HistoryState
  BY CommitType DEF TypeOK, Apply
<1>2. /\ Len(Commit(h, e).undo) = u + 1
      /\ \A i \in 1..u : Commit(h, e).undo[i] = h.undo[i]
      /\ Commit(h, e).undo[u + 1]
           = [snapshot |-> h.current, seq |-> h.next_seq, audio |-> ChangesAudio(e)]
      /\ Commit(h, e).next_seq = h.next_seq + 1
      /\ Len(Commit(h, e).redo) = 0
  BY <1>1, CommitEffect
<1>3. DOMAIN h'.undo = 1..(u + 1) /\ DOMAIN h'.redo = 1..0 /\ u \in Nat
  BY <1>1, <1>2, StackShape
<1>4. \A i \in 1..(u + 1) : \/ i \in 1..u /\ h'.undo[i].seq = h.undo[i].seq
                            \/ i = u + 1 /\ h'.undo[i].seq = h.next_seq
  BY <1>1, <1>2, <1>3
<1>5. h'.next_seq = h.next_seq + 1
  BY <1>1, <1>2
<1> HIDE DEF u
<1>6. \A i, j \in DOMAIN h'.undo : i < j => h'.undo[i].seq < h'.undo[j].seq
  <2> SUFFICES ASSUME NEW i \in 1..(u + 1), NEW j \in 1..(u + 1), i < j
               PROVE  h'.undo[i].seq < h'.undo[j].seq
    BY <1>3
  <2>1. i \in 1..u /\ h'.undo[i].seq = h.undo[i].seq
    BY <1>3, <1>4
  <2>2. CASE j \in 1..u /\ h'.undo[j].seq = h.undo[j].seq
    BY <2>1, <2>2, SeqInvUnfolded DEF u
  <2>3. CASE j = u + 1 /\ h'.undo[j].seq = h.next_seq
    BY <2>1, <2>3, SeqInvUnfolded DEF u
  <2> QED BY <1>4, <2>2, <2>3
<1>7. \A i \in DOMAIN h'.undo : h'.undo[i].seq \in 1..(h'.next_seq - 1)
  <2> SUFFICES ASSUME NEW i \in 1..(u + 1)
               PROVE  h'.undo[i].seq \in 1..h.next_seq
    BY <1>3, <1>5, SeqInvUnfolded
  <2>1. CASE i \in 1..u /\ h'.undo[i].seq = h.undo[i].seq
    BY <2>1, SeqInvUnfolded DEF u
  <2>2. CASE i = u + 1 /\ h'.undo[i].seq = h.next_seq
    BY <2>2, SeqInvUnfolded DEF u
  <2> QED BY <1>4, <2>1, <2>2
<1>8. h'.next_seq >= 1
  BY <1>5, SeqInvUnfolded
<1> QED BY <1>3, <1>6, <1>7, <1>8 DEF SeqInv, SeqsNameDocuments

\* An undo keeps SeqInv.
LEMMA UndoKeepsSeqs ==
  ASSUME TypeOK, SeqInv, Undo
  PROVE  SeqInv'
<1> DEFINE u == Len(h.undo)
           r == Len(h.redo)
<1>1. h \in HistoryState /\ h' = Undone(h) /\ h.undo # <<>> /\ h' \in HistoryState
  BY UndoneType DEF TypeOK, Undo
<1>2. u \in Nat /\ r \in Nat /\ u \in 1..u
  BY <1>1, StackShape, UndoneEffect
<1>3. /\ Len(h'.undo) = u - 1
      /\ \A i \in 1..(u - 1) : h'.undo[i] = h.undo[i]
      /\ Len(h'.redo) = r + 1
      /\ \A i \in 1..r : h'.redo[i] = h.redo[i]
      /\ h'.redo[r + 1].seq = h.undo[u].seq
      /\ h'.next_seq = h.next_seq
  BY <1>1, UndoneEffect
<1>4. DOMAIN h'.undo = 1..(u - 1) /\ DOMAIN h'.redo = 1..(r + 1)
  BY <1>1, <1>3, StackShape
<1>5. \A i \in 1..(u - 1) : i \in 1..u /\ i < u /\ h'.undo[i].seq = h.undo[i].seq
  BY <1>2, <1>3
<1>6. \A i \in 1..(r + 1) : \/ i \in 1..r /\ h'.redo[i].seq = h.redo[i].seq
                            \/ i = r + 1 /\ h'.redo[i].seq = h.undo[u].seq
  BY <1>2, <1>3
<1> HIDE DEF u, r
<1>7. \A i, j \in DOMAIN h'.undo : i < j => h'.undo[i].seq < h'.undo[j].seq
  <2> SUFFICES ASSUME NEW i \in 1..(u - 1), NEW j \in 1..(u - 1), i < j
               PROVE  h'.undo[i].seq < h'.undo[j].seq
    BY <1>4
  <2>1. i \in 1..u /\ j \in 1..u
    BY <1>5
  <2>2. h.undo[i].seq < h.undo[j].seq
    BY <2>1, SeqInvUnfolded DEF u
  <2> QED BY <1>5, <2>2
<1>8. \A i, j \in DOMAIN h'.redo : i < j => h'.redo[i].seq > h'.redo[j].seq
  <2> SUFFICES ASSUME NEW i \in 1..(r + 1), NEW j \in 1..(r + 1), i < j
               PROVE  h'.redo[i].seq > h'.redo[j].seq
    BY <1>4
  <2>1. i \in 1..r /\ h'.redo[i].seq = h.redo[i].seq
    BY <1>2, <1>6
  <2>2. CASE j \in 1..r /\ h'.redo[j].seq = h.redo[j].seq
    BY <2>1, <2>2, SeqInvUnfolded DEF u, r
  <2>3. CASE j = r + 1 /\ h'.redo[j].seq = h.undo[u].seq
    BY <1>2, <2>1, <2>3, SeqInvUnfolded DEF u, r
  <2> QED BY <1>6, <2>2, <2>3
<1>9. \A i \in DOMAIN h'.undo, j \in DOMAIN h'.redo : h'.undo[i].seq < h'.redo[j].seq
  BY <1>2, <1>4, <1>5, <1>6, SeqInvUnfolded DEF u, r
<1>10. /\ \A i \in DOMAIN h'.undo : h'.undo[i].seq \in 1..(h'.next_seq - 1)
       /\ \A i \in DOMAIN h'.redo : h'.redo[i].seq \in 1..(h'.next_seq - 1)
       /\ h'.next_seq >= 1
  BY <1>2, <1>3, <1>4, <1>5, <1>6, SeqInvUnfolded DEF u, r
<1> QED BY <1>7, <1>8, <1>9, <1>10 DEF SeqInv, SeqsNameDocuments

\* A redo keeps SeqInv.
LEMMA RedoKeepsSeqs ==
  ASSUME TypeOK, SeqInv, Redo
  PROVE  SeqInv'
<1> DEFINE u == Len(h.undo)
           r == Len(h.redo)
<1>1. h \in HistoryState /\ h' = Redone(h) /\ h.redo # <<>> /\ h' \in HistoryState
  BY RedoneType DEF TypeOK, Redo
<1>2. u \in Nat /\ r \in Nat /\ r \in 1..r
  BY <1>1, StackShape, RedoneEffect
<1>3. /\ Len(h'.redo) = r - 1
      /\ \A i \in 1..(r - 1) : h'.redo[i] = h.redo[i]
      /\ Len(h'.undo) = u + 1
      /\ \A i \in 1..u : h'.undo[i] = h.undo[i]
      /\ h'.undo[u + 1].seq = h.redo[r].seq
      /\ h'.next_seq = h.next_seq
  BY <1>1, RedoneEffect
<1>4. DOMAIN h'.undo = 1..(u + 1) /\ DOMAIN h'.redo = 1..(r - 1)
  BY <1>1, <1>3, StackShape
<1>5. \A i \in 1..(r - 1) : i \in 1..r /\ i < r /\ h'.redo[i].seq = h.redo[i].seq
  BY <1>2, <1>3
<1>6. \A i \in 1..(u + 1) : \/ i \in 1..u /\ h'.undo[i].seq = h.undo[i].seq
                            \/ i = u + 1 /\ h'.undo[i].seq = h.redo[r].seq
  BY <1>2, <1>3
<1> HIDE DEF u, r
<1>7. \A i, j \in DOMAIN h'.redo : i < j => h'.redo[i].seq > h'.redo[j].seq
  <2> SUFFICES ASSUME NEW i \in 1..(r - 1), NEW j \in 1..(r - 1), i < j
               PROVE  h'.redo[i].seq > h'.redo[j].seq
    BY <1>4
  <2>1. /\ i \in 1..r /\ h'.redo[i].seq = h.redo[i].seq
        /\ j \in 1..r /\ h'.redo[j].seq = h.redo[j].seq
    BY <1>5
  <2>2. \A k, m \in 1..r : k < m => h.redo[k].seq > h.redo[m].seq
    BY SeqInvUnfolded DEF r
  <2> QED BY <2>1, <2>2
<1>8. \A i, j \in DOMAIN h'.undo : i < j => h'.undo[i].seq < h'.undo[j].seq
  <2> SUFFICES ASSUME NEW i \in 1..(u + 1), NEW j \in 1..(u + 1), i < j
               PROVE  h'.undo[i].seq < h'.undo[j].seq
    BY <1>4
  <2>1. i \in 1..u /\ h'.undo[i].seq = h.undo[i].seq
    BY <1>2, <1>6
  <2>2. CASE j \in 1..u /\ h'.undo[j].seq = h.undo[j].seq
    BY <2>1, <2>2, SeqInvUnfolded DEF u, r
  <2>3. CASE j = u + 1 /\ h'.undo[j].seq = h.redo[r].seq
    BY <1>2, <2>1, <2>3, SeqInvUnfolded DEF u, r
  <2> QED BY <1>6, <2>2, <2>3
<1>9. \A i \in DOMAIN h'.undo, j \in DOMAIN h'.redo : h'.undo[i].seq < h'.redo[j].seq
  BY <1>2, <1>4, <1>5, <1>6, SeqInvUnfolded DEF u, r
<1>10. /\ \A i \in DOMAIN h'.undo : h'.undo[i].seq \in 1..(h'.next_seq - 1)
       /\ \A i \in DOMAIN h'.redo : h'.redo[i].seq \in 1..(h'.next_seq - 1)
       /\ h'.next_seq >= 1
  BY <1>2, <1>3, <1>4, <1>5, <1>6, SeqInvUnfolded DEF u, r
<1> QED BY <1>7, <1>8, <1>9, <1>10 DEF SeqInv, SeqsNameDocuments

\* A drop keeps SeqInv.
LEMMA DropKeepsSeqs ==
  ASSUME TypeOK, SeqInv, NEW n \in 1..MaxSeq, DropOldestUndo(n)
  PROVE  SeqInv'
<1> DEFINE u == Len(h.undo)
<1>1. /\ h \in HistoryState /\ n \in 1..u
      /\ h' = DroppedOldest(h, n) /\ h' \in HistoryState
  BY DroppedType DEF TypeOK, DropOldestUndo
<1>2. u \in Nat /\ n \in Nat /\ n <= u /\ DOMAIN h.undo = 1..u
  BY <1>1, StackShape
<1>3. /\ Len(h'.undo) = u - n
      /\ \A i \in 1..(u - n) : h'.undo[i] = h.undo[n + i]
      /\ h'.redo = h.redo
      /\ h'.next_seq = h.next_seq
  BY <1>1, DroppedEffect
<1>4. DOMAIN h'.undo = 1..(u - n)
  BY <1>1, <1>3, StackShape
<1>5. \A i \in 1..(u - n) : n + i \in 1..u
  BY <1>2
<1>6. \A i, j \in 1..(u - n) : i < j => n + i < n + j
  BY <1>2
<1> HIDE DEF u
<1> QED BY <1>2, <1>3, <1>4, <1>5, <1>6 DEF SeqInv, SeqsNameDocuments

\* Every seq names one document of the history, for any number of edits.
THEOREM HistorySeqsNameDocuments == Spec => []SeqsNameDocuments
<1>1. Init => SeqInv
  BY DEF Init, New, SeqInv, SeqsNameDocuments
<1>2. TypeOK /\ SeqInv /\ [Next]_h => SeqInv'
  <2> SUFFICES ASSUME TypeOK, SeqInv, [Next]_h PROVE SeqInv'
    OBVIOUS
  <2>1. CASE \E e \in EditOps : Apply(e)
    BY <2>1, ApplyKeepsSeqs
  <2>2. CASE Undo
    BY <2>2, UndoKeepsSeqs
  <2>3. CASE Redo
    BY <2>3, RedoKeepsSeqs
  <2>4. CASE \E n \in 1..MaxSeq : DropOldestUndo(n)
    BY <2>4, DropKeepsSeqs
  <2>5. CASE \E seq \in 0..MaxSeq : MarkSavedAt(seq)
    BY <2>5 DEF TypeOK, MarkSavedAt, MarkedSavedAt, HistoryState, SeqInv,
                SeqsNameDocuments
  <2>6. CASE AllocateMarkerId
    BY <2>6 DEF TypeOK, AllocateMarkerId, AllocatedMarker, HistoryState,
                SeqInv, SeqsNameDocuments
  <2>7. CASE \E p \in SUBSET Chunk, M \in SUBSET MarkerId : Rebase(p, M)
    BY <2>7 DEF Rebase, Rebased, SeqInv, SeqsNameDocuments
  <2>8. CASE UNCHANGED h
    BY <2>8 DEF SeqInv, SeqsNameDocuments
  <2> QED BY <2>1, <2>2, <2>3, <2>4, <2>5, <2>6, <2>7, <2>8 DEF Next
<1>3. SeqInv => SeqsNameDocuments
  BY DEF SeqInv
<1> QED BY <1>1, <1>2, <1>3, HistoryTypeOK, PTL DEF Spec

-----------------------------------------------------------------------------
(* MarkerEntriesKeepSamples: both sides of a marker entry stay alike.       *)

\* The stamps of a snapshot that an entry restores.
LEMMA RestoredStamps ==
  ASSUME NEW hs \in HistoryState, NEW stack \in Seq(Entry), stack # <<>>
  PROVE  LET s == Restamp(hs, Top(stack).snapshot, Top(stack).audio) IN
         /\ s.pieces = stack[Len(stack)].snapshot.pieces
         /\ s.rev = hs.next_rev
         /\ s.audio_rev = IF Top(stack).audio THEN hs.next_audio_rev
                                              ELSE hs.current.audio_rev
<1>1. Top(stack) \in Entry /\ Top(stack) = stack[Len(stack)]
  BY PopType DEF Top
<1> QED BY <1>1, RestampType DEF Entry

\* MarkerEntriesKeepSamples, entry by entry ...
LEMMA MarkerInvUnfolded ==
  ASSUME TypeOK, MarkerEntriesKeepSamples
  PROVE  /\ Len(h.undo) \in Nat /\ Len(h.redo) \in Nat
         /\ \A i \in 1..Len(h.undo) : ~h.undo[i].audio /\ i # Len(h.undo)
               => h.undo[i].snapshot.pieces = h.undo[i + 1].snapshot.pieces
         /\ Len(h.undo) \in 1..Len(h.undo) /\ ~h.undo[Len(h.undo)].audio
               => h.undo[Len(h.undo)].snapshot.pieces = h.current.pieces
         /\ \A i \in 1..Len(h.redo) : ~h.redo[i].audio /\ i # Len(h.redo)
               => h.redo[i].snapshot.pieces = h.redo[i + 1].snapshot.pieces
         /\ Len(h.redo) \in 1..Len(h.redo) /\ ~h.redo[Len(h.redo)].audio
               => h.redo[Len(h.redo)].snapshot.pieces = h.current.pieces
BY StackShape DEF TypeOK, MarkerEntriesKeepSamples, AfterUndoEntry, BeforeRedoEntry

\* ... and back.
LEMMA MarkerInvFolded ==
  ASSUME TypeOK',
         \A i \in 1..Len(h'.undo) : ~h'.undo[i].audio =>
           h'.undo[i].snapshot.pieces
             = (IF i = Len(h'.undo) THEN h'.current ELSE h'.undo[i + 1].snapshot).pieces,
         \A i \in 1..Len(h'.redo) : ~h'.redo[i].audio =>
           h'.redo[i].snapshot.pieces
             = (IF i = Len(h'.redo) THEN h'.current ELSE h'.redo[i + 1].snapshot).pieces
  PROVE  MarkerEntriesKeepSamples'
BY StackShape DEF TypeOK, MarkerEntriesKeepSamples, AfterUndoEntry, BeforeRedoEntry

\* An edit keeps MarkerEntriesKeepSamples.
LEMMA ApplyKeepsMarkerEntries ==
  ASSUME TypeOK, MarkerEntriesKeepSamples, NEW e \in EditOps, Apply(e)
  PROVE  MarkerEntriesKeepSamples'
<1> DEFINE u == Len(h.undo)
<1>1. h \in HistoryState /\ h' = Commit(h, e) /\ h' \in HistoryState /\ u \in Nat
  BY CommitType, StackShape DEF TypeOK, Apply
<1>2. /\ Len(Commit(h, e).undo) = u + 1
      /\ \A i \in 1..u : Commit(h, e).undo[i] = h.undo[i]
      /\ Commit(h, e).undo[u + 1]
           = [snapshot |-> h.current, seq |-> h.next_seq, audio |-> ChangesAudio(e)]
      /\ Commit(h, e).current = Prepared(h, e)
      /\ Len(Commit(h, e).redo) = 0
  BY <1>1, CommitEffect
<1>3. ~ChangesAudio(e) => Prepared(h, e).pieces = h.current.pieces
  BY DEF ChangesAudio, Prepared
<1>4. ASSUME NEW i \in 1..(u + 1), ~h'.undo[i].audio
      PROVE  h'.undo[i].snapshot.pieces
               = (IF i = u + 1 THEN h'.current ELSE h'.undo[i + 1].snapshot).pieces
  <2>1. CASE i = u + 1
    BY <1>1, <1>2, <1>3, <1>4, <2>1
  <2>2. CASE i = u /\ i # u + 1
    <3>1. i \in 1..u /\ h'.undo[i] = h.undo[i] /\ h'.undo[i + 1].snapshot = h.current
      BY <1>1, <1>2, <2>2
    <3> QED BY <1>4, <2>2, <3>1, MarkerInvUnfolded
  <2>3. CASE i # u /\ i # u + 1
    <3>1. /\ i \in 1..u /\ i + 1 \in 1..u
          /\ h'.undo[i] = h.undo[i] /\ h'.undo[i + 1] = h.undo[i + 1]
      BY <1>1, <1>2, <2>3
    <3> QED BY <1>4, <2>3, <3>1, MarkerInvUnfolded
  <2> QED BY <2>1, <2>2, <2>3
<1>5. Len(h'.undo) = u + 1 /\ Len(h'.redo) = 0
  BY <1>1, <1>2
<1> HIDE DEF u
<1> QED BY <1>1, <1>4, <1>5, MarkerInvFolded DEF TypeOK

\* An undo keeps MarkerEntriesKeepSamples.
LEMMA UndoKeepsMarkerEntries ==
  ASSUME TypeOK, MarkerEntriesKeepSamples, Undo
  PROVE  MarkerEntriesKeepSamples'
<1> DEFINE u == Len(h.undo)
           r == Len(h.redo)
<1>1. h \in HistoryState /\ h' = Undone(h) /\ h.undo # <<>> /\ h' \in HistoryState
  BY UndoneType DEF TypeOK, Undo
<1>2. u \in Nat /\ r \in Nat /\ u \in 1..u /\ h.undo \in Seq(Entry)
  BY <1>1, StackShape, UndoneEffect
<1>3. /\ Len(h'.undo) = u - 1
      /\ \A i \in 1..(u - 1) : h'.undo[i] = h.undo[i]
      /\ Len(h'.redo) = r + 1
      /\ \A i \in 1..r : h'.redo[i] = h.redo[i]
      /\ h'.redo[r + 1].audio = h.undo[u].audio
      /\ h'.redo[r + 1].snapshot = h.current
      /\ h'.current = Restamp(h, Top(h.undo).snapshot, Top(h.undo).audio)
  BY <1>1, UndoneEffect
<1>4. h'.current.pieces = h.undo[u].snapshot.pieces
  BY <1>1, <1>2, <1>3, RestoredStamps
<1> HIDE DEF u, r
<1>5. ASSUME NEW i \in 1..(u - 1), ~h'.undo[i].audio
      PROVE  h'.undo[i].snapshot.pieces
               = (IF i = u - 1 THEN h'.current ELSE h'.undo[i + 1].snapshot).pieces
  <2>1. i \in 1..u /\ i # u /\ h'.undo[i] = h.undo[i]
    BY <1>2, <1>3
  <2>2. h.undo[i].snapshot.pieces = h.undo[i + 1].snapshot.pieces
    BY <1>5, <2>1, MarkerInvUnfolded DEF u, r
  <2>3. CASE i = u - 1
    <3>1. i + 1 = u
      BY <1>2, <2>3
    <3> QED BY <1>4, <2>1, <2>2, <2>3, <3>1
  <2>4. CASE i # u - 1
    <3>1. i + 1 \in 1..(u - 1)
      BY <1>2, <2>4
    <3> QED BY <1>3, <2>1, <2>2, <2>4, <3>1
  <2> QED BY <2>3, <2>4
<1>6. ASSUME NEW i \in 1..(r + 1), ~h'.redo[i].audio
      PROVE  h'.redo[i].snapshot.pieces
               = (IF i = r + 1 THEN h'.current ELSE h'.redo[i + 1].snapshot).pieces
  <2>1. CASE i = r + 1
    <3>1. ~h.undo[u].audio
      BY <1>3, <1>6, <2>1
    <3>2. h.undo[u].snapshot.pieces = h.current.pieces
      BY <1>2, <3>1, MarkerInvUnfolded DEF u, r
    <3> QED BY <1>3, <1>4, <2>1, <3>2
  <2>2. CASE i = r /\ i # r + 1
    <3>1. i \in 1..r /\ h'.redo[i] = h.redo[i] /\ h'.redo[i + 1].snapshot = h.current
      BY <1>2, <1>3, <2>2
    <3> QED BY <1>6, <2>2, <3>1, MarkerInvUnfolded DEF u, r
  <2>3. CASE i # r /\ i # r + 1
    <3>1. /\ i \in 1..r /\ i + 1 \in 1..r
          /\ h'.redo[i] = h.redo[i] /\ h'.redo[i + 1] = h.redo[i + 1]
      BY <1>2, <1>3, <2>3
    <3> QED BY <1>6, <2>3, <3>1, MarkerInvUnfolded DEF u, r
  <2> QED BY <2>1, <2>2, <2>3
<1> QED BY <1>1, <1>3, <1>5, <1>6, MarkerInvFolded DEF TypeOK

\* A redo keeps MarkerEntriesKeepSamples.
LEMMA RedoKeepsMarkerEntries ==
  ASSUME TypeOK, MarkerEntriesKeepSamples, Redo
  PROVE  MarkerEntriesKeepSamples'
<1> DEFINE u == Len(h.undo)
           r == Len(h.redo)
<1>1. h \in HistoryState /\ h' = Redone(h) /\ h.redo # <<>> /\ h' \in HistoryState
  BY RedoneType DEF TypeOK, Redo
<1>2. u \in Nat /\ r \in Nat /\ r \in 1..r /\ h.redo \in Seq(Entry)
  BY <1>1, StackShape, RedoneEffect
<1>3. /\ Len(h'.redo) = r - 1
      /\ \A i \in 1..(r - 1) : h'.redo[i] = h.redo[i]
      /\ Len(h'.undo) = u + 1
      /\ \A i \in 1..u : h'.undo[i] = h.undo[i]
      /\ h'.undo[u + 1].audio = h.redo[r].audio
      /\ h'.undo[u + 1].snapshot = h.current
      /\ h'.current = Restamp(h, Top(h.redo).snapshot, Top(h.redo).audio)
  BY <1>1, RedoneEffect
<1>4. h'.current.pieces = h.redo[r].snapshot.pieces
  BY <1>1, <1>2, <1>3, RestoredStamps
<1> HIDE DEF u, r
<1>5. ASSUME NEW i \in 1..(r - 1), ~h'.redo[i].audio
      PROVE  h'.redo[i].snapshot.pieces
               = (IF i = r - 1 THEN h'.current ELSE h'.redo[i + 1].snapshot).pieces
  <2>1. i \in 1..r /\ i # r /\ h'.redo[i] = h.redo[i]
    BY <1>2, <1>3
  <2>2. h.redo[i].snapshot.pieces = h.redo[i + 1].snapshot.pieces
    BY <1>5, <2>1, MarkerInvUnfolded DEF u, r
  <2>3. CASE i = r - 1
    <3>1. i + 1 = r
      BY <1>2, <2>3
    <3> QED BY <1>4, <2>1, <2>2, <2>3, <3>1
  <2>4. CASE i # r - 1
    <3>1. i + 1 \in 1..(r - 1)
      BY <1>2, <2>4
    <3> QED BY <1>3, <2>1, <2>2, <2>4, <3>1
  <2> QED BY <2>3, <2>4
<1>6. ASSUME NEW i \in 1..(u + 1), ~h'.undo[i].audio
      PROVE  h'.undo[i].snapshot.pieces
               = (IF i = u + 1 THEN h'.current ELSE h'.undo[i + 1].snapshot).pieces
  <2>1. CASE i = u + 1
    <3>1. ~h.redo[r].audio
      BY <1>3, <1>6, <2>1
    <3>2. h.redo[r].snapshot.pieces = h.current.pieces
      BY <1>2, <3>1, MarkerInvUnfolded DEF u, r
    <3> QED BY <1>3, <1>4, <2>1, <3>2
  <2>2. CASE i = u /\ i # u + 1
    <3>1. i \in 1..u /\ h'.undo[i] = h.undo[i] /\ h'.undo[i + 1].snapshot = h.current
      BY <1>2, <1>3, <2>2
    <3> QED BY <1>6, <2>2, <3>1, MarkerInvUnfolded DEF u, r
  <2>3. CASE i # u /\ i # u + 1
    <3>1. /\ i \in 1..u /\ i + 1 \in 1..u
          /\ h'.undo[i] = h.undo[i] /\ h'.undo[i + 1] = h.undo[i + 1]
      BY <1>2, <1>3, <2>3
    <3> QED BY <1>6, <2>3, <3>1, MarkerInvUnfolded DEF u, r
  <2> QED BY <2>1, <2>2, <2>3
<1> QED BY <1>1, <1>3, <1>5, <1>6, MarkerInvFolded DEF TypeOK

\* A drop keeps MarkerEntriesKeepSamples.
LEMMA DropKeepsMarkerEntries ==
  ASSUME TypeOK, MarkerEntriesKeepSamples, NEW n \in 1..MaxSeq, DropOldestUndo(n)
  PROVE  MarkerEntriesKeepSamples'
<1> DEFINE u == Len(h.undo)
           r == Len(h.redo)
<1>1. /\ h \in HistoryState /\ n \in 1..u
      /\ h' = DroppedOldest(h, n) /\ h' \in HistoryState
  BY DroppedType DEF TypeOK, DropOldestUndo
<1>2. u \in Nat /\ n \in Nat /\ n <= u /\ r \in Nat
  BY <1>1, StackShape
<1>3. /\ Len(h'.undo) = u - n
      /\ \A i \in 1..(u - n) : h'.undo[i] = h.undo[n + i]
      /\ h'.redo = h.redo /\ h'.current = h.current
  BY <1>1, DroppedEffect
<1>4. ASSUME NEW i \in 1..(u - n), ~h'.undo[i].audio
      PROVE  h'.undo[i].snapshot.pieces
               = (IF i = u - n THEN h'.current ELSE h'.undo[i + 1].snapshot).pieces
  <2> HIDE DEF u, r
  <2>1. n + i \in 1..u /\ h'.undo[i] = h.undo[n + i]
    BY <1>2, <1>3
  <2>2. CASE i = u - n
    <3>1. n + i = u
      BY <1>2, <2>2
    <3> QED BY <1>3, <1>4, <2>1, <2>2, <3>1, MarkerInvUnfolded DEF u, r
  <2>3. CASE i # u - n
    <3>1. i + 1 \in 1..(u - n) /\ n + i # u /\ n + (i + 1) = (n + i) + 1
      BY <1>2, <2>3
    <3>2. h'.undo[i + 1] = h.undo[n + i + 1]
      BY <1>3, <3>1
    <3>3. h.undo[n + i].snapshot.pieces = h.undo[n + i + 1].snapshot.pieces
      BY <1>4, <2>1, <3>1, MarkerInvUnfolded DEF u, r
    <3> QED BY <2>1, <2>3, <3>2, <3>3
  <2> QED BY <2>2, <2>3
<1>5. \A i \in 1..r : ~h.redo[i].audio =>
        h.redo[i].snapshot.pieces
          = (IF i = r THEN h.current ELSE h.redo[i + 1].snapshot).pieces
  BY MarkerInvUnfolded
<1> HIDE DEF u
<1> QED BY <1>1, <1>3, <1>4, <1>5, MarkerInvFolded DEF TypeOK

\* A marker entry has the same samples on both sides, for any history.
THEOREM HistoryMarkerEntriesKeepSamples == Spec => []MarkerEntriesKeepSamples
<1>1. Init => MarkerEntriesKeepSamples
  BY DEF Init, New, MarkerEntriesKeepSamples
<1>2. TypeOK /\ MarkerEntriesKeepSamples /\ [Next]_h => MarkerEntriesKeepSamples'
  <2> SUFFICES ASSUME TypeOK, MarkerEntriesKeepSamples, [Next]_h
               PROVE  MarkerEntriesKeepSamples'
    OBVIOUS
  <2>1. CASE \E e \in EditOps : Apply(e)
    BY <2>1, ApplyKeepsMarkerEntries
  <2>2. CASE Undo
    BY <2>2, UndoKeepsMarkerEntries
  <2>3. CASE Redo
    BY <2>3, RedoKeepsMarkerEntries
  <2>4. CASE \E n \in 1..MaxSeq : DropOldestUndo(n)
    BY <2>4, DropKeepsMarkerEntries
  <2> USE DEF MarkerEntriesKeepSamples, AfterUndoEntry, BeforeRedoEntry
  <2>5. CASE \E seq \in 0..MaxSeq : MarkSavedAt(seq)
    <3>1. h'.undo = h.undo /\ h'.redo = h.redo /\ h'.current = h.current
      BY <2>5 DEF TypeOK, MarkSavedAt, MarkedSavedAt, HistoryState
    <3> QED BY <3>1
  <2>6. CASE AllocateMarkerId
    <3>1. h'.undo = h.undo /\ h'.redo = h.redo /\ h'.current = h.current
      BY <2>6 DEF TypeOK, AllocateMarkerId, AllocatedMarker, HistoryState
    <3> QED BY <3>1
  <2>7. CASE \E p \in SUBSET Chunk, M \in SUBSET MarkerId : Rebase(p, M)
    BY <2>7 DEF Rebase, Rebased
  <2>8. CASE UNCHANGED h
    BY <2>8
  <2> QED BY <2>1, <2>2, <2>3, <2>4, <2>5, <2>6, <2>7, <2>8 DEF Next
<1> QED BY <1>1, <1>2, HistoryTypeOK, PTL DEF Spec

-----------------------------------------------------------------------------
(* The revision stamps: every step issues fresh ones or keeps the samples.  *)

FreshStamps ==
  /\ h'.current.rev = h.next_rev /\ h'.next_rev = h.next_rev + 1
  /\ \/ /\ h'.current.audio_rev = h.next_audio_rev
        /\ h'.next_audio_rev = h.next_audio_rev + 1
     \/ /\ h'.current.audio_rev = h.current.audio_rev
        /\ h'.next_audio_rev = h.next_audio_rev
        /\ h'.current.pieces = h.current.pieces

KeptStamps ==
  h'.current = h.current /\ h'.next_rev = h.next_rev
    /\ h'.next_audio_rev = h.next_audio_rev

\* What an edit does to the stamps.
LEMMA ApplyStamps ==
  ASSUME TypeOK, NEW e \in EditOps, Apply(e)
  PROVE  FreshStamps
<1>1. h \in HistoryState /\ h' = Commit(h, e)
  BY DEF TypeOK, Apply
<1>2. /\ h'.current = Prepared(h, e)
      /\ h'.next_rev = h.next_rev + 1
      /\ h'.next_audio_rev
           = IF ChangesAudio(e) THEN h.next_audio_rev + 1 ELSE h.next_audio_rev
  BY <1>1, CommitEffect
<1>3. h'.current.rev = h.next_rev
  BY <1>2 DEF Prepared
<1>4. CASE ChangesAudio(e)
  BY <1>2, <1>3, <1>4 DEF Prepared, FreshStamps
<1>5. CASE ~ChangesAudio(e)
  <2>1. e.del = {} /\ e.ins = {}
    BY <1>5 DEF ChangesAudio
  <2> QED BY <1>2, <1>3, <1>5, <2>1 DEF Prepared, FreshStamps
<1> QED BY <1>4, <1>5

\* What an undo does to the stamps.
LEMMA UndoStamps ==
  ASSUME TypeOK, MarkerEntriesKeepSamples, Undo
  PROVE  FreshStamps
<1> DEFINE n == Len(h.undo)
<1>1. /\ h \in HistoryState /\ h' = Undone(h)
      /\ h.undo # <<>> /\ h.undo \in Seq(Entry)
  BY StackShape DEF TypeOK, Undo
<1>2. /\ h'.current = Restamp(h, Top(h.undo).snapshot, Top(h.undo).audio)
      /\ h'.next_rev = h.next_rev + 1
      /\ h'.next_audio_rev
           = IF Top(h.undo).audio THEN h.next_audio_rev + 1 ELSE h.next_audio_rev
      /\ n \in Nat \ {0}
  BY <1>1, UndoneEffect
<1>3. /\ h'.current.pieces = h.undo[n].snapshot.pieces
      /\ h'.current.rev = h.next_rev
      /\ h'.current.audio_rev = IF Top(h.undo).audio THEN h.next_audio_rev
                                                     ELSE h.current.audio_rev
  BY <1>1, <1>2, RestoredStamps
<1>4. CASE Top(h.undo).audio
  BY <1>2, <1>3, <1>4 DEF FreshStamps
<1>5. CASE ~Top(h.undo).audio
  <2>1. n \in 1..n
    BY <1>2
  <2>2. h.undo[n].snapshot.pieces = h.current.pieces
    BY <1>5, <2>1, MarkerInvUnfolded DEF Top
  <2> QED BY <1>2, <1>3, <1>5, <2>2 DEF FreshStamps
<1> QED BY <1>4, <1>5

\* What a redo does to the stamps.
LEMMA RedoStamps ==
  ASSUME TypeOK, MarkerEntriesKeepSamples, Redo
  PROVE  FreshStamps
<1> DEFINE n == Len(h.redo)
<1>1. /\ h \in HistoryState /\ h' = Redone(h)
      /\ h.redo # <<>> /\ h.redo \in Seq(Entry)
  BY StackShape DEF TypeOK, Redo
<1>2. /\ h'.current = Restamp(h, Top(h.redo).snapshot, Top(h.redo).audio)
      /\ h'.next_rev = h.next_rev + 1
      /\ h'.next_audio_rev
           = IF Top(h.redo).audio THEN h.next_audio_rev + 1 ELSE h.next_audio_rev
      /\ n \in Nat \ {0}
  BY <1>1, RedoneEffect
<1>3. /\ h'.current.pieces = h.redo[n].snapshot.pieces
      /\ h'.current.rev = h.next_rev
      /\ h'.current.audio_rev = IF Top(h.redo).audio THEN h.next_audio_rev
                                                     ELSE h.current.audio_rev
  BY <1>1, <1>2, RestoredStamps
<1>4. CASE Top(h.redo).audio
  BY <1>2, <1>3, <1>4 DEF FreshStamps
<1>5. CASE ~Top(h.redo).audio
  <2>1. n \in 1..n
    BY <1>2
  <2>2. h.redo[n].snapshot.pieces = h.current.pieces
    BY <1>5, <2>1, MarkerInvUnfolded DEF Top
  <2> QED BY <1>2, <1>3, <1>5, <2>2 DEF FreshStamps
<1> QED BY <1>4, <1>5

\* A floor set by an import takes a fresh stamp of each kind.
LEMMA RebaseStamps ==
  ASSUME NEW p \in SUBSET Chunk, NEW M \in SUBSET MarkerId, Rebase(p, M)
  PROVE  FreshStamps
BY DEF Rebase, Rebased, FreshStamps

\* What any step does to them.
LEMMA StepStamps ==
  ASSUME TypeOK, MarkerEntriesKeepSamples, [Next]_h
  PROVE  FreshStamps \/ KeptStamps
<1>1. CASE \E e \in EditOps : Apply(e)
  BY <1>1, ApplyStamps
<1>2. CASE Undo
  BY <1>2, UndoStamps
<1>3. CASE Redo
  BY <1>3, RedoStamps
<1>4. ASSUME NEW n \in 1..MaxSeq, DropOldestUndo(n) PROVE KeptStamps
  BY <1>4, DroppedEffect DEF TypeOK, DropOldestUndo, KeptStamps
<1>5. CASE \E seq \in 0..MaxSeq : MarkSavedAt(seq)
  BY <1>5 DEF TypeOK, MarkSavedAt, MarkedSavedAt, HistoryState, KeptStamps
<1>6. CASE AllocateMarkerId
  BY <1>6 DEF TypeOK, AllocateMarkerId, AllocatedMarker, HistoryState, KeptStamps
<1>7. CASE \E p \in SUBSET Chunk, M \in SUBSET MarkerId : Rebase(p, M)
  BY <1>7, RebaseStamps
<1>8. CASE UNCHANGED h
  BY <1>8 DEF KeptStamps
<1> QED BY <1>1, <1>2, <1>3, <1>4, <1>5, <1>6, <1>7, <1>8 DEF Next

\* Stamps are numbers.
LEMMA StampsAreNat ==
  ASSUME TypeOK
  PROVE  /\ h.next_rev \in Nat /\ h.next_audio_rev \in Nat
         /\ h.current.rev \in Nat /\ h.current.audio_rev \in Nat
BY DEF TypeOK, HistoryState, Snapshot

\* The current snapshot always carries the newest rev and audio_rev.
THEOREM HistoryCurrentIsNewest == Spec => []CurrentIsNewest
<1>1. Init => CurrentIsNewest
  BY DEF Init, New, CurrentIsNewest
<1>2. TypeOK /\ MarkerEntriesKeepSamples /\ CurrentIsNewest /\ [Next]_h
        => CurrentIsNewest'
  <2> SUFFICES ASSUME TypeOK, MarkerEntriesKeepSamples, CurrentIsNewest, [Next]_h
               PROVE  CurrentIsNewest'
    OBVIOUS
  <2>1. CASE FreshStamps
    BY <2>1, StampsAreNat DEF FreshStamps, CurrentIsNewest
  <2>2. CASE KeptStamps
    BY <2>2 DEF KeptStamps, CurrentIsNewest
  <2> QED BY <2>1, <2>2, StepStamps
<1> QED BY <1>1, <1>2, HistoryTypeOK, HistoryMarkerEntriesKeepSamples, PTL DEF Spec

\* A cache keyed by rev or audio_rev never takes one document for another.
THEOREM HistoryRevisionsIdentifyContent == Spec => RevisionsIdentifyContent
<1> DEFINE Identify == /\ h'.current.audio_rev >= h.current.audio_rev
                       /\ h'.current.audio_rev = h.current.audio_rev
                            => h'.current.pieces = h.current.pieces
                       /\ h'.current.rev >= h.current.rev
                       /\ h'.current.rev = h.current.rev => h'.current = h.current
<1>1. TypeOK /\ MarkerEntriesKeepSamples /\ CurrentIsNewest /\ [Next]_h
        => [Identify]_h
  <2> SUFFICES ASSUME TypeOK, MarkerEntriesKeepSamples, CurrentIsNewest, [Next]_h
               PROVE  Identify
    OBVIOUS
  <2>1. CASE FreshStamps
    BY <2>1, StampsAreNat DEF FreshStamps, CurrentIsNewest
  <2>2. CASE KeptStamps
    BY <2>2, StampsAreNat DEF KeptStamps
  <2> QED BY <2>1, <2>2, StepStamps
<1> QED BY <1>1, HistoryTypeOK, HistoryMarkerEntriesKeepSamples,
           HistoryCurrentIsNewest, PTL DEF Spec, RevisionsIdentifyContent

-----------------------------------------------------------------------------
(* History implements UndoLog: whatever the constants, the undo stack, the *)
(* current snapshot and the redo stack in reverse are one line of          *)
(* documents, and every call on the history is a step on that line or      *)
(* leaves it alone.                                                        *)

\* Priming the line and the position.
LEMMA PrimedLine ==
  /\ LineOf(h)' = LineOf(h')
  /\ PositionOf(h)' = PositionOf(h')
BY DEF LineOf, PositionOf, Content

-----------------------------------------------------------------------------
(* One lemma per call *)

\* An edit cuts the line after the current document and appends the new one.
LEMMA ApplyEdits ==
  ASSUME TypeOK, NEW e \in EditOps, Apply(e)
  PROVE  \E d \in Documents : UL!Edit(d)
<1>1. h \in HistoryState /\ h' = Commit(h, e)
  BY DEF TypeOK, Apply
<1> DEFINE d == Content(h'.current)
<1>2. /\ d \in Documents
      /\ PositionOf(h') = PositionOf(h) + 1
      /\ LineOf(h') = Append(SubSeq(LineOf(h), 1, PositionOf(h)), d)
  BY <1>1, CommitLine
<1>3. UL!Edit(d)
  BY <1>2, PrimedLine DEF UL!Edit
<1> QED BY <1>2, <1>3

\* Undo goes one document back on the line, and changes nothing on it.
LEMMA UndoWalksBack ==
  ASSUME TypeOK, Undo
  PROVE  UL!Undo
<1>1. h \in HistoryState /\ h' = Undone(h) /\ h.undo # <<>>
  BY DEF TypeOK, Undo
<1>2. LineOf(h') = LineOf(h) /\ PositionOf(h) > 1 /\ PositionOf(h') = PositionOf(h) - 1
  BY <1>1, UndoneLine
<1> QED BY <1>2, PrimedLine DEF UL!Undo

\* Redo is the mirror image of undo.
LEMMA RedoWalksForward ==
  ASSUME TypeOK, Redo
  PROVE  UL!Redo
<1>1. h \in HistoryState /\ h' = Redone(h) /\ h.redo # <<>>
  BY DEF TypeOK, Redo
<1>2. /\ LineOf(h') = LineOf(h) /\ PositionOf(h) < Len(LineOf(h))
      /\ PositionOf(h') = PositionOf(h) + 1
  BY <1>1, RedoneLine
<1> QED BY <1>2, PrimedLine DEF UL!Redo

\* The disk budget cuts the old end of the line.
LEMMA DropCutsOldEnd ==
  ASSUME TypeOK, NEW n \in 1..MaxSeq, DropOldestUndo(n)
  PROVE  n \in 1..Len(LineOf(h)) /\ UL!DropOldest(n)
<1>1. h \in HistoryState /\ n \in 1..Len(h.undo) /\ h' = DroppedOldest(h, n)
  BY DEF TypeOK, DropOldestUndo
<1>2. /\ n \in 1..Len(LineOf(h)) /\ n < PositionOf(h)
      /\ LineOf(h') = SubSeq(LineOf(h), n + 1, Len(LineOf(h)))
      /\ PositionOf(h') = PositionOf(h) - n
  BY <1>1, DroppedLine
<1> QED BY <1>2, PrimedLine DEF UL!DropOldest

\* A rebase happens without undo and redo, so it replaces the only document.
LEMMA RebaseReplaces ==
  ASSUME TypeOK, NEW p \in SUBSET Chunk, NEW M \in SUBSET MarkerId, Rebase(p, M)
  PROVE  \E d \in Documents : UL!Rebase(d)
<1>1. h \in HistoryState /\ h.undo = <<>> /\ h.redo = <<>> /\ h' = Rebased(h, p, M)
  BY DEF TypeOK, Rebase
<1> DEFINE d == Content(h'.current)
<1>2. /\ d \in Documents /\ LineOf(h') = <<d>> /\ Len(LineOf(h)) = 1
      /\ PositionOf(h') = PositionOf(h)
  BY <1>1, RebasedLine
<1>3. UL!Rebase(d)
  BY <1>2, PrimedLine DEF UL!Rebase
<1> QED BY <1>2, <1>3

\* The calls that only change counters.
LEMMA CountersStutter ==
  ASSUME TypeOK, h' \in HistoryState,
         h'.undo = h.undo, h'.redo = h.redo, h'.current = h.current
  PROVE  UNCHANGED <<LineOf(h), PositionOf(h)>>
<1>1. LineOf(h') = LineOf(h) /\ PositionOf(h') = PositionOf(h)
  BY DEF LineOf, PositionOf
<1> QED BY <1>1, PrimedLine

\* A new history is a line of one document.
LEMMA StartsWithOneDocument ==
  ASSUME Init
  PROVE  UL!Init
<1>1. PICK p \in SUBSET Chunk, M \in SUBSET MarkerId : h = New(p, M)
  BY DEF Init
<1>2. h \in HistoryState /\ h.undo = <<>> /\ h.redo = <<>>
  BY <1>1, NewType DEF New
<1>3. Content(h.current) \in Documents
  BY <1>2 DEF HistoryState, Snapshot, Content, Documents
<1>4. LineOf(h) = <<Content(h.current)>>
  BY <1>2, OneDocument
<1>5. PositionOf(h) = 1
  BY <1>2 DEF PositionOf
<1> QED BY <1>3, <1>4, <1>5 DEF UL!Init, Documents

\* Whatever the calls, undo and redo walk along one line of documents, an edit
\* replaces what lay ahead, and only the old end is ever cut: History
\* implements UndoLog.
THEOREM HistoryImplementsUndoLog == Spec => ImplementsUndoLog
<1>1. Init => UL!Init
  BY StartsWithOneDocument
<1>2. TypeOK /\ TypeOK' /\ [Next]_h => [UL!Next]_(UL!uvars)
  <2> SUFFICES ASSUME TypeOK, TypeOK', [Next]_h PROVE [UL!Next]_(UL!uvars)
    OBVIOUS
  <2>1. CASE \E e \in EditOps : Apply(e)
    BY <2>1, ApplyEdits DEF UL!Next, Documents
  <2>2. CASE Undo
    BY <2>2, UndoWalksBack DEF UL!Next
  <2>3. CASE Redo
    BY <2>3, RedoWalksForward DEF UL!Next
  <2>4. CASE \E n \in 1..MaxSeq : DropOldestUndo(n)
    BY <2>4, DropCutsOldEnd DEF UL!Next
  <2>5. CASE \E seq \in 0..MaxSeq : MarkSavedAt(seq)
    <3>1. h'.undo = h.undo /\ h'.redo = h.redo /\ h'.current = h.current
      BY <2>5 DEF MarkSavedAt, MarkedSavedAt, TypeOK, HistoryState
    <3> QED BY <3>1, CountersStutter DEF TypeOK, UL!uvars
  <2>6. CASE AllocateMarkerId
    <3>1. h'.undo = h.undo /\ h'.redo = h.redo /\ h'.current = h.current
      BY <2>6 DEF AllocateMarkerId, AllocatedMarker, TypeOK, HistoryState
    <3> QED BY <3>1, CountersStutter DEF TypeOK, UL!uvars
  <2>7. CASE \E p \in SUBSET Chunk, M \in SUBSET MarkerId : Rebase(p, M)
    BY <2>7, RebaseReplaces DEF UL!Next, Documents
  <2>8. CASE UNCHANGED h
    BY <2>8, CountersStutter DEF TypeOK, UL!uvars
  <2> QED BY <2>1, <2>2, <2>3, <2>4, <2>5, <2>6, <2>7, <2>8 DEF Next
<1> QED BY <1>1, <1>2, HistoryTypeOK, PTL DEF Spec, ImplementsUndoLog, UL!Spec

=============================================================================
