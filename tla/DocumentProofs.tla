--------------------------- MODULE DocumentProofs ---------------------------
(***************************************************************************)
(* Proofs about the document service, for any number of sessions, undo     *)
(* steps, generations and chunks and every mix of jobs, imports, closes,   *)
(* takes and compactions: the pieces of the document are in its store and  *)
(* play their audio, the engine plays the open document, and no take is    *)
(* deleted with a session.                                                 *)
(***************************************************************************)
EXTENDS Document, TLAPS

-----------------------------------------------------------------------------
(* Types *)

Doc == [sid : Sid, gen : 0..MaxGen, rate : Rates, rev : 1..4, cur : SUBSET Piece,
        undo : Seq(SUBSET Piece), redo : Seq(SUBSET Piece), take : BOOLEAN]

Store == [data : UNION {[D -> Audio] : D \in SUBSET (1..MaxChunk)}, next : Nat \ {0}]

FileClip  == [kind : {"file"}, audio : Audio, rate : Rates, meant : Audio,
              for : Sid \cup {0}, piece : Piece \cup {NoPiece}]
BoundClip == [kind : {"bound"}, piece : Piece, rate : Rates, owner : Sid]

PasteState == [st : {"run", "written", "rebind"}, sid : Sid, key : Key, rate : Rates,
               clip : FileClip, piece : Piece \cup {NoPiece}]
NormState  == [st : {"run", "written"}, sid : Sid, key : Key, rev : 1..4,
               read : SUBSET Piece, range : Piece, piece : Piece \cup {NoPiece}]
TakeState  == [st : {"run"}, sid : Sid, key : Key, kind : {"new", "op"},
               piece : Piece \cup {NoPiece}]

Types ==
  /\ doc \in Doc \cup {NoDoc}
  /\ clip \in {Empty} \cup FileClip \cup BoundClip
  /\ stores \in [Key -> Store]
  /\ fate \in [Sid -> {"unused", "new", "open", "closing", "left", "deleted"}]
  /\ paste \in PasteState \cup {NoJob}
  /\ norm \in NormState \cup {NoJob}
  /\ opener \in [st : {"import", "show"}, sid : Sid, rate : Rates] \cup {NoJob}
  /\ closer \in [st : {"taken", "kept"}, key : Key] \cup {NoJob}
  /\ rec \in TakeState \cup {NoJob}
  /\ owed \subseteq Sid /\ givenUp \subseteq Sid
  /\ slips \subseteq {"late", "foreign", "scan", "overtaken", "crossed"}

-----------------------------------------------------------------------------
(* The inductive invariant *)

Used(s) == fate[s] \notin {"unused", "new"}

\* A session is open in the document, being made or being closed, and no two of these.
FateInv ==
  /\ doc # NoDoc => fate[doc.sid] = "open"
  /\ opener # NoJob => fate[opener.sid] = "new"
  /\ closer # NoJob => fate[closer.key[1]] = "open" /\ closer.key[1] # doc.sid
  /\ \A s \in Sid : fate[s] = "unused" => stores[<<s, 0>>] = NoStore

\* Ids are given out in their order.
IdInv == \A k \in Key : \A n \in DOMAIN stores[k].data : n < stores[k].next

\* What a finished import has written.
OpenInv ==
  opener # NoJob =>
    /\ 1 \in DOMAIN stores[<<opener.sid, 0>>].data
    /\ stores[<<opener.sid, 0>>].data[1] = <<<<opener.sid, 0>>, 1>>

\* The document a take is recorded into stays as it is, or was left for recovery.
\* What a take is owed is in a session that was left, or in the document, which
\* then has the take open for good.
TakeInv ==
  /\ rec # NoJob => \/ doc # NoDoc /\ doc.sid = rec.sid /\ doc.take /\ rec.key = KeyOf(doc)
                    \/ fate[rec.sid] = "left"
  /\ rec # NoJob => rec.key[1] = rec.sid
  /\ rec # NoJob /\ doc # NoDoc /\ doc.sid = rec.sid /\ rec.piece # NoPiece =>
       rec.piece.id \in DOMAIN Data(doc)
  /\ \A s \in owed :
       \/ fate[s] = "left"
       \/ doc # NoDoc /\ doc.sid = s /\ doc.take /\ (rec # NoJob => rec.sid # s)

\* The sessions the jobs and the clipboard know have been opened.
UseInv ==
  /\ paste # NoJob => Used(paste.sid) /\ paste.key[1] = paste.sid
  /\ norm # NoJob => Used(norm.sid) /\ norm.key[1] = norm.sid
  /\ clip.kind = "file" /\ clip.for # 0 => Used(clip.for) /\ clip.piece \in Piece
  /\ clip.kind = "bound" => Used(clip.owner)

\* What the paste job has written, as long as no compaction left its store.
PasteInv ==
  /\ paste # NoJob /\ doc # NoDoc /\ doc.sid = paste.sid => paste.key[2] <= doc.gen
  /\ paste.st \in {"written", "rebind"} => paste.piece \in Piece
  /\ paste.st \in {"written", "rebind"} /\ doc # NoDoc /\ KeyOf(doc) = paste.key =>
       paste.piece.id \in DOMAIN Data(doc)

HistInv == doc # NoDoc => Ids(Pieces(doc)) \subseteq DOMAIN Data(doc)

\* The pieces that somebody names in session s.
Claimed(s) ==
  (IF doc # NoDoc /\ doc.sid = s THEN Pieces(doc) ELSE {})
    \cup Reachable(clip, s)
    \cup ({j.piece : j \in {x \in {paste, norm, rec} : x # NoJob /\ x.sid = s}} \ {NoPiece})

\* The id is not given out again, and if the store has it, it is what it was.
Named(p, key) ==
  /\ p.id < stores[key].next
  /\ p.id \in DOMAIN stores[key].data => stores[key].data[p.id] = p.audio

AudioInv ==
  slips \cap {"late", "foreign"} = {} =>
    /\ doc # NoDoc => \A p \in Claimed(doc.sid) : Named(p, KeyOf(doc))
    /\ clip.kind = "bound" =>
         IF doc # NoDoc THEN clip.owner = doc.sid
         ELSE closer.st = "taken" /\ clip.owner = closer.key[1] /\ Named(clip.piece, closer.key)
    /\ clip.kind = "file" => clip.audio = clip.meant

\* What the clipboard names stays in the store.
ClipInv ==
  slips \cap {"late", "foreign", "scan"} = {} /\ doc # NoDoc =>
    Ids(Reachable(clip, doc.sid)) \subseteq DOMAIN Data(doc)

EngineInv ==
  "crossed" \notin slips =>
    /\ opener.st = "show" => engine = Shown(Opened)
    /\ opener.st # "show" /\ closer = NoJob => engine = Shown(doc)

\* A revision belongs to one content.
NormInv ==
  norm # NoJob /\ doc # NoDoc /\ doc.sid = norm.sid /\ doc.rev = norm.rev => doc.cur = norm.read

\* The generations of a session are bounded.
HouseInv == house.st = "copy" => house.key[2] < MaxGen

DocInv ==
  /\ Types /\ FateInv /\ IdInv /\ OpenInv /\ TakeInv /\ UseInv /\ PasteInv /\ HistInv
  /\ AudioInv /\ ClipInv /\ EngineInv /\ NormInv /\ HouseInv

-----------------------------------------------------------------------------
(* Sequences of steps *)

LEMMA RangeOfAppend ==
  ASSUME NEW S, NEW s \in Seq(S), NEW x \in S
  PROVE  Range(Append(s, x)) = Range(s) \cup {x} /\ Append(s, x) \in Seq(S)
<1>1. Append(s, x) \in Seq(S) /\ Len(Append(s, x)) = Len(s) + 1
  OBVIOUS
<1>2. \A i \in 1..Len(s) : Append(s, x)[i] = s[i]
  OBVIOUS
<1>3. Append(s, x)[Len(s) + 1] = x
  OBVIOUS
<1>4. DOMAIN s = 1..Len(s) /\ DOMAIN Append(s, x) = 1..(Len(s) + 1)
  BY <1>1
<1>5. Len(s) \in Nat
  OBVIOUS
<1>6. 1..(Len(s) + 1) = (1..Len(s)) \cup {Len(s) + 1}
  BY <1>5
<1> HIDE DEF Range
<1>7. Range(Append(s, x)) \subseteq Range(s) \cup {x}
  BY <1>2, <1>3, <1>4, <1>6 DEF Range
<1>8. Range(s) \cup {x} \subseteq Range(Append(s, x))
  <2>1. \A i \in DOMAIN s : i \in DOMAIN Append(s, x) /\ Append(s, x)[i] = s[i]
    BY <1>2, <1>4, <1>6
  <2>2. Len(s) + 1 \in DOMAIN Append(s, x)
    BY <1>4, <1>6
  <2>3. Range(s) \subseteq Range(Append(s, x))
    BY <2>1 DEF Range
  <2>4. x \in Range(Append(s, x))
    BY <2>2, <1>3 DEF Range
  <2> QED  BY <2>3, <2>4
<1> QED  BY <1>1, <1>7, <1>8

LEMMA RangeOfPart ==
  ASSUME NEW S, NEW s \in Seq(S), NEW m \in 1..(Len(s) + 1), NEW n \in 0..Len(s)
  PROVE  Range(SubSeq(s, m, n)) \subseteq Range(s) /\ SubSeq(s, m, n) \in Seq(S)
<1>1. Len(s) \in Nat /\ DOMAIN s = 1..Len(s)
  OBVIOUS
<1>2. SubSeq(s, m, n) \in Seq(S)
  BY <1>1
<1>3. CASE m > n
  <2>1. Len(SubSeq(s, m, n)) = 0
    BY <1>1, <1>3
  <2>2. DOMAIN SubSeq(s, m, n) = {}
    BY <2>1, <1>2
  <2> QED  BY <2>2, <1>2 DEF Range
<1>4. CASE m <= n
  <2>1. Len(SubSeq(s, m, n)) = n - m + 1
    BY <1>1, <1>4
  <2>2. \A i \in 1..(n - m + 1) : SubSeq(s, m, n)[i] = s[m + i - 1] /\ m + i - 1 \in 1..Len(s)
    BY <1>1, <1>4
  <2>3. DOMAIN SubSeq(s, m, n) = 1..(n - m + 1)
    BY <2>1, <1>2
  <2> QED  BY <1>1, <1>2, <2>2, <2>3 DEF Range
<1> QED  BY <1>1, <1>3, <1>4

LEMMA RangeOfFront ==
  ASSUME NEW S, NEW s \in Seq(S), s # <<>>
  PROVE  /\ Range(Front(s)) \subseteq Range(s) /\ Front(s) \in Seq(S)
         /\ Last(s) \in Range(s) /\ Last(s) \in S
<1>1. Len(s) \in Nat /\ Len(s) # 0 /\ DOMAIN s = 1..Len(s)
  OBVIOUS
<1>2. 1 \in 1..(Len(s) + 1) /\ Len(s) - 1 \in 0..Len(s)
  BY <1>1
<1>3. Range(Front(s)) \subseteq Range(s) /\ Front(s) \in Seq(S)
  BY <1>2, RangeOfPart DEF Front
<1>4. Last(s) \in Range(s) /\ Last(s) \in S
  BY <1>1 DEF Last, Range
<1> QED  BY <1>3, <1>4

-----------------------------------------------------------------------------
(* Documents, revisions and stores *)

LEMMA PiecesAreTyped ==
  ASSUME NEW d \in Doc
  PROVE  Pieces(d) \in SUBSET Piece /\ d.cur \in SUBSET Piece /\ d.cur \subseteq Pieces(d)
<1>1. d.cur \in SUBSET Piece /\ d.undo \in Seq(SUBSET Piece) /\ d.redo \in Seq(SUBSET Piece)
  BY DEF Doc
<1>2. Range(d.undo) \subseteq SUBSET Piece /\ Range(d.redo) \subseteq SUBSET Piece
  BY <1>1 DEF Range
<1>3. \A T : T \subseteq SUBSET Piece => UNION T \subseteq Piece
  BY Zenon
<1> DEFINE A == UNION (Range(d.undo) \cup Range(d.redo))
<1>4. Range(d.undo) \cup Range(d.redo) \subseteq SUBSET Piece
  BY <1>2
<1>5. A \subseteq Piece
  BY <1>3, <1>4, Zenon
<1>6. d.cur \subseteq Piece
  BY <1>1
<1>7. Pieces(d) = d.cur \cup A
  BY DEF Pieces
<1> HIDE DEF A
<1> QED  BY <1>5, <1>6, <1>7

LEMMA KindsDiffer ==
  /\ NoDoc \notin Doc /\ NoDoc.sid = 0 /\ 0 \notin Sid
  /\ NoJob.st = "none"
  /\ \A d \in Doc : d.sid # 0 /\ d # NoDoc
  /\ NoPiece \notin Piece
  /\ \A j \in PasteState \cup NormState \cup TakeState : j # NoJob
<1>1. 0 \notin Sid
  BY DEF Sid
<1>2. \A d \in Doc : d.sid \in Sid
  BY DEF Doc
<1>3. NoDoc.sid = 0 /\ NoJob.st = "none" /\ NoPiece.id = 0
  BY DEF NoDoc, NoJob, NoPiece
<1>4. \A p \in Piece : p.id # 0
  BY DEF Piece
<1>5. \A j \in PasteState \cup NormState \cup TakeState : j.st # "none"
  BY DEF PasteState, NormState, TakeState
<1> QED  BY <1>1, <1>2, <1>3, <1>4, <1>5

\* The documents a key names.
LEMMA KeysAreTyped ==
  ASSUME NEW d \in Doc
  PROVE  KeyOf(d) \in Key /\ KeyOf(d)[1] = d.sid /\ KeyOf(d)[2] = d.gen
<1>1. d.sid \in Sid /\ d.gen \in 0..MaxGen
  BY DEF Doc
<1> QED  BY <1>1 DEF KeyOf, Key

\* Four revisions are enough for three that are remembered.
LEMMA NextRevIsNew ==
  ASSUME doc \in Doc, norm \in NormState \cup {NoJob}
  PROVE  NextRev \in 1..4 /\ NextRev # doc.rev /\ (norm # NoJob => NextRev # norm.rev)
<1> DEFINE Engines == {e.rev : e \in {x \in {engine} : x # NoDoc}}
           Norms   == {j.rev : j \in {x \in {norm} : x # NoJob}}
           known   == {doc.rev} \cup Engines \cup Norms
<1>1. PICK a : Engines \subseteq {a}
  <2>1. Engines \subseteq {engine.rev}
    OBVIOUS
  <2> QED  BY <2>1
<1>2. PICK b : Norms \subseteq {b}
  <2>1. Norms \subseteq {norm.rev}
    OBVIOUS
  <2> QED  BY <2>1
<1>3. known \subseteq {doc.rev, a, b}
  BY <1>1, <1>2
<1>4. norm # NoJob => norm.rev \in known
  OBVIOUS
<1>5. NextRev = CHOOSE n \in 1..4 : n \notin known /\ \A m \in 1..(n - 1) : m \in known
  BY DEF NextRev
<1>6. doc.rev \in known
  OBVIOUS
<1> HIDE DEF known
<1>7. \E n \in 1..4 : n \notin known /\ \A m \in 1..(n - 1) : m \in known
  <2>1. \/ 1 \notin known
        \/ 1 \in known /\ 2 \notin known
        \/ 1 \in known /\ 2 \in known /\ 3 \notin known
        \/ 1 \in known /\ 2 \in known /\ 3 \in known
    OBVIOUS
  <2>2. 1 \in known /\ 2 \in known /\ 3 \in known => 4 \notin known
    BY <1>3
  <2>3. CASE 1 \notin known
    <3>1. 1..(1 - 1) = {}
      OBVIOUS
    <3> QED  BY <2>3, <3>1
  <2>4. CASE 1 \in known /\ 2 \notin known
    <3>1. 1..(2 - 1) = {1}
      OBVIOUS
    <3> QED  BY <2>4, <3>1
  <2>5. CASE 1 \in known /\ 2 \in known /\ 3 \notin known
    <3>1. 1..(3 - 1) = {1, 2}
      OBVIOUS
    <3> QED  BY <2>5, <3>1
  <2>6. CASE 1 \in known /\ 2 \in known /\ 3 \in known
    <3>1. 1..(4 - 1) = {1, 2, 3}
      OBVIOUS
    <3> QED  BY <2>6, <2>2, <3>1
  <2> QED  BY <2>1, <2>3, <2>4, <2>5, <2>6
<1>8. NextRev \in 1..4 /\ NextRev \notin known
  <2> DEFINE P(n) == n \notin known /\ \A m \in 1..(n - 1) : m \in known
  <2>1. \E n \in 1..4 : P(n)
    BY <1>7
  <2>2. NextRev = CHOOSE n \in 1..4 : P(n)
    BY <1>5
  <2>3. P(NextRev) /\ NextRev \in 1..4
    <3> HIDE DEF P
    <3> QED  BY <2>1, <2>2
  <2> QED  BY <2>3
<1> QED  BY <1>4, <1>6, <1>8

\* A chunk that is written: the next id gets the audio, the others stay.
LEMMA WriteGoesOn ==
  ASSUME NEW key \in Key, NEW a \in Audio, stores \in [Key -> Store], CanWrite(key), IdInv,
         WriteAs(key, a)
  PROVE  LET n == stores[key].next IN
         /\ stores' \in [Key -> Store] /\ IdInv'
         /\ n \in 1..MaxChunk
         /\ \A k \in Key : k # key => stores'[k] = stores[k]
         /\ stores'[key].next = n + 1
         /\ DOMAIN stores'[key].data = DOMAIN stores[key].data \cup {n}
         /\ stores'[key].data[n] = a
         /\ \A i \in DOMAIN stores[key].data : stores'[key].data[i] = stores[key].data[i]
<1> DEFINE n == stores[key].next
           old == stores[key].data
           new == [i \in DOMAIN old \cup {n} |-> IF i = n THEN a ELSE old[i]]
<1>1. stores[key] \in Store
  OBVIOUS
<1>2. n \in Nat \ {0} /\ n <= MaxChunk
  BY <1>1 DEF Store, CanWrite
<1>3. MaxChunk \in Nat
  BY BoundsAreNat
<1>4. n \in 1..MaxChunk
  BY <1>2, <1>3
<1>5. PICK D \in SUBSET (1..MaxChunk) : old \in [D -> Audio]
  BY <1>1 DEF Store
<1>6. new \in [D \cup {n} -> Audio] /\ D \cup {n} \in SUBSET (1..MaxChunk) /\ DOMAIN old = D
  BY <1>4, <1>5
<1>7. stores' = [stores EXCEPT ![key] = [data |-> new, next |-> n + 1]]
  BY DEF WriteAs
<1>8. n \notin DOMAIN old /\ \A i \in DOMAIN old : i < n
  BY <1>2, <1>5 DEF IdInv
<1>9. new[n] = a /\ \A i \in DOMAIN old : new[i] = old[i]
  BY <1>8
<1>10. DOMAIN new = DOMAIN old \cup {n}
  OBVIOUS
<1>11. new \in UNION {[E -> Audio] : E \in SUBSET (1..MaxChunk)}
  BY <1>6
<1> HIDE DEF new
<1>12. [data |-> new, next |-> n + 1] \in Store
  BY <1>2, <1>11 DEF Store
<1>13. stores' \in [Key -> Store]
  BY <1>7, <1>12
<1>14. stores'[key].next = n + 1 /\ stores'[key].data = new
  BY <1>7
<1>15. \A k \in Key : k # key => stores'[k] = stores[k]
  BY <1>7
<1>16. \A i \in DOMAIN new : i < n + 1
  <2>1. DOMAIN old \subseteq Nat
    <3>1. 1..MaxChunk \subseteq Nat
      BY <1>3
    <3> QED  BY <1>6, <3>1
  <2> HIDE DEF n, old
  <2>2. \A i \in DOMAIN old : i \in Nat /\ i < n
    BY <1>8, <2>1
  <2>3. \A i \in DOMAIN old : i < n + 1
    BY <1>2, <2>2
  <2> QED  BY <1>2, <1>10, <2>3
<1>17. IdInv'
  BY <1>14, <1>15, <1>16 DEF IdInv
<1> QED  BY <1>4, <1>9, <1>10, <1>13, <1>14, <1>15, <1>17

-----------------------------------------------------------------------------
(* What the steps do, as the invariant sees them *)

\* A command, the end of a job or of a take changes the document's content.
Edited ==
  /\ doc \in Doc /\ doc' \in Doc
  /\ doc'.sid = doc.sid /\ doc'.gen = doc.gen /\ doc'.rev = NextRev
  /\ Pieces(doc') \subseteq Claimed(doc.sid)
  /\ Ids(Pieces(doc')) \subseteq DOMAIN Data(doc)
  /\ engine' = Shown(doc')
  /\ slips' = slips \cup Crossed
  /\ UNCHANGED <<stores, fate, opener, closer, owed>>
  /\ clip' = clip \/ \E p \in doc.cur : clip' = Bound(p, doc)
  /\ \/ paste' = paste
     \/ paste.st = "written" /\ paste' = [paste EXCEPT !.st = "rebind"]
  /\ norm' \in {norm, NoJob}
  /\ rec' = NoJob \/ (rec' = rec /\ ~doc.take)
  /\ ~doc.take \/ (rec # NoJob /\ rec.sid = doc.sid)

\* A take begins or ends in the document, or its oldest undo steps are dropped.
Turned ==
  /\ doc \in Doc /\ doc' \in Doc
  /\ doc'.sid = doc.sid /\ doc'.gen = doc.gen /\ doc'.rev = doc.rev /\ doc'.cur = doc.cur
  /\ Pieces(doc') \subseteq Pieces(doc)
  /\ UNCHANGED <<clip, stores, fate, paste, norm, opener, closer, engine, owed, slips>>
  /\ \/ rec' = rec /\ doc'.take = doc.take
     \/ ~doc.take /\ doc'.take /\ \E kind \in {"new", "op"} : rec' = Take(KeyOf(doc), kind)
     \/ rec # NoJob /\ rec.sid = doc.sid /\ rec' = NoJob

\* Another document takes the place of this one, which is closed or left for
\* recovery.
Replaced ==
  /\ doc' \in Doc /\ doc'.gen = 0 /\ Pieces(doc') = doc'.cur
  /\ \/ /\ doc'.cur = {} /\ fate[doc'.sid] = "unused"
        /\ engine' = Shown(doc') /\ opener' = opener /\ Crossed \subseteq slips'
     \/ /\ opener.st = "show" /\ doc' = Opened
        /\ engine' = engine /\ opener' = NoJob
  /\ clip' \in IF doc = NoDoc THEN {clip} ELSE Materialized(clip, KeyOf(doc))
  /\ stores' = WithoutSession(doc.sid)
  /\ \E f \in {"closing", "left"} :
       /\ fate' = IF doc = NoDoc THEN [fate EXCEPT ![doc'.sid] = "open"]
                  ELSE [fate EXCEPT ![doc'.sid] = "open", ![doc.sid] = f]
       /\ \/ rec' = rec /\ owed' = owed /\ (doc # NoDoc /\ doc.take => f = "left")
          \/ rec' = Take(KeyOf(doc'), "new") /\ doc'.take /\ owed' = owed /\ ~Recording
          \/ rec # NoJob /\ rec' = NoJob /\ f = "left" /\ owed' \subseteq owed \cup {rec.sid}
  /\ slips \cup NotKept \subseteq slips'
  /\ closer # NoJob => "crossed" \in slips'
  /\ slips' \subseteq slips \cup {"crossed", "foreign", "overtaken"}
  /\ UNCHANGED <<paste, norm, closer>>

\* A take ends and no document gets its audio.
TakeGone ==
  /\ rec # NoJob /\ rec' = NoJob
  /\ owed' \subseteq owed \cup {rec.sid}
  /\ UNCHANGED <<doc, clip, stores, fate, paste, norm, opener, closer, engine, slips>>

\* A job ends without a change.
PasteEnds ==
  /\ paste' = NoJob
  /\ UNCHANGED <<doc, clip, stores, fate, norm, opener, closer, rec, engine, owed, slips>>
NormEnds ==
  /\ norm' = NoJob
  /\ UNCHANGED <<doc, clip, stores, fate, paste, opener, closer, rec, engine, owed, slips>>

\* Nothing the invariant speaks of changes.
Idle ==
  UNCHANGED <<doc, clip, stores, fate, paste, norm, opener, closer, rec, engine, owed, slips>>

-----------------------------------------------------------------------------
(* Every action that changes the content is an edit *)

LEMMA PiecesOfCommit ==
  ASSUME NEW d \in Doc, NEW P \in SUBSET Piece, NEW e,
         e.cur = P, e.undo = Append(d.undo, d.cur), e.redo = <<>>
  PROVE  Pieces(e) \subseteq Pieces(d) \cup P /\ e.undo \in Seq(SUBSET Piece)
<1>1. d.undo \in Seq(SUBSET Piece) /\ d.cur \in SUBSET Piece
  BY DEF Doc
<1>2. e.undo \in Seq(SUBSET Piece) /\ Range(e.undo) = Range(d.undo) \cup {d.cur}
  BY <1>1, RangeOfAppend
<1>3. Range(e.redo) = {}
  BY DEF Range
<1>4. Range(e.undo) \cup Range(e.redo) \subseteq (Range(d.undo) \cup Range(d.redo)) \cup {d.cur}
  BY <1>2, <1>3
<1>5. \A A, B, x : A \subseteq B \cup {x} => UNION A \subseteq (UNION B) \cup x
  BY Zenon
<1>6. UNION (Range(e.undo) \cup Range(e.redo)) 
          \subseteq (UNION (Range(d.undo) \cup Range(d.redo))) \cup d.cur
  BY <1>4, <1>5, Zenon
<1> QED  BY <1>2, <1>6 DEF Pieces

LEMMA PiecesOfSteps ==
  ASSUME NEW d \in Doc, NEW e,
         e.cur \in {d.cur} \cup Range(d.undo) \cup Range(d.redo),
         Range(e.undo) \subseteq {d.cur} \cup Range(d.undo) \cup Range(d.redo),
         Range(e.redo) \subseteq {d.cur} \cup Range(d.undo) \cup Range(d.redo)
  PROVE  Pieces(e) \subseteq Pieces(d)
<1> DEFINE All(x) == {x.cur} \cup (Range(x.undo) \cup Range(x.redo))
<1>1. \A x : Pieces(x) = UNION All(x)
  <2>1. \A A, y : UNION ({y} \cup A) = y \cup UNION A
    BY Zenon
  <2> QED  BY <2>1, Zenon DEF Pieces
<1>2. All(e) \subseteq All(d)
  OBVIOUS
<1>3. \A A, B : A \subseteq B => UNION A \subseteq UNION B
  BY Zenon
<1>4. UNION All(e) \subseteq UNION All(d)
  <2> HIDE DEF All
  <2> QED  BY <1>2, <1>3, Zenon
<1> QED  BY <1>1, <1>4

\* commit_internal: the new content is made of pieces of the document, of the
\* clipboard and of the jobs.
LEMMA CommitsEdit ==
  ASSUME DocInv, doc # NoDoc, NEW P \in SUBSET Piece, P \subseteq Claimed(doc.sid),
         Ids(P) \subseteq DOMAIN Data(doc),
         doc' \in {[doc EXCEPT !.cur = P, !.rev = NextRev,
                               !.undo = Append(@, doc.cur), !.redo = <<>>],
                   [doc EXCEPT !.cur = P, !.rev = NextRev, !.take = FALSE,
                               !.undo = Append(@, doc.cur), !.redo = <<>>]}
  PROVE  /\ doc \in Doc /\ doc' \in Doc
         /\ doc'.sid = doc.sid /\ doc'.gen = doc.gen /\ doc'.rev = NextRev
         /\ Pieces(doc') \subseteq Claimed(doc.sid)
         /\ Ids(Pieces(doc')) \subseteq DOMAIN Data(doc)
<1>1. doc \in Doc /\ norm \in NormState \cup {NoJob}
  BY DEF DocInv, Types
<1>2. NextRev \in 1..4
  BY <1>1, NextRevIsNew
<1>3. doc.undo \in Seq(SUBSET Piece) /\ doc.cur \in SUBSET Piece
  BY <1>1 DEF Doc
<1>4. /\ doc'.sid = doc.sid /\ doc'.gen = doc.gen /\ doc'.rev = NextRev
      /\ doc'.take \in BOOLEAN /\ doc'.cur = P /\ doc'.undo = Append(doc.undo, doc.cur) /\ doc'.redo = <<>>
  BY <1>1 DEF Doc
<1>5. Pieces(doc') \subseteq Pieces(doc) \cup P /\ doc'.undo \in Seq(SUBSET Piece)
  <2>1. \A e : e.cur = P /\ e.undo = Append(doc.undo, doc.cur) /\ e.redo = <<>>
               => Pieces(e) \subseteq Pieces(doc) \cup P /\ e.undo \in Seq(SUBSET Piece)
    BY <1>1, PiecesOfCommit, Zenon
  <2>2. doc'.cur = P /\ doc'.undo = Append(doc.undo, doc.cur) /\ doc'.redo = <<>>
    BY <1>4
  <2> QED  BY <2>1, <2>2, Zenon
<1>6. doc' \in Doc
  <2>1. <<>> \in Seq(SUBSET Piece)
    OBVIOUS
  <2> QED  BY <1>1, <1>2, <1>3, <1>4, <1>5, <2>1 DEF Doc
<1>7. Pieces(doc) \subseteq Claimed(doc.sid)
  BY DEF Claimed
<1>8. Ids(Pieces(doc)) \subseteq DOMAIN Data(doc)
  BY DEF DocInv, HistInv
<1> HIDE DEF Pieces, Claimed, Data
<1>9. Ids(Pieces(doc')) \subseteq DOMAIN Data(doc)
  BY <1>5, <1>8 DEF Ids
<1> QED  BY <1>1, <1>4, <1>5, <1>6, <1>7, <1>9

LEMMA ClaimsHold ==
  ASSUME DocInv, doc # NoDoc
  PROVE  /\ doc \in Doc /\ doc.cur \subseteq Claimed(doc.sid) /\ doc.cur \subseteq Pieces(doc)
         /\ Reachable(clip, doc.sid) \subseteq Claimed(doc.sid)
         /\ Reachable(clip, doc.sid) \in SUBSET Piece
         /\ \A j \in {paste, norm, rec} :
              j # NoJob /\ j.sid = doc.sid /\ j.piece # NoPiece => j.piece \in Claimed(doc.sid)
<1>1. doc \in Doc
  BY DEF DocInv, Types
<1>2. doc.cur \subseteq Pieces(doc)
  BY <1>1, PiecesAreTyped
<1>3. Reachable(clip, doc.sid) \in SUBSET Piece
  <2>1. clip \in {Empty} \cup FileClip \cup BoundClip
    BY DEF DocInv, Types
  <2>2. clip.kind = "file" /\ clip.for = doc.sid => clip.piece \in Piece
    <3>1. doc.sid # 0
      BY <1>1, KindsDiffer
    <3> QED  BY <3>1 DEF DocInv, UseInv
  <2>3. clip.kind = "bound" => clip.piece \in Piece
    BY <2>1 DEF Empty, FileClip, BoundClip
  <2> QED  BY <2>2, <2>3 DEF Reachable
<1>4. /\ Pieces(doc) \subseteq Claimed(doc.sid) /\ Reachable(clip, doc.sid) \subseteq Claimed(doc.sid)
      /\ {j.piece : j \in {x \in {paste, norm, rec} : x # NoJob /\ x.sid = doc.sid}} \ {NoPiece}
           \subseteq Claimed(doc.sid)
  BY DEF Claimed
<1> HIDE DEF Claimed, Pieces
<1> QED  BY <1>1, <1>2, <1>3, <1>4

LEMMA EditsAreEdits ==
  ASSUME DocInv, EditCut \/ EditPaste \/ EditDelete
  PROVE  Edited
<1>1. doc # NoDoc /\ ~doc.take
  BY DEF EditCut, EditPaste, EditDelete, Command, Recording
<1>2. /\ doc \in Doc /\ doc.cur \subseteq Claimed(doc.sid) /\ doc.cur \subseteq Pieces(doc)
      /\ Reachable(clip, doc.sid) \subseteq Claimed(doc.sid)
      /\ Reachable(clip, doc.sid) \in SUBSET Piece
  BY <1>1, ClaimsHold
<1>3. doc.cur \in SUBSET Piece
  BY <1>2, PiecesAreTyped
<1>4. Ids(doc.cur) \subseteq DOMAIN Data(doc)
  <2>1. Ids(Pieces(doc)) \subseteq DOMAIN Data(doc)
    BY <1>1 DEF DocInv, HistInv
  <2> QED  BY <1>2, <2>1 DEF Ids
<1>5. PICK P \in SUBSET Piece :
        Commits(P) /\ P \subseteq Claimed(doc.sid) /\ Ids(P) \subseteq DOMAIN Data(doc)
  <2>1. CASE EditCut \/ EditDelete
    <3>1. PICK p \in doc.cur : Commits(doc.cur \ {p})
      BY <2>1 DEF EditCut, EditDelete
    <3>2. Ids(doc.cur \ {p}) \subseteq Ids(doc.cur)
      BY DEF Ids
    <3> QED  BY <1>2, <1>3, <1>4, <3>1, <3>2
  <2>2. CASE EditPaste
    <3>1. PICK p \in Reachable(clip, doc.sid) : CanCommit({p}) /\ Commits(doc.cur \cup {p})
      BY <2>2 DEF EditPaste
    <3>2. Ids(doc.cur \cup {p}) \subseteq DOMAIN Data(doc)
      <4>1. Ids({p}) \subseteq DOMAIN Data(doc)
        BY <3>1 DEF CanCommit
      <4> QED  BY <1>4, <4>1 DEF Ids
    <3> QED  BY <1>2, <1>3, <3>1, <3>2
  <2> QED  BY <2>1, <2>2
<1>6. /\ doc \in Doc /\ doc' \in Doc
      /\ doc'.sid = doc.sid /\ doc'.gen = doc.gen /\ doc'.rev = NextRev
      /\ Pieces(doc') \subseteq Claimed(doc.sid)
      /\ Ids(Pieces(doc')) \subseteq DOMAIN Data(doc)
  <2>1. doc' = [doc EXCEPT !.cur = P, !.rev = NextRev, !.undo = Append(@, doc.cur), !.redo = <<>>]
    BY <1>5 DEF Commits
  <2> QED  BY <1>1, <1>5, <2>1, CommitsEdit
<1>7. engine' = Shown(doc')
  BY <1>5 DEF Commits, Publishes
<1>8. /\ slips' = slips \cup Crossed
      /\ UNCHANGED <<stores, fate, opener, closer, owed, paste, norm, rec>>
      /\ clip' = clip \/ \E p \in doc.cur : clip' = Bound(p, doc)
  BY DEF EditCut, EditPaste, EditDelete, jobs
<1> QED  BY <1>1, <1>6, <1>7, <1>8 DEF Edited

LEMMA StepsAreEdits ==
  ASSUME DocInv, Undo \/ Redo
  PROVE  Edited
<1>1. doc # NoDoc /\ ~doc.take
  BY DEF Undo, Redo, Command, Recording
<1>2. doc \in Doc /\ norm \in NormState \cup {NoJob}
  BY <1>1 DEF DocInv, Types
<1>3. /\ doc.undo \in Seq(SUBSET Piece) /\ doc.redo \in Seq(SUBSET Piece)
      /\ doc.cur \in SUBSET Piece
  BY <1>2 DEF Doc
<1>4. NextRev \in 1..4
  BY <1>2, NextRevIsNew
<1>5. /\ doc' \in Doc
      /\ doc'.sid = doc.sid /\ doc'.gen = doc.gen /\ doc'.rev = NextRev
      /\ Pieces(doc') \subseteq Pieces(doc)
  <2>1. CASE Undo
    <3>1. /\ doc.undo # <<>>
          /\ doc' = [doc EXCEPT !.rev = NextRev, !.cur = Last(doc.undo), !.undo = Front(@),
                                !.redo = Append(@, doc.cur)]
      BY <2>1 DEF Undo
    <3>2. /\ Range(Front(doc.undo)) \subseteq Range(doc.undo) /\ Front(doc.undo) \in Seq(SUBSET Piece)
          /\ Last(doc.undo) \in Range(doc.undo) /\ Last(doc.undo) \in SUBSET Piece
      BY <1>3, <3>1, RangeOfFront
    <3>3. /\ Range(Append(doc.redo, doc.cur)) = Range(doc.redo) \cup {doc.cur}
          /\ Append(doc.redo, doc.cur) \in Seq(SUBSET Piece)
      BY <1>3, RangeOfAppend
    <3>4. /\ doc'.sid = doc.sid /\ doc'.gen = doc.gen /\ doc'.rev = NextRev
          /\ doc'.cur = Last(doc.undo) /\ doc'.undo = Front(doc.undo)
          /\ doc'.redo = Append(doc.redo, doc.cur)
      BY <1>2, <3>1 DEF Doc
    <3>5. doc' \in Doc
      BY <1>2, <1>4, <3>1, <3>2, <3>3 DEF Doc
    <3>6. /\ doc'.cur \in {doc.cur} \cup Range(doc.undo) \cup Range(doc.redo)
          /\ Range(doc'.undo) \subseteq {doc.cur} \cup Range(doc.undo) \cup Range(doc.redo)
          /\ Range(doc'.redo) \subseteq {doc.cur} \cup Range(doc.undo) \cup Range(doc.redo)
      BY <3>2, <3>3, <3>4
    <3>7. \A e : /\ e.cur \in {doc.cur} \cup Range(doc.undo) \cup Range(doc.redo)
                 /\ Range(e.undo) \subseteq {doc.cur} \cup Range(doc.undo) \cup Range(doc.redo)
                 /\ Range(e.redo) \subseteq {doc.cur} \cup Range(doc.undo) \cup Range(doc.redo)
                 => Pieces(e) \subseteq Pieces(doc)
      BY <1>2, PiecesOfSteps
    <3> QED  BY <3>4, <3>5, <3>6, <3>7
  <2>2. CASE Redo
    <3>1. /\ doc.redo # <<>>
          /\ doc' = [doc EXCEPT !.rev = NextRev, !.cur = Last(doc.redo), !.redo = Front(@),
                                !.undo = Append(@, doc.cur)]
      BY <2>2 DEF Redo
    <3>2. /\ Range(Front(doc.redo)) \subseteq Range(doc.redo) /\ Front(doc.redo) \in Seq(SUBSET Piece)
          /\ Last(doc.redo) \in Range(doc.redo) /\ Last(doc.redo) \in SUBSET Piece
      BY <1>3, <3>1, RangeOfFront
    <3>3. /\ Range(Append(doc.undo, doc.cur)) = Range(doc.undo) \cup {doc.cur}
          /\ Append(doc.undo, doc.cur) \in Seq(SUBSET Piece)
      BY <1>3, RangeOfAppend
    <3>4. /\ doc'.sid = doc.sid /\ doc'.gen = doc.gen /\ doc'.rev = NextRev
          /\ doc'.cur = Last(doc.redo) /\ doc'.redo = Front(doc.redo)
          /\ doc'.undo = Append(doc.undo, doc.cur)
      BY <1>2, <3>1 DEF Doc
    <3>5. doc' \in Doc
      BY <1>2, <1>4, <3>1, <3>2, <3>3 DEF Doc
    <3>6. /\ doc'.cur \in {doc.cur} \cup Range(doc.undo) \cup Range(doc.redo)
          /\ Range(doc'.undo) \subseteq {doc.cur} \cup Range(doc.undo) \cup Range(doc.redo)
          /\ Range(doc'.redo) \subseteq {doc.cur} \cup Range(doc.undo) \cup Range(doc.redo)
      BY <3>2, <3>3, <3>4
    <3>7. \A e : /\ e.cur \in {doc.cur} \cup Range(doc.undo) \cup Range(doc.redo)
                 /\ Range(e.undo) \subseteq {doc.cur} \cup Range(doc.undo) \cup Range(doc.redo)
                 /\ Range(e.redo) \subseteq {doc.cur} \cup Range(doc.undo) \cup Range(doc.redo)
                 => Pieces(e) \subseteq Pieces(doc)
      BY <1>2, PiecesOfSteps
    <3> QED  BY <3>4, <3>5, <3>6, <3>7
  <2> QED  BY <2>1, <2>2
<1>6. Pieces(doc) \subseteq Claimed(doc.sid)
  BY <1>1 DEF Claimed
<1>7. Ids(Pieces(doc)) \subseteq DOMAIN Data(doc)
  BY <1>1 DEF DocInv, HistInv
<1>8. /\ slips' = slips \cup Crossed /\ engine' = Shown(doc')
      /\ UNCHANGED <<stores, fate, opener, closer, owed, paste, norm, rec, clip>>
  BY DEF Undo, Redo, jobs, Publishes
<1>9. Pieces(doc') \subseteq Claimed(doc.sid) /\ Ids(Pieces(doc')) \subseteq DOMAIN Data(doc)
  BY <1>5, <1>6, <1>7 DEF Ids
<1> HIDE DEF Pieces, Claimed
<1> QED  BY <1>1, <1>2, <1>5, <1>8, <1>9 DEF Edited

\* The commits of the jobs and of a take.
LEMMA JobsEdit ==
  ASSUME DocInv, FinishPaste \/ FinishNormalize \/ CommitTake
  PROVE  Edited
<1>1. doc # NoDoc
  BY DEF FinishPaste, FinishNormalize, CommitTake, CanCommit
<1>2. /\ doc \in Doc /\ doc.cur \subseteq Claimed(doc.sid) /\ doc.cur \subseteq Pieces(doc)
      /\ \A j \in {paste, norm, rec} :
           j # NoJob /\ j.sid = doc.sid /\ j.piece # NoPiece => j.piece \in Claimed(doc.sid)
  BY <1>1, ClaimsHold
<1>3. doc.cur \in SUBSET Piece
  BY <1>2, PiecesAreTyped
<1>4. Ids(doc.cur) \subseteq DOMAIN Data(doc)
  <2>1. Ids(Pieces(doc)) \subseteq DOMAIN Data(doc)
    BY <1>1 DEF DocInv, HistInv
  <2> QED  BY <1>2, <2>1 DEF Ids
<1>5. /\ paste \in PasteState \cup {NoJob} /\ norm \in NormState \cup {NoJob}
      /\ rec \in TakeState \cup {NoJob}
  BY DEF DocInv, Types
<1>6. /\ slips' = slips \cup Crossed
      /\ UNCHANGED <<stores, fate, opener, closer, owed, clip>>
  BY DEF FinishPaste, FinishNormalize, CommitTake
<1>7. CASE FinishPaste
  <2>1. /\ paste.st = "written" /\ ~doc.take /\ paste.sid = doc.sid
        /\ Commits(doc.cur \cup {paste.piece}) /\ Ids({paste.piece}) \subseteq DOMAIN Data(doc)
        /\ paste' = [paste EXCEPT !.st = "rebind"] /\ norm' = norm /\ rec' = rec
    BY <1>1, <1>7 DEF FinishPaste, CanCommit, Recording
  <2>2. paste # NoJob
    BY <2>1, KindsDiffer
  <2>3. paste.piece \in Piece
    BY <2>1 DEF DocInv, PasteInv
  <2>4. paste.piece # NoPiece
    BY <2>3, KindsDiffer
  <2>5. paste.piece \in Claimed(doc.sid)
    BY <1>2, <2>1, <2>2, <2>4
  <2>6. /\ doc.cur \cup {paste.piece} \in SUBSET Piece
        /\ doc.cur \cup {paste.piece} \subseteq Claimed(doc.sid)
    BY <1>2, <1>3, <2>3, <2>5
  <2>7. Ids(doc.cur \cup {paste.piece}) \subseteq DOMAIN Data(doc)
    BY <1>4, <2>1 DEF Ids
  <2>8. doc' = [doc EXCEPT !.cur = doc.cur \cup {paste.piece}, !.rev = NextRev,
                           !.undo = Append(@, doc.cur), !.redo = <<>>]
    BY <2>1 DEF Commits
  <2>9. /\ doc \in Doc /\ doc' \in Doc
        /\ doc'.sid = doc.sid /\ doc'.gen = doc.gen /\ doc'.rev = NextRev
        /\ Pieces(doc') \subseteq Claimed(doc.sid)
        /\ Ids(Pieces(doc')) \subseteq DOMAIN Data(doc)
    BY <1>1, <2>6, <2>7, <2>8, CommitsEdit
  <2>10. engine' = Shown(doc')
    BY <2>1 DEF Commits, Publishes
  <2> QED  BY <1>6, <2>1, <2>9, <2>10 DEF Edited
<1>8. CASE FinishNormalize
  <2>1. /\ norm.st = "written" /\ ~doc.take /\ norm.sid = doc.sid
        /\ Commits((doc.cur \ {norm.range}) \cup {norm.piece})
        /\ Ids({norm.piece}) \subseteq DOMAIN Data(doc)
        /\ paste' = paste /\ norm' = NoJob /\ rec' = rec
    BY <1>1, <1>8 DEF FinishNormalize, CanCommit, Recording, Unedited
  <2>2. norm # NoJob
    BY <2>1, KindsDiffer
  <2>3. norm.piece # NoPiece /\ norm.piece \in Piece
    <3>1. norm.piece.id \in DOMAIN Data(doc)
      BY <2>1 DEF Ids
    <3>2. stores \in [Key -> Store] /\ KeyOf(doc) \in Key
      BY <1>2, KeysAreTyped DEF DocInv, Types
    <3>3. PICK D \in SUBSET (1..MaxChunk) : Data(doc) \in [D -> Audio]
      BY <3>2 DEF Store, Data
    <3>4. norm.piece.id \in 1..MaxChunk
      BY <3>1, <3>3
    <3>5. norm.piece.id # 0
      BY <3>4
    <3>6. norm.piece # NoPiece
      BY <3>5 DEF NoPiece
    <3>7. norm.piece \in Piece \cup {NoPiece}
      BY <1>5, <2>2 DEF NormState
    <3> QED  BY <3>6, <3>7
  <2>5. norm.piece \in Claimed(doc.sid)
    BY <1>2, <2>1, <2>2, <2>3
  <2>6. /\ (doc.cur \ {norm.range}) \cup {norm.piece} \in SUBSET Piece
        /\ (doc.cur \ {norm.range}) \cup {norm.piece} \subseteq Claimed(doc.sid)
    BY <1>2, <1>3, <2>3, <2>5
  <2>7. Ids((doc.cur \ {norm.range}) \cup {norm.piece}) \subseteq DOMAIN Data(doc)
    BY <1>4, <2>1 DEF Ids
  <2>8. doc' = [doc EXCEPT !.cur = (doc.cur \ {norm.range}) \cup {norm.piece}, !.rev = NextRev,
                           !.undo = Append(@, doc.cur), !.redo = <<>>]
    BY <2>1 DEF Commits
  <2>9. /\ doc \in Doc /\ doc' \in Doc
        /\ doc'.sid = doc.sid /\ doc'.gen = doc.gen /\ doc'.rev = NextRev
        /\ Pieces(doc') \subseteq Claimed(doc.sid)
        /\ Ids(Pieces(doc')) \subseteq DOMAIN Data(doc)
    BY <1>1, <2>6, <2>7, <2>8, CommitsEdit
  <2>10. engine' = Shown(doc')
    BY <2>1 DEF Commits, Publishes
  <2> QED  BY <1>6, <2>1, <2>9, <2>10 DEF Edited
<1>9. CASE CommitTake
  <2>1. /\ rec # NoJob /\ rec.piece # NoPiece /\ rec.sid = doc.sid
        /\ doc' = [doc EXCEPT !.cur = doc.cur \cup {rec.piece}, !.rev = NextRev, !.take = FALSE,
                              !.undo = Append(@, doc.cur), !.redo = <<>>]
        /\ engine' = Shown(doc')
        /\ paste' = paste /\ norm' = norm /\ rec' = NoJob
    BY <1>9 DEF CommitTake, Recorded, Publishes, jobs
  <2>2. rec.piece \in Piece
    BY <1>5, <2>1 DEF TakeState
  <2>3. rec.piece \in Claimed(doc.sid)
    BY <1>2, <2>1
  <2>4. rec.piece.id \in DOMAIN Data(doc)
    BY <1>1, <2>1 DEF DocInv, TakeInv
  <2>5. /\ doc.cur \cup {rec.piece} \in SUBSET Piece
        /\ doc.cur \cup {rec.piece} \subseteq Claimed(doc.sid)
    BY <1>2, <1>3, <2>2, <2>3
  <2>6. Ids(doc.cur \cup {rec.piece}) \subseteq DOMAIN Data(doc)
    BY <1>4, <2>4 DEF Ids
  <2>7. /\ doc \in Doc /\ doc' \in Doc
        /\ doc'.sid = doc.sid /\ doc'.gen = doc.gen /\ doc'.rev = NextRev
        /\ Pieces(doc') \subseteq Claimed(doc.sid)
        /\ Ids(Pieces(doc')) \subseteq DOMAIN Data(doc)
    BY <1>1, <2>1, <2>5, <2>6, CommitsEdit
  <2>8. /\ engine' = Shown(doc') /\ paste' = paste /\ norm' = norm /\ rec' = NoJob
        /\ rec # NoJob /\ rec.sid = doc.sid
    BY <2>1
  <2> QED  BY <1>6, <2>7, <2>8 DEF Edited
<1> QED  BY <1>7, <1>8, <1>9

-----------------------------------------------------------------------------
(* Turns and replacements *)

LEMMA PiecesOfDropped ==
  ASSUME NEW d \in Doc, NEW k \in 0..Len(d.undo), NEW e,
         e = [d EXCEPT !.undo = SubSeq(@, k + 1, Len(@))]
  PROVE  /\ e \in Doc /\ Pieces(e) \subseteq Pieces(d)
         /\ e.sid = d.sid /\ e.gen = d.gen /\ e.rev = d.rev /\ e.cur = d.cur /\ e.take = d.take
<1>1. d.undo \in Seq(SUBSET Piece)
  BY DEF Doc
<1>2. Len(d.undo) \in Nat /\ k + 1 \in 1..(Len(d.undo) + 1) /\ Len(d.undo) \in 0..Len(d.undo)
  BY <1>1
<1>3. /\ Range(SubSeq(d.undo, k + 1, Len(d.undo))) \subseteq Range(d.undo)
      /\ SubSeq(d.undo, k + 1, Len(d.undo)) \in Seq(SUBSET Piece)
  BY <1>1, <1>2, RangeOfPart
<1>4. /\ e.sid = d.sid /\ e.gen = d.gen /\ e.rev = d.rev /\ e.cur = d.cur /\ e.take = d.take
      /\ e.undo = SubSeq(d.undo, k + 1, Len(d.undo)) /\ e.redo = d.redo
  BY DEF Doc
<1>5. e \in Doc
  BY <1>3 DEF Doc
<1>6. Pieces(e) \subseteq Pieces(d)
  BY <1>3, <1>4, PiecesOfSteps
<1> QED  BY <1>4, <1>5, <1>6

LEMMA TakeTurns ==
  ASSUME NEW d \in Doc, NEW t \in BOOLEAN, NEW e, e = [d EXCEPT !.take = t]
  PROVE  /\ e \in Doc /\ Pieces(e) = Pieces(d)
         /\ e.sid = d.sid /\ e.gen = d.gen /\ e.rev = d.rev /\ e.cur = d.cur /\ e.take = t
<1>1. e \in Doc
  BY DEF Doc
<1>2. /\ e.sid = d.sid /\ e.gen = d.gen /\ e.rev = d.rev /\ e.cur = d.cur /\ e.take = t
      /\ e.undo = d.undo /\ e.redo = d.redo
  BY DEF Doc
<1> QED  BY <1>1, <1>2 DEF Pieces

LEMMA TurnsAreTurns ==
  ASSUME DocInv,
         \/ HouseStart \/ HouseBegins \/ BeginRecordingHere \/ BeginRecordOp \/ DiscardTake
         \/ CommitOpFails /\ ~Recording'
  PROVE  Turned
<1>1. doc # NoDoc
  BY DEF HouseStart, HouseBegins, Begins, BeginRecordingHere, BeginRecordOp, Command, DiscardTake,
     CommitOpFails
<1>2. doc \in Doc
  BY <1>1 DEF DocInv, Types
<1>3. UNCHANGED <<clip, stores, fate, paste, norm, opener, closer, engine, owed, slips>>
  BY DEF HouseStart, HouseBegins, BeginRecordingHere, BeginRecordOp, DiscardTake, CommitOpFails,
     jobs, ghosts
<1>4. CASE HouseStart \/ HouseBegins
  <2>1. rec' = rec
    BY <1>4 DEF HouseStart, HouseBegins
  <2>2. PICK k \in 0..Len(doc.undo) : doc' = [doc EXCEPT !.undo = SubSeq(@, k + 1, Len(@))]
    BY <1>4 DEF HouseStart, HouseBegins, Begins
  <2>3. /\ doc' \in Doc /\ Pieces(doc') \subseteq Pieces(doc)
        /\ doc'.sid = doc.sid /\ doc'.gen = doc.gen /\ doc'.rev = doc.rev /\ doc'.cur = doc.cur
        /\ doc'.take = doc.take
    <3>1. \A e : e = [doc EXCEPT !.undo = SubSeq(@, k + 1, Len(@))] =>
            /\ e \in Doc /\ Pieces(e) \subseteq Pieces(doc)
            /\ e.sid = doc.sid /\ e.gen = doc.gen /\ e.rev = doc.rev /\ e.cur = doc.cur
            /\ e.take = doc.take
      BY <1>2, PiecesOfDropped
    <3> QED  BY <2>2, <3>1, Zenon
  <2> QED  BY <1>2, <1>3, <2>1, <2>3 DEF Turned
<1>5. CASE BeginRecordingHere \/ BeginRecordOp \/ DiscardTake \/ (CommitOpFails /\ ~Recording')
  <2>1. \/ /\ ~doc.take /\ doc' = [doc EXCEPT !.take = TRUE]
           /\ \E kind \in {"new", "op"} : rec' = Take(KeyOf(doc), kind)
        \/ /\ doc' \in {doc, [doc EXCEPT !.take = FALSE]}
           /\ rec # NoJob /\ rec.sid = doc.sid /\ rec' = NoJob
    BY <1>1, <1>5 DEF BeginRecordingHere, BeginRecordOp, DiscardTake, CommitOpFails, ClosesTake,
       Command, Recording
  <2>2. \A e, t : t \in BOOLEAN /\ e = [doc EXCEPT !.take = t] =>
          /\ e \in Doc /\ Pieces(e) = Pieces(doc)
          /\ e.sid = doc.sid /\ e.gen = doc.gen /\ e.rev = doc.rev /\ e.cur = doc.cur
          /\ e.take = t
    BY <1>2, TakeTurns
  <2>3. CASE rec # NoJob /\ rec.sid = doc.sid /\ rec' = NoJob /\ doc' = [doc EXCEPT !.take = FALSE]
    BY <1>2, <1>3, <2>2, <2>3 DEF Turned
  <2>4. CASE rec # NoJob /\ rec.sid = doc.sid /\ rec' = NoJob /\ doc' = doc
    BY <1>2, <1>3, <2>4 DEF Turned
  <2>5. CASE /\ ~doc.take /\ doc' = [doc EXCEPT !.take = TRUE]
             /\ \E kind \in {"new", "op"} : rec' = Take(KeyOf(doc), kind)
    BY <1>2, <1>3, <2>2, <2>5 DEF Turned
  <2> QED  BY <2>1, <2>3, <2>4, <2>5
<1> QED  BY <1>4, <1>5

\* A take that is lost, or whose commit fails with no way out, leaves all the rest.
LEMMA TakesGo ==
  ASSUME DocInv, TakeIsLost \/ CommitTakeStuck \/ (CommitOpFails /\ Recording')
  PROVE  TakeGone
<1>1. CASE TakeIsLost \/ CommitTakeStuck
  BY <1>1 DEF TakeIsLost, CommitTakeStuck, TakeGone, jobs
<1>2. CASE CommitOpFails /\ Recording'
  <2>1. doc \in Doc
    BY <1>2 DEF DocInv, Types, CommitOpFails
  <2>2. doc' = doc
    BY <1>2, <2>1 DEF CommitOpFails, ClosesTake, Recording, Doc
  <2>3. owed' \subseteq owed \cup {rec.sid}
    BY <1>2 DEF CommitOpFails
  <2> QED  BY <1>2, <2>2, <2>3 DEF CommitOpFails, TakeGone, jobs
<1> QED  BY <1>1, <1>2

LEMMA NewDocIsADocument ==
  ASSUME NEW s \in Sid, NEW rate \in Rates, NEW P \in SUBSET Piece
  PROVE  /\ NewDoc(s, rate, P) \in Doc /\ NewDoc(s, rate, P).sid = s
         /\ NewDoc(s, rate, P).gen = 0 /\ NewDoc(s, rate, P).cur = P
         /\ Pieces(NewDoc(s, rate, P)) = P /\ KeyOf(NewDoc(s, rate, P)) = <<s, 0>>
<1> DEFINE d == NewDoc(s, rate, P)
<1>1. MaxGen \in Nat
  BY BoundsAreNat
<1>2. 0 \in 0..MaxGen /\ 1 \in 1..4 /\ <<>> \in Seq(SUBSET Piece)
  BY <1>1
<1>3. d \in Doc
  BY <1>2 DEF Doc, NewDoc
<1>4. /\ d.sid = s /\ d.gen = 0 /\ d.cur = P /\ d.rev = 1
      /\ d.undo = <<>> /\ d.redo = <<>>
  BY DEF NewDoc
<1>5. Range(d.undo) = {} /\ Range(d.redo) = {}
  BY <1>4 DEF Range
<1>6. UNION (Range(d.undo) \cup Range(d.redo)) = {}
  BY <1>5
<1>7. Pieces(d) = P
  BY <1>4, <1>6 DEF Pieces
<1>8. KeyOf(d) = <<s, 0>>
  BY <1>4 DEF KeyOf
<1> QED  BY <1>3, <1>4, <1>7, <1>8, Zenon

\* An open, a take that needs a document of its own and a take that cannot be
\* committed replace the document.
LEMMA ReplacingReplaces ==
  ASSUME DocInv, OpenInstall \/ BeginRecordingNew \/ CommitTakeFails
  PROVE  Replaced
<1> DEFINE Chunk == [id |-> 1, audio |-> <<<<opener.sid, 0>>, 1>>]
<1>1. 0 \in 0..MaxGen /\ 1 \in 1..MaxChunk
  <2>1. MaxGen \in Nat /\ MaxChunk \in Nat
    BY BoundsAreNat
  <2> QED  BY <2>1, ImportFits DEF ImportFits
<1>2. CASE OpenInstall
  <2>1. opener.st = "show" /\ Replaces(Opened) /\ opener' = NoJob
    BY <1>2 DEF OpenInstall
  <2>2. opener \in [st : {"import", "show"}, sid : Sid, rate : Rates]
    <3>1. opener # NoJob
      BY <2>1, KindsDiffer
    <3> QED  BY <3>1 DEF DocInv, Types
  <2>3. opener.sid \in Sid /\ opener.rate \in Rates
    BY <2>2
  <2>4. Chunk \in Piece
    BY <1>1, <2>3 DEF Piece, Audio, Key
  <2>5. {Chunk} \in SUBSET Piece
    BY <2>4
  <2>6. Opened = NewDoc(opener.sid, opener.rate, {Chunk})
    BY DEF Opened
  <2> HIDE DEF Chunk
  <2>7. Opened \in Doc /\ Opened.gen = 0 /\ Pieces(Opened) = Opened.cur /\ Opened.sid = opener.sid
    BY <2>3, <2>5, <2>6, NewDocIsADocument
  <2>8. doc' = Opened /\ doc' \in Doc /\ doc'.gen = 0 /\ Pieces(doc') = doc'.cur
    BY <2>1, <2>7 DEF Replaces
  <2>9. /\ clip' \in IF doc = NoDoc THEN {clip} ELSE Materialized(clip, KeyOf(doc))
        /\ stores' = WithoutSession(doc.sid)
    BY <2>1 DEF Replaces
  <2>10. \E f \in {"closing", "left"} :
           /\ fate' = IF doc = NoDoc THEN [fate EXCEPT ![doc'.sid] = "open"]
                      ELSE [fate EXCEPT ![doc'.sid] = "open", ![doc.sid] = f]
           /\ doc # NoDoc /\ doc.take => f = "left"
    <3>1. CASE Recording
      BY <2>1, <2>8, <3>1 DEF Replaces, Recording
    <3>2. CASE ~Recording
      BY <2>1, <2>8, <3>2 DEF Replaces, Recording
    <3> QED  BY <3>1, <3>2
  <2>11. /\ rec' = rec /\ owed' = owed /\ engine' = engine
         /\ UNCHANGED <<paste, norm, closer>>
         /\ slips' = slips \cup (IF closer # NoJob THEN {"crossed"} ELSE {}) \cup NotKept
                           \cup (IF Recording THEN {"overtaken"} ELSE {})
    BY <1>2 DEF OpenInstall, jobs
  <2>12. /\ slips \cup NotKept \subseteq slips'
         /\ closer # NoJob => "crossed" \in slips'
         /\ slips' \subseteq slips \cup {"crossed", "foreign", "overtaken"}
    BY <2>11 DEF NotKept
  <2>13. \E f \in {"closing", "left"} :
           /\ fate' = IF doc = NoDoc THEN [fate EXCEPT ![doc'.sid] = "open"]
                      ELSE [fate EXCEPT ![doc'.sid] = "open", ![doc.sid] = f]
           /\ \/ rec' = rec /\ owed' = owed /\ (doc # NoDoc /\ doc.take => f = "left")
              \/ rec' = Take(KeyOf(doc'), "new") /\ doc'.take /\ owed' = owed /\ ~Recording
              \/ rec # NoJob /\ rec' = NoJob /\ f = "left" /\ owed' \subseteq owed \cup {rec.sid}
    BY <2>10, <2>11
  <2>14. UNCHANGED <<paste, norm, closer>> /\ engine' = engine
    BY <2>11
  <2> QED  BY <2>1, <2>8, <2>9, <2>12, <2>13, <2>14 DEF Replaced
<1>3. CASE BeginRecordingNew
  <2>1. ~Recording /\ slips' = slips \cup Crossed /\ UNCHANGED <<paste, norm, opener, closer, owed>>
    BY <1>3 DEF BeginRecordingNew, jobs
  <2>2. PICK s \in Sid, rate \in Rates :
          /\ NewSession(s)
          /\ Replaces([NewDoc(s, rate, {}) EXCEPT !.take = TRUE])
          /\ Publishes
          /\ rec' = Take(<<s, 0>>, "new")
    BY <1>3 DEF BeginRecordingNew
  <2> DEFINE d == NewDoc(s, rate, {})
  <2>3. d \in Doc /\ d.sid = s /\ d.gen = 0 /\ d.cur = {} /\ Pieces(d) = {}
    BY NewDocIsADocument
  <2>4. doc' = [d EXCEPT !.take = TRUE]
    BY <2>2 DEF Replaces
  <2> HIDE DEF d
  <2>5. /\ doc' \in Doc /\ doc'.sid = s /\ doc'.gen = 0 /\ doc'.cur = {} /\ doc'.take
        /\ Pieces(doc') = {}
    <3>1. \A e : e = [d EXCEPT !.take = TRUE] =>
            /\ e \in Doc /\ Pieces(e) = Pieces(d)
            /\ e.sid = d.sid /\ e.gen = d.gen /\ e.cur = d.cur /\ e.take = TRUE
      BY <2>3, TakeTurns
    <3> QED  BY <2>3, <2>4, <3>1
  <2>6. /\ clip' \in IF doc = NoDoc THEN {clip} ELSE Materialized(clip, KeyOf(doc))
        /\ stores' = WithoutSession(doc.sid)
        /\ engine' = Shown(doc')
    BY <2>2 DEF Replaces, Publishes
  <2>7. fate' = IF doc = NoDoc THEN [fate EXCEPT ![doc'.sid] = "open"]
                ELSE [fate EXCEPT ![doc'.sid] = "open", ![doc.sid] = "closing"]
    BY <2>1, <2>2, <2>4, <2>5 DEF Replaces
  <2>8. rec' = Take(KeyOf(doc'), "new")
    BY <2>2, <2>5 DEF KeyOf
  <2>9. /\ slips \cup NotKept \subseteq slips' /\ Crossed \subseteq slips'
        /\ closer # NoJob => "crossed" \in slips'
        /\ slips' \subseteq slips \cup {"crossed", "foreign", "overtaken"}
    BY <2>1 DEF NotKept, Crossed
  <2>10. fate[doc'.sid] = "unused"
    BY <2>2, <2>5 DEF NewSession
  <2>11. UNCHANGED <<paste, norm, closer, opener, owed>>
    BY <2>1
  <2>12. \E f \in {"closing", "left"} :
           /\ fate' = IF doc = NoDoc THEN [fate EXCEPT ![doc'.sid] = "open"]
                      ELSE [fate EXCEPT ![doc'.sid] = "open", ![doc.sid] = f]
           /\ \/ rec' = rec /\ owed' = owed /\ (doc # NoDoc /\ doc.take => f = "left")
              \/ rec' = Take(KeyOf(doc'), "new") /\ doc'.take /\ owed' = owed /\ ~Recording
              \/ rec # NoJob /\ rec' = NoJob /\ f = "left" /\ owed' \subseteq owed \cup {rec.sid}
    BY <2>1, <2>5, <2>7, <2>8, <2>11
  <2> QED  BY <2>5, <2>6, <2>9, <2>10, <2>11, <2>12 DEF Replaced
<1>4. CASE CommitTakeFails
  <2>1. /\ rec # NoJob /\ doc # NoDoc /\ rec' = NoJob
        /\ owed' \subseteq owed \cup {rec.sid}
        /\ slips' = slips \cup Crossed /\ UNCHANGED <<paste, norm, opener, closer>>
    BY <1>4 DEF CommitTakeFails, jobs
  <2>2. PICK s \in Sid :
          /\ NewSession(s)
          /\ doc' = NewDoc(s, doc.rate, {})
          /\ clip' \in Materialized(clip, KeyOf(doc))
          /\ fate' = [fate EXCEPT ![s] = "open", ![doc.sid] = "left"]
          /\ stores' = WithoutSession(doc.sid)
          /\ Publishes
    BY <1>4 DEF CommitTakeFails
  <2>3. doc.rate \in Rates
    <3>1. doc \in Doc
      BY <2>1 DEF DocInv, Types
    <3> QED  BY <3>1 DEF Doc
  <2>4. doc' \in Doc /\ doc'.sid = s /\ doc'.gen = 0 /\ doc'.cur = {} /\ Pieces(doc') = {}
    BY <2>2, <2>3, NewDocIsADocument
  <2>5. /\ clip' \in IF doc = NoDoc THEN {clip} ELSE Materialized(clip, KeyOf(doc))
        /\ stores' = WithoutSession(doc.sid)
        /\ engine' = Shown(doc')
    BY <2>1, <2>2 DEF Publishes
  <2>6. fate' = IF doc = NoDoc THEN [fate EXCEPT ![doc'.sid] = "open"]
                ELSE [fate EXCEPT ![doc'.sid] = "open", ![doc.sid] = "left"]
    BY <2>1, <2>2, <2>4
  <2>7. /\ slips \cup NotKept \subseteq slips' /\ Crossed \subseteq slips'
        /\ closer # NoJob => "crossed" \in slips'
        /\ slips' \subseteq slips \cup {"crossed", "foreign", "overtaken"}
    BY <2>1 DEF NotKept, Crossed
  <2>8. fate[doc'.sid] = "unused"
    BY <2>2, <2>4 DEF NewSession
  <2>9. UNCHANGED <<paste, norm, closer, opener>>
    BY <2>1
  <2>10. \E f \in {"closing", "left"} :
           /\ fate' = IF doc = NoDoc THEN [fate EXCEPT ![doc'.sid] = "open"]
                      ELSE [fate EXCEPT ![doc'.sid] = "open", ![doc.sid] = f]
           /\ \/ rec' = rec /\ owed' = owed /\ (doc # NoDoc /\ doc.take => f = "left")
              \/ rec' = Take(KeyOf(doc'), "new") /\ doc'.take /\ owed' = owed /\ ~Recording
              \/ rec # NoJob /\ rec' = NoJob /\ f = "left" /\ owed' \subseteq owed \cup {rec.sid}
    BY <2>1, <2>6
  <2> QED  BY <2>4, <2>5, <2>7, <2>8, <2>9, <2>10 DEF Replaced
<1> QED  BY <1>2, <1>3, <1>4

\* Every step is one of these.
LEMMA KindOfStep ==
  ASSUME DocInv, [Next]_vars
  PROVE  \/ Edited \/ Turned \/ Replaced \/ PasteEnds \/ NormEnds \/ Idle
         \/ EditCopy \/ BeginOpen \/ OpenFails \/ OpenShow
         \/ CloseTakes \/ CloseClipboard \/ CloseEngine \/ (\E s \in Sid : CloseSession(s))
         \/ BeginPaste \/ PasteImports \/ RebindClipboard \/ BeginNormalize \/ NormalizeWrites
         \/ HouseSwitches \/ TakeWrites \/ TakeGone
<1>1. CASE Edit
  BY <1>1, EditsAreEdits, StepsAreEdits DEF Edit
<1>2. CASE Open
  BY <1>2, ReplacingReplaces DEF Open
<1>3. CASE Close
  BY <1>3 DEF Close
<1>4. CASE PasteJob
  <2>1. AbandonPaste \/ PasteRefused => PasteEnds
    BY DEF AbandonPaste, PasteRefused, PasteEnds, ghosts
  <2> QED  BY <1>4, <2>1, JobsEdit DEF PasteJob
<1>5. CASE NormalizeJob
  <2>1. AbandonNormalize \/ NormalizeRefused => NormEnds
    BY DEF AbandonNormalize, NormalizeRefused, NormEnds, ghosts
  <2> QED  BY <1>5, <2>1, JobsEdit DEF NormalizeJob
<1>6. CASE HouseStart \/ Housekeeping
  <2>1. HouseStops => Idle
    BY DEF HouseStops, Idle, ghosts
  <2> QED  BY <1>6, <2>1, TurnsAreTurns DEF Housekeeping
<1>7. CASE Record
  BY <1>7, TurnsAreTurns, TakesGo, ReplacingReplaces, JobsEdit DEF Record
<1>8. CASE UNCHANGED vars
  BY <1>8 DEF vars, jobs, ghosts, Idle
<1> QED  BY <1>1, <1>2, <1>3, <1>4, <1>5, <1>6, <1>7, <1>8 DEF Next

-----------------------------------------------------------------------------
(* What a step does to the sessions *)

\* The session that leaves for recovery stays, and one that was opened is never new again.
LEMMA FateGoesOn ==
  ASSUME DocInv, [Next]_vars
  PROVE  /\ fate' \in [Sid -> {"unused", "new", "open", "closing", "left", "deleted"}]
         /\ \A s \in Sid : fate[s] = "left" => fate'[s] = "left"
         /\ \A s \in Sid : Used(s) => Used(s)'
<1> DEFINE Fates == {"unused", "new", "open", "closing", "left", "deleted"}
           Goes(f) == /\ f \in [Sid -> Fates]
                      /\ \A s \in Sid : fate[s] = "left" => f[s] = "left"
                      /\ \A s \in Sid : Used(s) => f[s] \notin {"unused", "new"}
<1>1. fate \in [Sid -> Fates]
  BY DEF DocInv, Types
<1>2. CASE fate' = fate
  BY <1>1, <1>2 DEF Used
<1>3. CASE \E s \in Sid, x \in Fates :
             /\ fate' = [fate EXCEPT ![s] = x] /\ fate[s] # "left"
             /\ Used(s) => x \notin {"unused", "new"}
  BY <1>1, <1>3 DEF Used
<1>4. doc # NoDoc => doc.sid \in Sid /\ fate[doc.sid] = "open"
  <2>1. doc # NoDoc => doc \in Doc
    BY DEF DocInv, Types
  <2> QED  BY <2>1 DEF DocInv, FateInv, Doc
<1>5. CASE Replaced
  <2>1. doc'.sid \in Sid /\ fate[doc'.sid] \in {"unused", "new"}
    <3>1. doc' \in Doc
      BY <1>5 DEF Replaced
    <3>2. CASE fate[doc'.sid] = "unused"
      BY <3>1, <3>2 DEF Doc
    <3>3. CASE opener.st = "show" /\ doc' = Opened
      <4>1. opener # NoJob
        BY <3>3, KindsDiffer
      <4>2. fate[opener.sid] = "new"
        BY <4>1 DEF DocInv, FateInv
      <4>3. doc'.sid = opener.sid
        BY <3>3 DEF Opened, NewDoc
      <4> QED  BY <3>1, <4>2, <4>3 DEF Doc
    <3> QED  BY <1>5, <3>2, <3>3 DEF Replaced
  <2>2. PICK f \in {"closing", "left"} :
          fate' = IF doc = NoDoc THEN [fate EXCEPT ![doc'.sid] = "open"]
                  ELSE [fate EXCEPT ![doc'.sid] = "open", ![doc.sid] = f]
    BY <1>5 DEF Replaced
  <2>3. CASE doc = NoDoc
    BY <1>1, <2>1, <2>2, <2>3 DEF Used
  <2>4. CASE doc # NoDoc
    <3>1. fate' = [fate EXCEPT ![doc'.sid] = "open", ![doc.sid] = f]
      BY <2>2, <2>4
    <3> QED  BY <1>1, <1>4, <2>1, <2>4, <3>1 DEF Used
  <2> QED  BY <2>3, <2>4
<1>6. CASE BeginOpen
  <2>1. PICK s \in Sid : NewSession(s) /\ fate' = [fate EXCEPT ![s] = "new"]
    BY <1>6 DEF BeginOpen
  <2>2. fate[s] = "unused"
    BY <2>1 DEF NewSession
  <2> QED  BY <1>3, <2>1, <2>2 DEF Used
<1>7. CASE OpenFails
  <2>1. opener # NoJob /\ fate' = [fate EXCEPT ![opener.sid] = "deleted"]
    BY <1>7, KindsDiffer DEF OpenFails
  <2>2. opener.sid \in Sid /\ fate[opener.sid] = "new"
    BY <2>1 DEF DocInv, Types, FateInv
  <2> QED  BY <1>3, <2>1, <2>2
<1>8. CASE CloseEngine
  <2>1. closer # NoJob /\ fate' = [fate EXCEPT ![closer.key[1]] = "closing"]
    BY <1>8, KindsDiffer DEF CloseEngine
  <2>2. closer.key \in Key /\ fate[closer.key[1]] = "open"
    BY <2>1 DEF DocInv, Types, FateInv
  <2>3. closer.key[1] \in Sid
    BY <2>2 DEF Key
  <2> QED  BY <1>3, <2>1, <2>2, <2>3
<1>9. CASE \E s \in Sid : CloseSession(s)
  <2>1. PICK s \in Sid : fate[s] = "closing" /\ fate' = [fate EXCEPT ![s] = IF InUse(s) THEN "left" ELSE "deleted"]
    BY <1>9 DEF CloseSession
  <2>2. PICK x \in {"left", "deleted"} : x = IF InUse(s) THEN "left" ELSE "deleted"
    OBVIOUS
  <2> QED  BY <1>3, <2>1, <2>2
<1>10. CASE \/ Edited \/ Turned \/ PasteEnds \/ NormEnds \/ Idle \/ EditCopy \/ OpenShow
            \/ CloseTakes \/ CloseClipboard \/ BeginPaste \/ PasteImports \/ RebindClipboard
            \/ BeginNormalize \/ NormalizeWrites \/ HouseSwitches \/ TakeWrites \/ TakeGone
  <2>1. fate' = fate
    BY <1>10 DEF Edited, Turned, PasteEnds, NormEnds, Idle, EditCopy, OpenShow, CloseTakes,
       CloseClipboard, BeginPaste, PasteImports, RebindClipboard, BeginNormalize,
       NormalizeWrites, HouseSwitches, TakeWrites, TakeGone
  <2> QED  BY <1>2, <2>1
<1> QED  BY <1>5, <1>6, <1>7, <1>8, <1>9, <1>10, KindOfStep

-----------------------------------------------------------------------------
(* Types are kept *)

LEMMA HouseIsBounded ==
  ASSUME HouseInv, [Next]_vars
  PROVE  HouseInv'
<1>1. CASE HouseStart \/ HouseBegins
  <2>1. doc.gen < MaxGen /\ house'.key = KeyOf(doc)
    BY <1>1 DEF HouseStart, HouseBegins, Begins
  <2> QED  BY <2>1 DEF HouseInv, KeyOf
<1>2. CASE HouseSwitches \/ HouseStops
  BY <1>2 DEF HouseSwitches, HouseStops, HouseInv, NoJob
<1>3. CASE house' = house
  BY <1>3 DEF HouseInv
<1>4. CASE Edit \/ Open \/ Close \/ (\E s \in Sid : CloseSession(s))
  BY <1>3, <1>4 DEF Edit, EditCut, EditCopy, EditPaste, EditDelete, Undo, Redo, Open, BeginOpen,
     OpenFails, OpenShow, OpenInstall, Close, CloseTakes, CloseClipboard, CloseEngine,
     CloseSession, jobs
<1>5. CASE BeginPaste \/ PasteJob \/ BeginNormalize \/ NormalizeJob
  BY <1>3, <1>5 DEF BeginPaste, PasteJob, PasteImports, AbandonPaste, FinishPaste, PasteRefused,
     RebindClipboard, BeginNormalize, NormalizeJob, NormalizeWrites, AbandonNormalize,
     FinishNormalize, NormalizeRefused
<1>6. CASE Record
  BY <1>3, <1>6 DEF Record, BeginRecordingHere, BeginRecordingNew, BeginRecordOp, TakeWrites,
     CommitTake, DiscardTake, CommitOpFails, CommitTakeStuck, CommitTakeFails, TakeIsLost, jobs
<1>7. CASE UNCHANGED vars
  BY <1>3, <1>7 DEF vars, jobs
<1> QED  BY <1>1, <1>2, <1>4, <1>5, <1>6, <1>7 DEF Next, Housekeeping

\* A clipboard that leaves its store is empty or a file that names no session.
LEMMA MaterializedIsLoose ==
  ASSUME NEW c \in {Empty} \cup FileClip \cup BoundClip, NEW key \in Key,
         stores \in [Key -> Store], NEW d, d \in Materialized(c, key)
  PROVE  /\ d \in {Empty} \cup FileClip /\ d.kind # "bound"
         /\ d = c \/ (\A s \in Sid : Reachable(d, s) = {})
         /\ d.kind = "file" => \/ d = c /\ c.kind = "file"
                               \/ /\ c.kind = "bound" /\ d.for = 0 /\ d.meant = c.piece.audio
                                  /\ c.piece.id \in DOMAIN stores[key].data
                                  /\ d.audio = stores[key].data[c.piece.id]
<1>1. /\ Empty.kind = "none" /\ \A x \in FileClip : x.kind = "file"
      /\ \A x \in BoundClip : x.kind = "bound"
  BY DEF Empty, FileClip, BoundClip
<1>2. CASE c.kind # "bound"
  <2>1. d = c
    BY <1>2 DEF Materialized
  <2> QED  BY <1>1, <1>2, <2>1
<1>3. CASE c.kind = "bound" /\ d = Empty
  <2>1. \A s \in Sid : Reachable(d, s) = {}
    BY <1>1, <1>3 DEF Reachable
  <2> QED  BY <1>1, <1>3, <2>1
<1>4. CASE c.kind = "bound" /\ d # Empty
  <2>1. c \in BoundClip
    BY <1>1, <1>4
  <2>2. /\ c.piece.id \in DOMAIN stores[key].data
        /\ d = [kind |-> "file", audio |-> stores[key].data[c.piece.id], rate |-> c.rate,
                meant |-> c.piece.audio, for |-> 0, piece |-> NoPiece]
    BY <1>4 DEF Materialized
  <2>3. stores[key].data[c.piece.id] \in Audio
    <3>1. PICK D \in SUBSET (1..MaxChunk) : stores[key].data \in [D -> Audio]
      BY DEF Store
    <3> QED  BY <2>2, <3>1
  <2>4. c.piece \in Piece /\ c.rate \in Rates /\ c.piece.audio \in Audio
    BY <2>1 DEF BoundClip, Piece
  <2>5. d \in FileClip
    BY <2>2, <2>3, <2>4 DEF FileClip
  <2>6. d.kind = "file" /\ d.for = 0 /\ d.meant = c.piece.audio /\ d.audio = stores[key].data[c.piece.id]
    BY <2>2
  <2>7. \A s \in Sid : Reachable(d, s) = {}
    BY <2>6 DEF Reachable, Sid
  <2> QED  BY <1>4, <2>2, <2>5, <2>6, <2>7
<1> QED  BY <1>2, <1>3, <1>4

LEMMA NoStoreIsAStore ==
  NoStore \in Store /\ DOMAIN NoStore.data = {} /\ NoStore.next = 1
<1>1. NoStore.data \in [{} -> Audio] /\ NoStore.next = 1 /\ DOMAIN NoStore.data = {}
  BY DEF NoStore
<1>2. {} \in SUBSET (1..MaxChunk)
  OBVIOUS
<1>3. NoStore.data \in UNION {[D -> Audio] : D \in SUBSET (1..MaxChunk)}
  BY <1>1, <1>2
<1>4. NoStore = [data |-> NoStore.data, next |-> NoStore.next]
  BY DEF NoStore
<1> QED  BY <1>1, <1>3, <1>4 DEF Store

\* The stores of the other sessions stay.
LEMMA ReleasedStores ==
  ASSUME stores \in [Key -> Store], IdInv, NEW s, stores' = WithoutSession(s)
  PROVE  /\ stores' \in [Key -> Store] /\ IdInv'
         /\ \A k \in Key : k[1] # s => stores'[k] = stores[k]
         /\ \A k \in Key : k[1] = s => stores'[k] = NoStore
<1>1. \A k \in Key : stores'[k] = IF k[1] = s THEN NoStore ELSE stores[k]
  BY DEF WithoutSession
<1>2. stores' = [k \in Key |-> IF k[1] = s THEN NoStore ELSE stores[k]]
  BY DEF WithoutSession
<1>3. stores' \in [Key -> Store]
  BY <1>2, NoStoreIsAStore
<1>4. IdInv'
  BY <1>1, NoStoreIsAStore DEF IdInv
<1> QED  BY <1>1, <1>3, <1>4

\* finish_compact: the session goes on in a store of its next generation, with
\* everything the document names and what the clipboard named when it began.
LEMMA SwitchesGoOn ==
  ASSUME DocInv, HouseSwitches
  PROVE  LET new == KeyOf(doc') IN
         /\ doc \in Doc /\ doc' \in Doc /\ ~doc.take
         /\ doc'.sid = doc.sid /\ doc'.gen = doc.gen + 1 /\ doc'.rev = doc.rev
         /\ doc'.cur = doc.cur /\ Pieces(doc') = Pieces(doc)
         /\ stores' \in [Key -> Store] /\ IdInv'
         /\ new \in Key /\ KeyOf(doc) \in Key
         /\ DOMAIN stores'[new].data = Copied /\ stores'[new].next = stores[KeyOf(doc)].next
         /\ Copied \subseteq DOMAIN Data(doc)
         /\ \A n \in Copied : stores'[new].data[n] = Data(doc)[n]
         /\ \A k \in Key : k[1] # doc.sid => stores'[k] = stores[k]
         /\ Ids(Pieces(doc) \cup house.clip) \subseteq Copied
<1> DEFINE new  == <<doc.sid, doc.gen + 1>>
           old  == KeyOf(doc)
           kept == [data |-> Restrict(Data(doc), Copied), next |-> NextId]
<1>1. /\ house.st = "copy" /\ doc # NoDoc /\ ~doc.take /\ KeyOf(doc) = house.key
      /\ Copied \subseteq DOMAIN Data(doc)
      /\ doc' = [doc EXCEPT !.gen = @ + 1]
  BY DEF HouseSwitches, Recording
<1>2. doc \in Doc /\ stores \in [Key -> Store]
  BY <1>1 DEF DocInv, Types
<1>3. doc.gen \in 0..MaxGen /\ doc.sid \in Sid /\ MaxGen \in Nat
  BY <1>2, BoundsAreNat DEF Doc
<1>4. doc.gen < MaxGen
  <2>1. house.key[2] = doc.gen
    BY <1>1 DEF KeyOf
  <2> QED  BY <1>1, <2>1 DEF DocInv, HouseInv
<1>5. doc.gen + 1 \in 0..MaxGen /\ doc.gen + 1 # doc.gen
  BY <1>3, <1>4
<1>6. doc' \in Doc
  BY <1>1, <1>2, <1>5 DEF Doc
<1>7. /\ doc'.sid = doc.sid /\ doc'.gen = doc.gen + 1 /\ doc'.rev = doc.rev
      /\ doc'.cur = doc.cur /\ doc'.undo = doc.undo /\ doc'.redo = doc.redo
  BY <1>1, <1>2 DEF Doc
<1>8. Pieces(doc') = Pieces(doc)
  BY <1>7 DEF Pieces
<1>9. KeyOf(doc') = new /\ new \in Key /\ old \in Key /\ new # old
  BY <1>3, <1>5, <1>7 DEF KeyOf, Key
<1>10. stores' = [stores EXCEPT ![KeyOf(doc')] = kept, ![old].data = <<>>]
  BY DEF HouseSwitches
<1>11. stores[old] \in Store
  BY <1>2, <1>9
<1>12. PICK D \in SUBSET (1..MaxChunk) : Data(doc) \in [D -> Audio] /\ DOMAIN Data(doc) = D
  BY <1>11 DEF Store, Data
<1>13. /\ Restrict(Data(doc), Copied) \in [Copied -> Audio]
       /\ \A n \in Copied : Restrict(Data(doc), Copied)[n] = Data(doc)[n]
       /\ DOMAIN Restrict(Data(doc), Copied) = Copied
  BY <1>1, <1>12 DEF Restrict
<1>14. Copied \in SUBSET (1..MaxChunk)
  BY <1>1, <1>12
<1>15. NextId \in Nat \ {0} /\ NextId = stores[old].next
  BY <1>1, <1>11 DEF NextId, Store
<1>16. kept.data = Restrict(Data(doc), Copied) /\ kept.next = NextId
  OBVIOUS
<1>17. kept \in Store
  BY <1>13, <1>14, <1>15 DEF Store
<1>18. [stores[old] EXCEPT !.data = <<>>] \in Store
  <2>1. <<>> \in [{} -> Audio] /\ {} \in SUBSET (1..MaxChunk)
    OBVIOUS
  <2> QED  BY <1>11, <2>1 DEF Store
<1>19. /\ stores'[new] = kept
       /\ stores'[old] = [stores[old] EXCEPT !.data = <<>>]
       /\ \A k \in Key : k # new /\ k # old => stores'[k] = stores[k]
  <2> HIDE DEF kept, new, old
  <2> QED  BY <1>2, <1>9, <1>10
<1>20. stores' \in [Key -> Store]
  <2> HIDE DEF kept, new, old
  <2> QED  BY <1>2, <1>9, <1>10, <1>17, <1>18
<1>21. stores'[old].data = <<>>
  BY <1>11, <1>19 DEF Store
<1>22. \A k \in Key : k[1] # doc.sid => stores'[k] = stores[k]
  <2>1. new[1] = doc.sid /\ old[1] = doc.sid
    BY DEF KeyOf
  <2> HIDE DEF kept, new, old
  <2> QED  BY <1>19, <2>1
<1>23. IdInv'
  <2> SUFFICES ASSUME NEW k \in Key, NEW n \in DOMAIN stores'[k].data
               PROVE  n < stores'[k].next
    BY DEF IdInv
  <2>1. \A j \in Key : \A m \in DOMAIN stores[j].data : m < stores[j].next
    BY DEF DocInv, IdInv
  <2>2. CASE k = new
    <3>1. n \in Copied /\ stores'[k].next = stores[old].next
      BY <2>2, <1>13, <1>15, <1>16, <1>19
    <3>2. n \in DOMAIN stores[old].data
      BY <1>1, <3>1 DEF Data
    <3> QED  BY <1>9, <2>1, <3>1, <3>2
  <2>3. CASE k = old
    BY <1>21, <2>3
  <2>4. CASE k # new /\ k # old
    BY <1>19, <2>1, <2>4
  <2> QED  BY <2>2, <2>3, <2>4
<1>24. Ids(Pieces(doc) \cup house.clip) \subseteq Copied
  BY DEF Copied, Live
<1>25. /\ DOMAIN stores'[new].data = Copied /\ stores'[new].next = stores[old].next
       /\ \A n \in Copied : stores'[new].data[n] = Data(doc)[n]
  BY <1>13, <1>15, <1>16, <1>19
<1> HIDE DEF new, old, kept
<1> QED  BY <1>1, <1>2, <1>6, <1>7, <1>8, <1>9, <1>20, <1>22, <1>23, <1>24, <1>25 DEF old

\* The stores keep their types and give out their ids in order.
LEMMA StoresAreTyped ==
  ASSUME DocInv, [Next]_vars
  PROVE  stores' \in [Key -> Store] /\ IdInv'
<1>1. stores \in [Key -> Store] /\ IdInv
  BY DEF DocInv, Types
<1>2. 0 \in 0..MaxGen /\ 1 \in 1..MaxChunk
  <2>1. MaxGen \in Nat /\ MaxChunk \in Nat
    BY BoundsAreNat
  <2> QED  BY <2>1, ImportFits DEF ImportFits
<1>3. ASSUME NEW key \in Key, NEW a \in Audio, CanWrite(key), WriteAs(key, a)
      PROVE  stores' \in [Key -> Store] /\ IdInv'
  BY <1>1, <1>3, WriteGoesOn
<1>4. \A key \in Key : CanWrite(key) => Fresh(key) \in Audio
  <2> SUFFICES ASSUME NEW key \in Key, CanWrite(key)
               PROVE  Fresh(key) \in Audio
    OBVIOUS
  <2>1. stores[key].next \in Nat \ {0} /\ stores[key].next <= MaxChunk /\ MaxChunk \in Nat
    BY <1>1, BoundsAreNat DEF Store, CanWrite
  <2>2. stores[key].next \in 1..MaxChunk
    BY <2>1
  <2> QED  BY <2>2 DEF Fresh, Audio
<1>5. CASE Replaced \/ CloseClipboard
  <2>1. \E s : stores' = WithoutSession(s)
    BY <1>5 DEF Replaced, CloseClipboard
  <2> QED  BY <1>1, <2>1, ReleasedStores
<1>6. CASE HouseSwitches
  BY <1>6, SwitchesGoOn
<1>7. CASE BeginOpen
  <2>1. PICK s \in Sid : NewSession(s) /\ WriteAs(<<s, 0>>, Fresh(<<s, 0>>))
    BY <1>7 DEF BeginOpen
  <2>2. <<s, 0>> \in Key
    BY <1>2 DEF Key
  <2>3. stores[<<s, 0>>] = NoStore
    BY <2>1 DEF NewSession, DocInv, FateInv
  <2>4. CanWrite(<<s, 0>>)
    <3>1. MaxChunk \in Nat /\ MaxChunk >= 1
      BY BoundsAreNat, ImportFits DEF ImportFits
    <3> QED  BY <2>3, <3>1, NoStoreIsAStore DEF CanWrite
  <2> QED  BY <1>3, <1>4, <2>1, <2>2, <2>4
<1>8. CASE OpenFails
  <2>1. opener # NoJob /\ stores' = [stores EXCEPT ![<<opener.sid, 0>>] = NoStore]
    BY <1>8, KindsDiffer DEF OpenFails
  <2>2. opener.sid \in Sid
    BY <2>1 DEF DocInv, Types
  <2>3. <<opener.sid, 0>> \in Key
    BY <1>2, <2>2 DEF Key
  <2>4. stores' \in [Key -> Store]
    BY <1>1, <2>1, <2>3, NoStoreIsAStore
  <2>5. IdInv'
    BY <1>1, <2>1, <2>3, NoStoreIsAStore DEF IdInv
  <2> QED  BY <2>4, <2>5
<1>9. CASE PasteImports
  <2>1. paste # NoJob /\ CanWrite(paste.key) /\ WriteAs(paste.key, paste.clip.audio)
    BY <1>9, KindsDiffer DEF PasteImports
  <2>2. paste \in PasteState
    BY <2>1 DEF DocInv, Types
  <2>3. paste.key \in Key /\ paste.clip.audio \in Audio
    BY <2>2 DEF PasteState, FileClip
  <2> QED  BY <1>3, <2>1, <2>3
<1>10. CASE NormalizeWrites
  <2>1. norm # NoJob /\ CanWrite(norm.key) /\ WriteAs(norm.key, Fresh(norm.key))
    BY <1>10, KindsDiffer DEF NormalizeWrites
  <2>2. norm \in NormState
    BY <2>1 DEF DocInv, Types
  <2>3. norm.key \in Key
    BY <2>2 DEF NormState
  <2> QED  BY <1>3, <1>4, <2>1, <2>3
<1>11. CASE TakeWrites
  <2>1. rec # NoJob /\ CanWrite(rec.key) /\ WriteAs(rec.key, Fresh(rec.key))
    BY <1>11, KindsDiffer DEF TakeWrites
  <2>2. rec \in TakeState
    BY <2>1 DEF DocInv, Types
  <2>3. rec.key \in Key
    BY <2>2 DEF TakeState
  <2> QED  BY <1>3, <1>4, <2>1, <2>3
<1>12. CASE \/ Edited \/ Turned \/ PasteEnds \/ NormEnds \/ Idle \/ EditCopy \/ OpenShow
            \/ CloseTakes \/ CloseEngine \/ (\E s \in Sid : CloseSession(s)) \/ BeginPaste
            \/ RebindClipboard \/ BeginNormalize \/ TakeGone
  <2>1. stores' = stores
    BY <1>12 DEF Edited, Turned, PasteEnds, NormEnds, Idle, EditCopy, OpenShow, CloseTakes,
       CloseEngine, CloseSession, BeginPaste, RebindClipboard, BeginNormalize, TakeGone
  <2> QED  BY <1>1, <2>1 DEF IdInv
<1> QED  BY <1>5, <1>6, <1>7, <1>8, <1>9, <1>10, <1>11, <1>12, KindOfStep

\* Only an operation's take whose commit has failed is given up.
LEMMA GivenUpGrows ==
  ASSUME DocInv, [Next]_vars
  PROVE  givenUp' = givenUp \/ (rec # NoJob /\ givenUp' \subseteq givenUp \cup {rec.sid})
<1>1. CASE CommitOpFails
  BY <1>1 DEF CommitOpFails
<1>2. CASE Edit \/ Open \/ Close \/ (\E s \in Sid : CloseSession(s))
  BY <1>2 DEF Edit, EditCut, EditCopy, EditPaste, EditDelete, Undo, Redo, Open, BeginOpen,
     OpenFails, OpenShow, OpenInstall, Close, CloseTakes, CloseClipboard, CloseEngine,
     CloseSession, ghosts
<1>3. CASE BeginPaste \/ PasteJob \/ BeginNormalize \/ NormalizeJob
  BY <1>3 DEF BeginPaste, PasteJob, PasteImports, AbandonPaste, FinishPaste, PasteRefused,
     RebindClipboard, BeginNormalize, NormalizeJob, NormalizeWrites, AbandonNormalize,
     FinishNormalize, NormalizeRefused, ghosts
<1>4. CASE HouseStart \/ Housekeeping
  BY <1>4 DEF HouseStart, Housekeeping, HouseBegins, HouseSwitches, HouseStops, ghosts
<1>5. CASE Record /\ ~CommitOpFails
  BY <1>5 DEF Record, BeginRecordingHere, BeginRecordingNew, BeginRecordOp, TakeWrites,
     CommitTake, DiscardTake, CommitTakeStuck, CommitTakeFails, TakeIsLost, ghosts
<1>6. CASE UNCHANGED vars
  BY <1>6 DEF vars, ghosts
<1> QED  BY <1>1, <1>2, <1>3, <1>4, <1>5, <1>6 DEF Next

LEMMA TypesAreKept ==
  ASSUME DocInv, [Next]_vars
  PROVE  Types'
<1> USE KindOfStep
<1>1. Types
  BY DEF DocInv
<1>2. /\ doc \in Doc \cup {NoDoc} /\ clip \in {Empty} \cup FileClip \cup BoundClip
      /\ stores \in [Key -> Store] /\ paste \in PasteState \cup {NoJob}
      /\ norm \in NormState \cup {NoJob} /\ rec \in TakeState \cup {NoJob}
      /\ opener \in [st : {"import", "show"}, sid : Sid, rate : Rates] \cup {NoJob}
      /\ closer \in [st : {"taken", "kept"}, key : Key] \cup {NoJob}
      /\ owed \subseteq Sid /\ givenUp \subseteq Sid
  BY <1>1 DEF Types
<1>3. doc # NoDoc => /\ doc \in Doc /\ KeyOf(doc) \in Key /\ doc.sid \in Sid
                     /\ doc.rate \in Rates /\ doc.rev \in 1..4 /\ doc.cur \in SUBSET Piece
  <2>1. doc # NoDoc => doc \in Doc
    BY <1>2
  <2> QED  BY <2>1, KeysAreTyped DEF Doc
<1>4. stores' \in [Key -> Store]
  BY StoresAreTyped
<1>5. fate' \in [Sid -> {"unused", "new", "open", "closing", "left", "deleted"}]
  BY FateGoesOn
<1>6. doc' \in Doc \cup {NoDoc}
  <2>1. CASE Edited \/ Turned \/ Replaced
    BY <2>1 DEF Edited, Turned, Replaced
  <2>2. CASE HouseSwitches
    BY <2>2, SwitchesGoOn
  <2>3. CASE CloseTakes
    BY <2>3 DEF CloseTakes
  <2>4. CASE \/ PasteEnds \/ NormEnds \/ Idle \/ EditCopy \/ BeginOpen \/ OpenFails \/ OpenShow
             \/ CloseClipboard \/ CloseEngine \/ (\E s \in Sid : CloseSession(s))
             \/ BeginPaste \/ PasteImports \/ RebindClipboard \/ BeginNormalize
             \/ NormalizeWrites \/ TakeWrites \/ TakeGone
    <3>1. doc' = doc
      BY <2>4 DEF PasteEnds, NormEnds, Idle, EditCopy, BeginOpen, OpenFails, OpenShow,
         CloseClipboard, CloseEngine, CloseSession, BeginPaste, PasteImports, RebindClipboard,
         BeginNormalize, NormalizeWrites, TakeWrites, TakeGone
    <3> QED  BY <1>2, <3>1
  <2> QED  BY <2>1, <2>2, <2>3, <2>4
<1>7. \A p \in Piece : doc # NoDoc => Bound(p, doc) \in BoundClip
  BY <1>3 DEF Bound, BoundClip
<1>8. clip' \in {Empty} \cup FileClip \cup BoundClip
  <2>1. CASE Edited
    BY <1>2, <1>3, <1>7, <2>1, KindsDiffer DEF Edited
  <2>2. CASE EditCopy
    <3>1. doc # NoDoc /\ \E p \in doc.cur : clip' = Bound(p, doc)
      BY <2>2 DEF EditCopy, Command
    <3> QED  BY <1>3, <1>7, <3>1
  <2>3. CASE Replaced
    <3>1. clip' = clip \/ (doc # NoDoc /\ clip' \in Materialized(clip, KeyOf(doc)))
      BY <2>3 DEF Replaced
    <3>2. doc # NoDoc /\ clip' \in Materialized(clip, KeyOf(doc)) => clip' \in {Empty} \cup FileClip
      BY <1>2, <1>3, MaterializedIsLoose
    <3> QED  BY <1>2, <3>1, <3>2
  <2>4. CASE CloseClipboard
    <3>1. closer # NoJob /\ clip' \in Materialized(clip, closer.key)
      BY <2>4, KindsDiffer DEF CloseClipboard
    <3>2. closer.key \in Key
      BY <1>2, <3>1
    <3>3. clip' \in {Empty} \cup FileClip
      BY <1>2, <3>1, <3>2, MaterializedIsLoose
    <3> QED  BY <3>3
  <2>5. CASE RebindClipboard
    <3>1. paste # NoJob /\ paste.st = "rebind"
      BY <2>5, KindsDiffer DEF RebindClipboard
    <3>2. paste.piece \in Piece /\ paste.rate \in Rates /\ paste.sid \in Sid
      <4>1. paste.piece \in Piece
        BY <3>1 DEF DocInv, PasteInv
      <4> QED  BY <1>2, <3>1, <4>1 DEF PasteState
    <3>3. [kind |-> "bound", piece |-> paste.piece, rate |-> paste.rate, owner |-> paste.sid] \in BoundClip
      BY <3>2 DEF BoundClip
    <3>4. clip.kind = "file" => clip \in FileClip
      BY <1>2 DEF Empty, BoundClip
    <3>5. clip.kind = "file" => [clip EXCEPT !.for = paste.sid, !.piece = paste.piece] \in FileClip
      BY <3>2, <3>4 DEF FileClip
    <3>6. clip' \in {[kind |-> "bound", piece |-> paste.piece, rate |-> paste.rate, owner |-> paste.sid],
                     clip}
          \/ (clip.kind = "file" /\ clip' = [clip EXCEPT !.for = paste.sid, !.piece = paste.piece])
      BY <2>5 DEF RebindClipboard
    <3> QED  BY <1>2, <3>3, <3>5, <3>6
  <2>6. CASE \/ Turned \/ PasteEnds \/ NormEnds \/ Idle \/ BeginOpen \/ OpenFails \/ OpenShow
             \/ CloseTakes \/ CloseEngine \/ (\E s \in Sid : CloseSession(s))
             \/ BeginPaste \/ PasteImports \/ BeginNormalize
             \/ NormalizeWrites \/ HouseSwitches \/ TakeWrites \/ TakeGone
    <3>1. clip' = clip
      BY <2>6 DEF Turned, PasteEnds, NormEnds, Idle, BeginOpen, OpenFails, OpenShow,
         CloseTakes, CloseEngine, CloseSession, BeginPaste, PasteImports,
         BeginNormalize, NormalizeWrites, HouseSwitches, TakeWrites, TakeGone
    <3> QED  BY <1>2, <3>1
  <2> QED  BY <2>1, <2>2, <2>3, <2>4, <2>5, <2>6
<1>9. \A key \in Key, a \in Audio : CanWrite(key) => NextPiece(key, a) \in Piece
  <2> SUFFICES ASSUME NEW key \in Key, NEW a \in Audio, CanWrite(key)
               PROVE  NextPiece(key, a) \in Piece
    OBVIOUS
  <2>1. stores[key].next \in Nat \ {0} /\ stores[key].next <= MaxChunk /\ MaxChunk \in Nat
    BY <1>2, BoundsAreNat DEF Store, CanWrite
  <2>2. stores[key].next \in 1..MaxChunk
    BY <2>1
  <2> QED  BY <2>2 DEF NextPiece, Piece
<1>10. \A key \in Key : CanWrite(key) => Fresh(key) \in Audio
  <2> SUFFICES ASSUME NEW key \in Key, CanWrite(key)
               PROVE  Fresh(key) \in Audio
    OBVIOUS
  <2>1. stores[key].next \in Nat \ {0} /\ stores[key].next <= MaxChunk /\ MaxChunk \in Nat
    BY <1>2, BoundsAreNat DEF Store, CanWrite
  <2>2. stores[key].next \in 1..MaxChunk
    BY <2>1
  <2> QED  BY <2>2 DEF Fresh, Audio
<1>11. paste' \in PasteState \cup {NoJob}
  <2>1. CASE Edited
    <3>1. paste.st = "written" => paste # NoJob
      BY KindsDiffer
    <3>2. paste # NoJob => [paste EXCEPT !.st = "rebind"] \in PasteState
      BY <1>2 DEF PasteState
    <3> QED  BY <1>2, <2>1, <3>1, <3>2 DEF Edited
  <2>2. CASE BeginPaste
    <3>1. doc # NoDoc /\ clip.kind = "file"
      BY <2>2 DEF BeginPaste
    <3>2. clip \in FileClip
      BY <1>2, <3>1 DEF Empty, BoundClip
    <3>3. paste' = [st |-> "run", sid |-> doc.sid, key |-> KeyOf(doc), rate |-> doc.rate,
                    clip |-> clip, piece |-> NoPiece]
      BY <2>2 DEF BeginPaste
    <3> QED  BY <1>3, <3>1, <3>2, <3>3 DEF PasteState
  <2>3. CASE PasteImports
    <3>1. paste # NoJob /\ CanWrite(paste.key)
          /\ paste' = [paste EXCEPT !.st = "written", !.piece = NextPiece(paste.key, paste.clip.audio)]
      BY <2>3, KindsDiffer DEF PasteImports
    <3>2. paste \in PasteState /\ paste.key \in Key /\ paste.clip.audio \in Audio
      BY <1>2, <3>1 DEF PasteState, FileClip
    <3>3. NextPiece(paste.key, paste.clip.audio) \in Piece
      BY <1>9, <3>1, <3>2
    <3> QED  BY <3>1, <3>2, <3>3 DEF PasteState
  <2>4. CASE RebindClipboard \/ PasteEnds
    BY <2>4 DEF RebindClipboard, PasteEnds
  <2>5. CASE \/ Turned \/ Replaced \/ NormEnds \/ Idle \/ EditCopy \/ BeginOpen \/ OpenFails
             \/ OpenShow \/ CloseTakes \/ CloseClipboard \/ CloseEngine
             \/ (\E s \in Sid : CloseSession(s)) \/ BeginNormalize
             \/ NormalizeWrites \/ HouseSwitches \/ TakeWrites \/ TakeGone
    <3>1. paste' = paste
      BY <2>5 DEF Turned, Replaced, NormEnds, Idle, EditCopy, BeginOpen, OpenFails, OpenShow,
         CloseTakes, CloseClipboard, CloseEngine, CloseSession,
         BeginNormalize, NormalizeWrites, HouseSwitches, TakeWrites, TakeGone, jobs
    <3> QED  BY <1>2, <3>1
  <2> QED  BY <2>1, <2>2, <2>3, <2>4, <2>5
<1>12. norm' \in NormState \cup {NoJob}
  <2>1. CASE Edited
    BY <1>2, <2>1 DEF Edited
  <2>2. CASE BeginNormalize
    <3>1. doc # NoDoc
      BY <2>2 DEF BeginNormalize
    <3>2. PICK p \in doc.cur :
            norm' = [st |-> "run", sid |-> doc.sid, key |-> KeyOf(doc), rev |-> doc.rev,
                     read |-> doc.cur, range |-> p, piece |-> NoPiece]
      BY <2>2 DEF BeginNormalize
    <3>3. p \in Piece
      BY <1>3, <3>1
    <3> QED  BY <1>3, <3>1, <3>2, <3>3 DEF NormState
  <2>3. CASE NormalizeWrites
    <3>1. norm # NoJob /\ CanWrite(norm.key)
          /\ norm' = [norm EXCEPT !.st = "written", !.piece = NextPiece(norm.key, Fresh(norm.key))]
      BY <2>3, KindsDiffer DEF NormalizeWrites
    <3>2. norm \in NormState /\ norm.key \in Key
      BY <1>2, <3>1 DEF NormState
    <3>3. NextPiece(norm.key, Fresh(norm.key)) \in Piece
      BY <1>9, <1>10, <3>1, <3>2
    <3> QED  BY <3>1, <3>2, <3>3 DEF NormState
  <2>4. CASE NormEnds
    BY <2>4 DEF NormEnds
  <2>5. CASE \/ Turned \/ Replaced \/ PasteEnds \/ Idle \/ EditCopy \/ BeginOpen \/ OpenFails
             \/ OpenShow \/ CloseTakes \/ CloseClipboard \/ CloseEngine
             \/ (\E s \in Sid : CloseSession(s)) \/ BeginPaste \/ PasteImports
             \/ RebindClipboard \/ HouseSwitches \/ TakeWrites \/ TakeGone
    <3>1. norm' = norm
      BY <2>5 DEF Turned, Replaced, PasteEnds, Idle, EditCopy, BeginOpen, OpenFails, OpenShow,
         CloseTakes, CloseClipboard, CloseEngine, CloseSession, BeginPaste, PasteImports,
         RebindClipboard, HouseSwitches, TakeWrites, TakeGone, jobs
    <3> QED  BY <1>2, <3>1
  <2> QED  BY <2>1, <2>2, <2>3, <2>4, <2>5
<1>13. rec' \in TakeState \cup {NoJob}
  <2>1. \A key \in Key, kind \in {"new", "op"} : Take(key, kind) \in TakeState
    BY DEF Take, TakeState, Key
  <2>2. CASE Edited
    BY <1>2, <2>2 DEF Edited
  <2>3. CASE Turned
    <3>1. KeyOf(doc) \in Key
      BY <2>3, KeysAreTyped DEF Turned
    <3> QED  BY <1>2, <2>1, <2>3, <3>1 DEF Turned
  <2>4. CASE Replaced
    <3>1. doc' \in Doc
      BY <2>4 DEF Replaced
    <3>2. KeyOf(doc') \in Key
      BY <3>1, KeysAreTyped
    <3>3. rec' = rec \/ rec' = Take(KeyOf(doc'), "new") \/ rec' = NoJob
      BY <2>4 DEF Replaced
    <3> QED  BY <1>2, <2>1, <3>2, <3>3
  <2>5. CASE TakeWrites
    <3>1. rec # NoJob /\ CanWrite(rec.key)
          /\ rec' = [rec EXCEPT !.piece = NextPiece(rec.key, Fresh(rec.key))]
      BY <2>5, KindsDiffer DEF TakeWrites
    <3>2. rec \in TakeState /\ rec.key \in Key
      BY <1>2, <3>1 DEF TakeState
    <3>3. NextPiece(rec.key, Fresh(rec.key)) \in Piece
      BY <1>9, <1>10, <3>1, <3>2
    <3> QED  BY <3>1, <3>2, <3>3 DEF TakeState
  <2>6. CASE TakeGone
    BY <2>6 DEF TakeGone
  <2>7. CASE \/ PasteEnds \/ NormEnds \/ Idle \/ EditCopy \/ BeginOpen \/ OpenFails
             \/ OpenShow \/ CloseTakes \/ CloseClipboard \/ CloseEngine
             \/ (\E s \in Sid : CloseSession(s)) \/ BeginPaste \/ PasteImports
             \/ RebindClipboard \/ BeginNormalize \/ NormalizeWrites \/ HouseSwitches
    <3>1. rec' = rec
      BY <2>7 DEF PasteEnds, NormEnds, Idle, EditCopy, BeginOpen, OpenFails, OpenShow,
         CloseTakes, CloseClipboard, CloseEngine, CloseSession, BeginPaste, PasteImports,
         RebindClipboard, BeginNormalize, NormalizeWrites, HouseSwitches
    <3> QED  BY <1>2, <3>1
  <2> QED  BY <2>2, <2>3, <2>4, <2>5, <2>6, <2>7
<1>14. opener' \in [st : {"import", "show"}, sid : Sid, rate : Rates] \cup {NoJob}
  <2>1. CASE BeginOpen
    BY <2>1 DEF BeginOpen
  <2>2. CASE OpenShow
    <3>1. opener # NoJob /\ opener' = [opener EXCEPT !.st = "show"]
      BY <2>2, KindsDiffer DEF OpenShow
    <3> QED  BY <1>2, <3>1
  <2>3. CASE OpenFails \/ Replaced
    BY <1>2, <2>3 DEF OpenFails, Replaced
  <2>4. CASE \/ Edited \/ Turned \/ PasteEnds \/ NormEnds \/ Idle \/ EditCopy
             \/ CloseTakes \/ CloseClipboard \/ CloseEngine
             \/ (\E s \in Sid : CloseSession(s)) \/ BeginPaste \/ PasteImports
             \/ RebindClipboard \/ BeginNormalize \/ NormalizeWrites \/ HouseSwitches
             \/ TakeWrites \/ TakeGone
    <3>1. opener' = opener
      BY <2>4 DEF Edited, Turned, PasteEnds, NormEnds, Idle, EditCopy,
         CloseTakes, CloseClipboard, CloseEngine, CloseSession, BeginPaste, PasteImports,
         RebindClipboard, BeginNormalize, NormalizeWrites, HouseSwitches, TakeWrites, TakeGone
    <3> QED  BY <1>2, <3>1
  <2> QED  BY <2>1, <2>2, <2>3, <2>4
<1>15. closer' \in [st : {"taken", "kept"}, key : Key] \cup {NoJob}
  <2>1. CASE CloseTakes
    <3>1. doc # NoDoc /\ closer' = [st |-> "taken", key |-> KeyOf(doc)]
      BY <2>1 DEF CloseTakes
    <3> QED  BY <1>3, <3>1
  <2>2. CASE CloseClipboard
    <3>1. closer # NoJob /\ closer' = [closer EXCEPT !.st = "kept"]
      BY <2>2, KindsDiffer DEF CloseClipboard
    <3> QED  BY <1>2, <3>1
  <2>3. CASE CloseEngine
    BY <2>3 DEF CloseEngine
  <2>4. CASE \/ Edited \/ Turned \/ Replaced \/ PasteEnds \/ NormEnds \/ Idle \/ EditCopy
             \/ BeginOpen \/ OpenFails \/ OpenShow
             \/ (\E s \in Sid : CloseSession(s)) \/ BeginPaste \/ PasteImports
             \/ RebindClipboard \/ BeginNormalize \/ NormalizeWrites \/ HouseSwitches
             \/ TakeWrites \/ TakeGone
    <3>1. closer' = closer
      BY <2>4 DEF Edited, Turned, Replaced, PasteEnds, NormEnds, Idle, EditCopy,
         BeginOpen, OpenFails, OpenShow, CloseSession, BeginPaste, PasteImports,
         RebindClipboard, BeginNormalize, NormalizeWrites, HouseSwitches, TakeWrites, TakeGone
    <3> QED  BY <1>2, <3>1
  <2> QED  BY <2>1, <2>2, <2>3, <2>4
<1>16. owed' \subseteq Sid
  <2>1. rec # NoJob => rec.sid \in Sid
    BY <1>2 DEF TakeState
  <2>2. CASE Replaced
    <3>1. owed' = owed \/ (rec # NoJob /\ owed' \subseteq owed \cup {rec.sid})
      BY <2>2 DEF Replaced
    <3> QED  BY <1>2, <2>1, <3>1
  <2>3. CASE TakeGone
    BY <1>2, <2>1, <2>3 DEF TakeGone
  <2>4. CASE \/ Edited \/ Turned \/ PasteEnds \/ NormEnds \/ Idle \/ EditCopy
             \/ BeginOpen \/ OpenFails \/ OpenShow \/ CloseTakes \/ CloseClipboard \/ CloseEngine
             \/ (\E s \in Sid : CloseSession(s)) \/ BeginPaste \/ PasteImports
             \/ RebindClipboard \/ BeginNormalize \/ NormalizeWrites \/ HouseSwitches \/ TakeWrites
    <3>1. owed' = owed
      BY <2>4 DEF Edited, Turned, PasteEnds, NormEnds, Idle, EditCopy,
         BeginOpen, OpenFails, OpenShow, CloseTakes, CloseClipboard, CloseEngine, CloseSession,
         BeginPaste, PasteImports, RebindClipboard, BeginNormalize, NormalizeWrites,
         HouseSwitches, TakeWrites, ghosts
    <3> QED  BY <1>2, <3>1
  <2> QED  BY <2>2, <2>3, <2>4
<1>18. givenUp' \subseteq Sid
  <2>1. rec # NoJob => rec.sid \in Sid
    BY <1>2 DEF TakeState
  <2>2. givenUp' = givenUp \/ (rec # NoJob /\ givenUp' \subseteq givenUp \cup {rec.sid})
    BY GivenUpGrows
  <2> QED  BY <1>2, <2>1, <2>2
<1>17. slips' \subseteq {"late", "foreign", "scan", "overtaken", "crossed"}
  <2>1. slips \subseteq {"late", "foreign", "scan", "overtaken", "crossed"}
    BY <1>1 DEF Types
  <2>2. Crossed \subseteq {"crossed", "foreign"} /\ NotKept \subseteq {"foreign"}
        /\ \A key : Late(key) \subseteq {"late"}
    BY DEF Crossed, NotKept, Late
  <2>3. slips' \subseteq slips \cup {"late", "foreign", "scan", "overtaken", "crossed"}
    <3>1. CASE Edited \/ HouseSwitches
      BY <2>2, <3>1 DEF Edited, HouseSwitches
    <3>2. CASE Replaced
      BY <3>2 DEF Replaced
    <3>3. CASE CloseClipboard \/ CloseEngine \/ RebindClipboard
      BY <3>3 DEF CloseClipboard, CloseEngine, RebindClipboard
    <3>4. CASE PasteImports \/ NormalizeWrites
      BY <2>2, <3>4 DEF PasteImports, NormalizeWrites
    <3>5. CASE \/ Turned \/ PasteEnds \/ NormEnds \/ Idle \/ EditCopy
               \/ BeginOpen \/ OpenFails \/ OpenShow \/ CloseTakes
               \/ (\E s \in Sid : CloseSession(s)) \/ BeginPaste
               \/ BeginNormalize \/ TakeWrites \/ TakeGone
      BY <3>5 DEF Turned, PasteEnds, NormEnds, Idle, EditCopy, BeginOpen, OpenFails, OpenShow,
         CloseTakes, CloseSession, BeginPaste, BeginNormalize, TakeWrites, TakeGone, ghosts
    <3> QED  BY <3>1, <3>2, <3>3, <3>4, <3>5
  <2> QED  BY <2>1, <2>3
<1> QED  BY <1>4, <1>5, <1>6, <1>8, <1>11, <1>12, <1>13, <1>14, <1>15, <1>16, <1>17, <1>18 DEF Types

-----------------------------------------------------------------------------
(* The sessions *)

\* What the invariant says of the state, in the form the proofs use it.
LEMMA StateIsTyped ==
  ASSUME DocInv
  PROVE  /\ doc # NoDoc => /\ doc \in Doc /\ doc.sid \in Sid /\ KeyOf(doc) \in Key
                           /\ KeyOf(doc)[1] = doc.sid /\ fate[doc.sid] = "open"
         /\ opener # NoJob => /\ opener.sid \in Sid /\ fate[opener.sid] = "new"
                              /\ <<opener.sid, 0>> \in Key
         /\ closer # NoJob => /\ closer.key \in Key /\ closer.key[1] \in Sid
                              /\ fate[closer.key[1]] = "open" /\ closer.key[1] # doc.sid
         /\ paste # NoJob => /\ paste \in PasteState /\ paste.key \in Key /\ paste.sid \in Sid
                             /\ paste.key[1] = paste.sid /\ Used(paste.sid)
         /\ norm # NoJob => /\ norm \in NormState /\ norm.key \in Key /\ norm.sid \in Sid
                            /\ norm.key[1] = norm.sid /\ Used(norm.sid)
         /\ rec # NoJob => /\ rec \in TakeState /\ rec.key \in Key /\ rec.sid \in Sid
                           /\ rec.key[1] = rec.sid /\ Used(rec.sid)
                           /\ fate[rec.sid] \in {"open", "left"}
         /\ fate \in [Sid -> {"unused", "new", "open", "closing", "left", "deleted"}]
         /\ stores \in [Key -> Store] /\ IdInv
<1>1. doc # NoDoc => doc \in Doc
  BY DEF DocInv, Types
<1>2. doc # NoDoc => /\ doc.sid \in Sid /\ KeyOf(doc) \in Key
                     /\ KeyOf(doc)[1] = doc.sid /\ fate[doc.sid] = "open"
  BY <1>1, KeysAreTyped DEF DocInv, FateInv, Doc
<1>3. MaxGen \in Nat
  BY BoundsAreNat
<1>4. opener # NoJob => /\ opener.sid \in Sid /\ fate[opener.sid] = "new"
                        /\ <<opener.sid, 0>> \in Key
  BY <1>3 DEF DocInv, Types, FateInv, Key
<1>5. closer # NoJob => /\ closer.key \in Key /\ closer.key[1] \in Sid
                        /\ fate[closer.key[1]] = "open" /\ closer.key[1] # doc.sid
  BY DEF DocInv, Types, FateInv, Key
<1>6. paste # NoJob => /\ paste \in PasteState /\ paste.key \in Key /\ paste.sid \in Sid
                       /\ paste.key[1] = paste.sid /\ Used(paste.sid)
  <2>1. paste # NoJob => paste \in PasteState
    BY DEF DocInv, Types
  <2> QED  BY <2>1 DEF DocInv, UseInv, PasteState
<1>7. norm # NoJob => /\ norm \in NormState /\ norm.key \in Key /\ norm.sid \in Sid
                      /\ norm.key[1] = norm.sid /\ Used(norm.sid)
  <2>1. norm # NoJob => norm \in NormState
    BY DEF DocInv, Types
  <2> QED  BY <2>1 DEF DocInv, UseInv, NormState
<1>8. rec # NoJob => /\ rec \in TakeState /\ rec.key \in Key /\ rec.sid \in Sid
                     /\ rec.key[1] = rec.sid /\ fate[rec.sid] \in {"open", "left"}
  <2>1. rec # NoJob => rec \in TakeState
    BY DEF DocInv, Types
  <2> QED  BY <1>2, <2>1 DEF DocInv, TakeInv, TakeState
<1>9. /\ fate \in [Sid -> {"unused", "new", "open", "closing", "left", "deleted"}]
      /\ stores \in [Key -> Store] /\ IdInv
  BY DEF DocInv, Types
<1> QED  BY <1>1, <1>2, <1>4, <1>5, <1>6, <1>7, <1>8, <1>9 DEF Used

\* Only a store somebody uses is written, and only one of a session that was made is cleared.
LEMMA NewStoresStay ==
  ASSUME DocInv, [Next]_vars, NEW s \in Sid, fate[s] = "unused"
  PROVE  \/ stores'[<<s, 0>>] = stores[<<s, 0>>]
         \/ stores'[<<s, 0>>] = NoStore
         \/ BeginOpen /\ fate'[s] = "new"
<1> USE KindOfStep
<1> DEFINE k == <<s, 0>>
<1>1. k \in Key /\ k[1] = s
  <2>1. MaxGen \in Nat
    BY BoundsAreNat
  <2> QED  BY <2>1 DEF Key
<1>2. /\ doc # NoDoc => doc.sid # s
      /\ opener # NoJob => opener.sid # s
      /\ closer # NoJob => closer.key[1] # s
      /\ paste # NoJob => paste.key # k
      /\ norm # NoJob => norm.key # k
      /\ rec # NoJob => rec.key # k
  BY <1>1, StateIsTyped DEF Used
<1>3. stores \in [Key -> Store] /\ IdInv
  BY StateIsTyped
<1> HIDE DEF k
<1>4. CASE Replaced \/ CloseClipboard
  <2>1. \E t : stores' = WithoutSession(t)
    BY <1>4 DEF Replaced, CloseClipboard
  <2> QED  BY <1>1, <1>3, <2>1, ReleasedStores DEF k
<1>5. CASE HouseSwitches
  BY <1>1, <1>2, <1>5, SwitchesGoOn, KindsDiffer DEF k
<1>6. CASE BeginOpen
  <2>1. PICK t \in Sid :
          WriteAs(<<t, 0>>, Fresh(<<t, 0>>)) /\ fate' = [fate EXCEPT ![t] = "new"]
    BY <1>6 DEF BeginOpen
  <2>2. CASE t = s
    BY <1>6, <2>1, <2>2, StateIsTyped
  <2>3. CASE t # s
    <3>1. k # <<t, 0>>
      BY <2>3 DEF k
    <3>2. stores'[k] = stores[k]
      BY <1>1, <1>3, <2>1, <3>1 DEF WriteAs
    <3> QED  BY <3>2 DEF k
  <2> QED  BY <2>2, <2>3
<1>7. CASE OpenFails
  <2>1. opener # NoJob /\ stores' = [stores EXCEPT ![<<opener.sid, 0>>] = NoStore]
    BY <1>7, KindsDiffer DEF OpenFails
  <2>2. k # <<opener.sid, 0>>
    BY <1>2, <2>1 DEF k
  <2> QED  BY <1>1, <1>3, <2>1, <2>2 DEF k
<1>8. CASE PasteImports \/ NormalizeWrites \/ TakeWrites
  <2>1. \E key, a : WriteAs(key, a) /\ key # k
    BY <1>2, <1>8, KindsDiffer DEF PasteImports, NormalizeWrites, TakeWrites
  <2> QED  BY <1>1, <1>3, <2>1 DEF WriteAs, k
<1>9. CASE \/ Edited \/ Turned \/ PasteEnds \/ NormEnds \/ Idle \/ EditCopy \/ OpenShow
           \/ CloseTakes \/ CloseEngine \/ (\E t \in Sid : CloseSession(t)) \/ BeginPaste
           \/ RebindClipboard \/ BeginNormalize \/ TakeGone
  BY <1>9 DEF Edited, Turned, PasteEnds, NormEnds, Idle, EditCopy, OpenShow, CloseTakes,
     CloseEngine, CloseSession, BeginPaste, RebindClipboard, BeginNormalize, TakeGone
<1> QED  BY <1>4, <1>5, <1>6, <1>7, <1>8, <1>9

LEMMA FateInvIsKept ==
  ASSUME DocInv, [Next]_vars
  PROVE  FateInv'
<1> USE KindOfStep
<1> DEFINE Fates == {"unused", "new", "open", "closing", "left", "deleted"}
<1>1. /\ doc # NoDoc => doc.sid \in Sid /\ fate[doc.sid] = "open"
      /\ opener # NoJob => opener.sid \in Sid /\ fate[opener.sid] = "new"
      /\ closer # NoJob => /\ closer.key[1] \in Sid
                           /\ fate[closer.key[1]] = "open" /\ closer.key[1] # doc.sid
      /\ fate \in [Sid -> Fates]
  BY StateIsTyped
<1>2. \A s \in Sid : fate'[s] = "unused" => stores'[<<s, 0>>] = NoStore
  <2> SUFFICES ASSUME NEW s \in Sid, fate'[s] = "unused"
               PROVE  stores'[<<s, 0>>] = NoStore
    OBVIOUS
  <2>1. fate[s] = "unused"
    <3>1. CASE fate' = fate
      BY <3>1
    <3>2. CASE \E t, x : fate' = [fate EXCEPT ![t] = x] /\ x # "unused"
      BY <1>1, <3>2
    <3>3. CASE \E t, x, r, y : /\ fate' = [fate EXCEPT ![t] = x, ![r] = y]
                               /\ x # "unused" /\ y # "unused"
      BY <1>1, <3>3
    <3>4. CASE Replaced
      <4>1. PICK f \in {"closing", "left"} :
              fate' = IF doc = NoDoc THEN [fate EXCEPT ![doc'.sid] = "open"]
                      ELSE [fate EXCEPT ![doc'.sid] = "open", ![doc.sid] = f]
        BY <3>4 DEF Replaced
      <4>2. CASE doc = NoDoc
        BY <3>2, <4>1, <4>2
      <4>3. CASE doc # NoDoc
        BY <3>3, <4>1, <4>3
      <4> QED  BY <4>2, <4>3
    <3>5. CASE BeginOpen \/ OpenFails \/ CloseEngine
      <4>1. \E t, x : fate' = [fate EXCEPT ![t] = x] /\ x # "unused"
        <5>1. "new" # "unused" /\ "deleted" # "unused" /\ "closing" # "unused"
          OBVIOUS
        <5> QED  BY <3>5, <5>1, Zenon DEF BeginOpen, OpenFails, CloseEngine
      <4> QED  BY <3>2, <4>1
    <3>7. CASE \E t \in Sid : CloseSession(t)
      <4>1. PICK t \in Sid : fate' = [fate EXCEPT ![t] = IF InUse(t) THEN "left" ELSE "deleted"]
        BY <3>7 DEF CloseSession
      <4> DEFINE x == IF InUse(t) THEN "left" ELSE "deleted"
      <4>2. x # "unused"
        OBVIOUS
      <4> HIDE DEF x
      <4>3. fate' = [fate EXCEPT ![t] = x]
        BY <4>1 DEF x
      <4> QED  BY <3>2, <4>2, <4>3
    <3>6. CASE \/ Edited \/ Turned \/ PasteEnds \/ NormEnds \/ Idle \/ EditCopy \/ OpenShow
               \/ CloseTakes \/ CloseClipboard \/ BeginPaste \/ PasteImports \/ RebindClipboard
               \/ BeginNormalize \/ NormalizeWrites \/ HouseSwitches \/ TakeWrites \/ TakeGone
      <4>1. fate' = fate
        BY <3>6 DEF Edited, Turned, PasteEnds, NormEnds, Idle, EditCopy, OpenShow, CloseTakes,
           CloseClipboard, BeginPaste, PasteImports, RebindClipboard, BeginNormalize,
           NormalizeWrites, HouseSwitches, TakeWrites, TakeGone
      <4> QED  BY <3>1, <4>1
    <3> QED  BY <3>4, <3>5, <3>6, <3>7
  <2>2. stores[<<s, 0>>] = NoStore
    BY <2>1 DEF DocInv, FateInv
  <2>3. fate'[s] # "new"
    OBVIOUS
  <2> QED  BY <2>1, <2>2, <2>3, NewStoresStay
<1>3. ASSUME fate' = fate, closer' = closer, doc'.sid = doc.sid,
             doc' # NoDoc => doc # NoDoc,
             opener' # NoJob => opener # NoJob /\ opener'.sid = opener.sid
      PROVE  FateInv'
  BY <1>1, <1>2, <1>3 DEF FateInv
<1>4. CASE \/ Edited \/ Turned \/ HouseSwitches \/ OpenShow
  <2>1. fate' = fate /\ closer' = closer
    BY <1>4 DEF Edited, Turned, HouseSwitches, OpenShow
  <2>2. doc'.sid = doc.sid /\ (doc' # NoDoc => doc # NoDoc)
    <3>1. CASE Edited \/ Turned
      BY <3>1, KindsDiffer DEF Edited, Turned
    <3>2. CASE HouseSwitches
      BY <3>2, SwitchesGoOn, KindsDiffer
    <3>3. CASE OpenShow
      BY <3>3 DEF OpenShow
    <3> QED  BY <1>4, <3>1, <3>2, <3>3
  <2>3. opener' # NoJob => opener # NoJob /\ opener'.sid = opener.sid
    <3>1. CASE Edited \/ Turned \/ HouseSwitches
      BY <3>1 DEF Edited, Turned, HouseSwitches
    <3>2. CASE OpenShow
      <4>1. opener # NoJob /\ opener' = [opener EXCEPT !.st = "show"]
        BY <3>2, KindsDiffer DEF OpenShow
      <4>2. opener \in [st : {"import", "show"}, sid : Sid, rate : Rates]
        BY <4>1 DEF DocInv, Types
      <4> QED  BY <4>1, <4>2
    <3> QED  BY <1>4, <3>1, <3>2
  <2> QED  BY <1>3, <2>1, <2>2, <2>3
<1>5. CASE \/ PasteEnds \/ NormEnds \/ Idle \/ EditCopy
           \/ BeginPaste \/ PasteImports \/ RebindClipboard
           \/ BeginNormalize \/ NormalizeWrites \/ TakeWrites \/ TakeGone
  <2>1. fate' = fate /\ closer' = closer /\ doc' = doc /\ opener' = opener
    BY <1>5 DEF PasteEnds, NormEnds, Idle, EditCopy, BeginPaste, PasteImports, RebindClipboard,
       BeginNormalize, NormalizeWrites, TakeWrites, TakeGone
  <2> QED  BY <1>3, <2>1
<1>6. CASE Replaced
  <2>1. doc' \in Doc /\ closer' = closer
    BY <1>6 DEF Replaced
  <2>2. doc'.sid \in Sid /\ doc' # NoDoc
    BY <2>1, KindsDiffer DEF Doc
  <2>3. PICK f \in {"closing", "left"} :
          fate' = IF doc = NoDoc THEN [fate EXCEPT ![doc'.sid] = "open"]
                  ELSE [fate EXCEPT ![doc'.sid] = "open", ![doc.sid] = f]
    BY <1>6 DEF Replaced
  <2>4. /\ fate[doc'.sid] \in {"unused", "new"}
        /\ opener' # NoJob => opener' = opener /\ opener.sid # doc'.sid
    <3>1. CASE fate[doc'.sid] = "unused" /\ opener' = opener
      BY <1>1, <3>1
    <3>2. CASE opener.st = "show" /\ doc' = Opened /\ opener' = NoJob
      <4>1. opener # NoJob
        BY <3>2, KindsDiffer
      <4>2. doc'.sid = opener.sid
        BY <3>2 DEF Opened, NewDoc
      <4> QED  BY <1>1, <3>2, <4>1, <4>2
    <3> QED  BY <1>6, <3>1, <3>2 DEF Replaced
  <2>5. doc # NoDoc => doc.sid # doc'.sid
    BY <1>1, <2>4
  <2>6. /\ fate'[doc'.sid] = "open"
        /\ \A s \in Sid : s # doc'.sid /\ (doc # NoDoc => s # doc.sid) => fate'[s] = fate[s]
    BY <1>1, <2>2, <2>3, <2>5
  <2>7. opener' # NoJob => fate'[opener'.sid] = "new"
    BY <1>1, <2>4, <2>6
  <2>8. closer' # NoJob => fate'[closer'.key[1]] = "open" /\ closer'.key[1] # doc'.sid
    BY <1>1, <2>1, <2>4, <2>6
  <2> QED  BY <1>2, <2>6, <2>7, <2>8 DEF FateInv
<1>7. CASE BeginOpen
  <2>1. PICK s \in Sid, rate \in Rates :
          /\ fate[s] = "unused" /\ fate' = [fate EXCEPT ![s] = "new"]
          /\ opener' = [st |-> "import", sid |-> s, rate |-> rate]
    BY <1>7 DEF BeginOpen, NewSession
  <2>2. doc' = doc /\ closer' = closer
    BY <1>7 DEF BeginOpen
  <2> QED  BY <1>1, <1>2, <2>1, <2>2 DEF FateInv
<1>8. CASE OpenFails
  <2>1. /\ opener # NoJob /\ fate' = [fate EXCEPT ![opener.sid] = "deleted"]
        /\ opener' = NoJob /\ doc' = doc /\ closer' = closer
    BY <1>8, KindsDiffer DEF OpenFails
  <2> QED  BY <1>1, <1>2, <2>1 DEF FateInv
<1>9. CASE CloseTakes
  <2>1. /\ doc # NoDoc /\ closer' = [st |-> "taken", key |-> KeyOf(doc)] /\ doc' = NoDoc
        /\ fate' = fate /\ opener' = opener
    BY <1>9 DEF CloseTakes
  <2>2. closer'.key[1] = doc.sid
    BY <2>1 DEF KeyOf
  <2>3. doc'.sid \notin Sid
    BY <2>1, KindsDiffer
  <2> QED  BY <1>1, <1>2, <2>1, <2>2, <2>3 DEF FateInv
<1>10. CASE CloseClipboard
  <2>1. /\ closer # NoJob /\ closer' = [closer EXCEPT !.st = "kept"]
        /\ doc' = doc /\ fate' = fate /\ opener' = opener
    BY <1>10, KindsDiffer DEF CloseClipboard
  <2>2. closer'.key = closer.key
    <3>1. closer \in [st : {"taken", "kept"}, key : Key]
      BY <2>1 DEF DocInv, Types
    <3> QED  BY <2>1, <3>1
  <2> QED  BY <1>1, <1>2, <2>1, <2>2 DEF FateInv
<1>11. CASE CloseEngine
  <2>1. /\ closer # NoJob /\ fate' = [fate EXCEPT ![closer.key[1]] = "closing"]
        /\ closer' = NoJob /\ doc' = doc /\ opener' = opener
    BY <1>11, KindsDiffer DEF CloseEngine
  <2> QED  BY <1>1, <1>2, <2>1 DEF FateInv
<1>12. CASE \E s \in Sid : CloseSession(s)
  <2>1. PICK s \in Sid : fate[s] = "closing" /\ \E x : fate' = [fate EXCEPT ![s] = x]
    BY <1>12 DEF CloseSession
  <2>2. doc' = doc /\ opener' = opener /\ closer' = closer
    BY <1>12 DEF CloseSession
  <2> QED  BY <1>1, <1>2, <2>1, <2>2 DEF FateInv
<1> QED  BY <1>4, <1>5, <1>6, <1>7, <1>8, <1>9, <1>10, <1>11, <1>12

-----------------------------------------------------------------------------
(* The stores *)

\* Store k keeps its chunks and gets at most the one whose turn it is.
Grows(k) ==
  /\ DOMAIN stores[k].data \subseteq DOMAIN stores'[k].data
  /\ \A i \in DOMAIN stores[k].data : stores'[k].data[i] = stores[k].data[i]
  /\ \A i \in DOMAIN stores'[k].data : i \in DOMAIN stores[k].data \/ i = stores[k].next
  /\ stores[k].next <= stores'[k].next

\* The step takes store k away from its document.
Leaves(k) ==
  \/ (Replaced \/ HouseSwitches) /\ k[1] = doc.sid
  \/ CloseClipboard /\ k[1] = closer.key[1]
  \/ OpenFails /\ k = <<opener.sid, 0>>

LEMMA StoresGrow ==
  ASSUME DocInv, [Next]_vars, NEW k \in Key, ~Leaves(k)
  PROVE  Grows(k)
<1> USE KindOfStep
<1>1. /\ stores \in [Key -> Store] /\ IdInv /\ stores[k] \in Store /\ stores[k].next \in Nat
  BY StateIsTyped DEF Store
<1>2. ASSUME stores'[k] = stores[k]
      PROVE  Grows(k)
  BY <1>1, <1>2 DEF Grows
<1>3. ASSUME NEW key \in Key, NEW a \in Audio, CanWrite(key), WriteAs(key, a)
      PROVE  Grows(k)
  <2>1. CASE key # k
    <3>1. stores'[k] = stores[k]
      BY <1>1, <1>3, <2>1, WriteGoesOn
    <3> QED  BY <1>2, <3>1
  <2>2. CASE key = k
    <3>1. /\ stores'[k].next = stores[k].next + 1
          /\ DOMAIN stores'[k].data = DOMAIN stores[k].data \cup {stores[k].next}
          /\ \A i \in DOMAIN stores[k].data : stores'[k].data[i] = stores[k].data[i]
      BY <1>1, <1>3, <2>2, WriteGoesOn
    <3>2. stores[k].next <= stores'[k].next
      BY <1>1, <3>1
    <3> QED  BY <3>1, <3>2 DEF Grows
  <2> QED  BY <2>1, <2>2
<1>4. \A key \in Key : CanWrite(key) => Fresh(key) \in Audio
  <2> SUFFICES ASSUME NEW key \in Key, CanWrite(key)
               PROVE  Fresh(key) \in Audio
    OBVIOUS
  <2>1. stores[key].next \in Nat \ {0} /\ stores[key].next <= MaxChunk /\ MaxChunk \in Nat
    BY <1>1, BoundsAreNat DEF Store, CanWrite
  <2>2. stores[key].next \in 1..MaxChunk
    BY <2>1
  <2> QED  BY <2>2 DEF Fresh, Audio
<1>5. CASE Replaced
  <2>1. stores' = WithoutSession(doc.sid) /\ k[1] # doc.sid
    BY <1>5 DEF Replaced, Leaves
  <2> QED  BY <1>1, <1>2, <2>1, ReleasedStores
<1>6. CASE CloseClipboard
  <2>1. stores' = WithoutSession(closer.key[1]) /\ k[1] # closer.key[1]
    BY <1>6 DEF CloseClipboard, Leaves
  <2> QED  BY <1>1, <1>2, <2>1, ReleasedStores
<1>7. CASE HouseSwitches
  <2>1. k[1] # doc.sid
    BY <1>7 DEF Leaves
  <2> QED  BY <1>2, <1>7, <2>1, SwitchesGoOn
<1>8. CASE OpenFails
  <2>1. stores' = [stores EXCEPT ![<<opener.sid, 0>>] = NoStore] /\ k # <<opener.sid, 0>>
    BY <1>8 DEF OpenFails, Leaves
  <2> QED  BY <1>1, <1>2, <2>1
<1>9. CASE BeginOpen
  <2>1. PICK s \in Sid : NewSession(s) /\ WriteAs(<<s, 0>>, Fresh(<<s, 0>>))
    BY <1>9 DEF BeginOpen
  <2>2. <<s, 0>> \in Key
    <3>1. MaxGen \in Nat
      BY BoundsAreNat
    <3> QED  BY <3>1 DEF Key
  <2>3. stores[<<s, 0>>] = NoStore
    BY <2>1 DEF NewSession, DocInv, FateInv
  <2>4. CanWrite(<<s, 0>>)
    <3>1. MaxChunk \in Nat /\ MaxChunk >= 1
      BY BoundsAreNat, ImportFits DEF ImportFits
    <3> QED  BY <2>3, <3>1, NoStoreIsAStore DEF CanWrite
  <2> QED  BY <1>3, <1>4, <2>1, <2>2, <2>4
<1>10. CASE PasteImports
  <2>1. paste # NoJob /\ CanWrite(paste.key) /\ WriteAs(paste.key, paste.clip.audio)
    BY <1>10, KindsDiffer DEF PasteImports
  <2>2. paste.key \in Key /\ paste.clip.audio \in Audio
    BY <2>1, StateIsTyped DEF PasteState, FileClip
  <2> QED  BY <1>3, <2>1, <2>2
<1>11. CASE NormalizeWrites
  <2>1. norm # NoJob /\ CanWrite(norm.key) /\ WriteAs(norm.key, Fresh(norm.key))
    BY <1>11, KindsDiffer DEF NormalizeWrites
  <2>2. norm.key \in Key
    BY <2>1, StateIsTyped
  <2> QED  BY <1>3, <1>4, <2>1, <2>2
<1>12. CASE TakeWrites
  <2>1. rec # NoJob /\ CanWrite(rec.key) /\ WriteAs(rec.key, Fresh(rec.key))
    BY <1>12, KindsDiffer DEF TakeWrites
  <2>2. rec.key \in Key
    BY <2>1, StateIsTyped
  <2> QED  BY <1>3, <1>4, <2>1, <2>2
<1>13. CASE \/ Edited \/ Turned \/ PasteEnds \/ NormEnds \/ Idle \/ EditCopy \/ OpenShow
            \/ CloseTakes \/ CloseEngine \/ (\E s \in Sid : CloseSession(s)) \/ BeginPaste
            \/ RebindClipboard \/ BeginNormalize \/ TakeGone
  <2>1. stores' = stores
    BY <1>13 DEF Edited, Turned, PasteEnds, NormEnds, Idle, EditCopy, OpenShow, CloseTakes,
       CloseEngine, CloseSession, BeginPaste, RebindClipboard, BeginNormalize, TakeGone
  <2> QED  BY <1>2, <2>1
<1> QED  BY <1>5, <1>6, <1>7, <1>8, <1>9, <1>10, <1>11, <1>12, <1>13

\* Named, of the next state.
WillBe(p, k) ==
  /\ p.id < stores'[k].next
  /\ p.id \in DOMAIN stores'[k].data => stores'[k].data[p.id] = p.audio

\* What a name says of a store that grows stays true.
LEMMA NamesStay ==
  ASSUME NEW k \in Key, NEW p \in Piece, Grows(k), Named(p, k),
         stores \in [Key -> Store], stores' \in [Key -> Store]
  PROVE  WillBe(p, k)
<1>1. stores[k].next \in Nat /\ stores'[k].next \in Nat
  BY DEF Store
<1>2. p.id < stores[k].next /\ p.id \in Nat
  <2>1. p.id \in 1..MaxChunk /\ MaxChunk \in Nat
    BY BoundsAreNat DEF Piece
  <2> QED  BY <2>1 DEF Named
<1>3. p.id < stores'[k].next /\ p.id # stores[k].next
  BY <1>1, <1>2 DEF Grows
<1>4. p.id \in DOMAIN stores'[k].data => stores'[k].data[p.id] = p.audio
  BY <1>3 DEF Grows, Named
<1> QED  BY <1>3, <1>4 DEF WillBe

\* The chunks of the open document stay where they are, unless the document is
\* replaced or compacted.
LEMMA DocumentGrows ==
  ASSUME DocInv, [Next]_vars, doc # NoDoc, ~Replaced, ~HouseSwitches
  PROVE  Grows(KeyOf(doc))
<1>1. KeyOf(doc) \in Key /\ KeyOf(doc)[1] = doc.sid /\ fate[doc.sid] = "open"
  BY StateIsTyped
<1>2. CloseClipboard => closer.key[1] # doc.sid
  <2>1. CloseClipboard => closer # NoJob
    BY KindsDiffer DEF CloseClipboard
  <2> QED  BY <2>1, StateIsTyped
<1>3. OpenFails => KeyOf(doc) # <<opener.sid, 0>>
  <2>1. OpenFails => opener # NoJob
    BY KindsDiffer DEF OpenFails
  <2>2. opener # NoJob => opener.sid # doc.sid
    BY <1>1, StateIsTyped
  <2> QED  BY <1>1, <2>1, <2>2
<1> QED  BY <1>1, <1>2, <1>3, StoresGrow DEF Leaves

LEMMA OpenInvIsKept ==
  ASSUME DocInv, [Next]_vars
  PROVE  OpenInv'
<1> USE KindOfStep
<1> SUFFICES ASSUME opener' # NoJob
             PROVE  /\ 1 \in DOMAIN stores'[<<opener'.sid, 0>>].data
                    /\ stores'[<<opener'.sid, 0>>].data[1] = <<<<opener'.sid, 0>>, 1>>
  BY DEF OpenInv
<1>1. CASE BeginOpen
  <2>1. PICK s \in Sid, rate \in Rates :
          /\ NewSession(s) /\ WriteAs(<<s, 0>>, Fresh(<<s, 0>>))
          /\ opener' = [st |-> "import", sid |-> s, rate |-> rate]
    BY <1>1 DEF BeginOpen
  <2>2. <<s, 0>> \in Key
    <3>1. MaxGen \in Nat
      BY BoundsAreNat
    <3> QED  BY <3>1 DEF Key
  <2>3. stores[<<s, 0>>].next = 1 /\ stores[<<s, 0>>] = NoStore
    BY <2>1, NoStoreIsAStore DEF NewSession, DocInv, FateInv
  <2>4. CanWrite(<<s, 0>>) /\ 1 \in 1..MaxChunk
    <3>1. MaxChunk \in Nat /\ MaxChunk >= 1
      BY BoundsAreNat, ImportFits DEF ImportFits
    <3> QED  BY <2>3, <3>1 DEF CanWrite
  <2>5. Fresh(<<s, 0>>) = <<<<s, 0>>, 1>> /\ Fresh(<<s, 0>>) \in Audio
    BY <2>2, <2>3, <2>4 DEF Fresh, Audio
  <2>6. /\ DOMAIN stores'[<<s, 0>>].data = DOMAIN stores[<<s, 0>>].data \cup {1}
        /\ stores'[<<s, 0>>].data[1] = Fresh(<<s, 0>>)
    BY <2>1, <2>2, <2>3, <2>4, <2>5, WriteGoesOn, StateIsTyped
  <2> QED  BY <2>1, <2>5, <2>6
<1>2. ASSUME opener # NoJob, opener'.sid = opener.sid, ~Leaves(<<opener.sid, 0>>)
      PROVE  /\ 1 \in DOMAIN stores'[<<opener'.sid, 0>>].data
             /\ stores'[<<opener'.sid, 0>>].data[1] = <<<<opener'.sid, 0>>, 1>>
  <2>1. <<opener.sid, 0>> \in Key
    BY <1>2, StateIsTyped
  <2>2. Grows(<<opener.sid, 0>>)
    BY <1>2, <2>1, StoresGrow
  <2> QED  BY <1>2, <2>2 DEF DocInv, OpenInv, Grows
<1>3. CASE ~BeginOpen
  <2>1. opener # NoJob /\ opener'.sid = opener.sid
    <3>1. CASE OpenShow
      <4>1. opener # NoJob /\ opener' = [opener EXCEPT !.st = "show"]
        BY <3>1, KindsDiffer DEF OpenShow
      <4>2. opener \in [st : {"import", "show"}, sid : Sid, rate : Rates]
        BY <4>1 DEF DocInv, Types
      <4> QED  BY <4>1, <4>2
    <3>2. CASE OpenFails \/ Replaced
      BY <3>2 DEF OpenFails, Replaced
    <3>3. CASE \/ Edited \/ Turned \/ PasteEnds \/ NormEnds \/ Idle \/ EditCopy
               \/ CloseTakes \/ CloseClipboard \/ CloseEngine
               \/ (\E s \in Sid : CloseSession(s)) \/ BeginPaste \/ PasteImports
               \/ RebindClipboard \/ BeginNormalize \/ NormalizeWrites \/ HouseSwitches
               \/ TakeWrites \/ TakeGone
      BY <3>3 DEF Edited, Turned, PasteEnds, NormEnds, Idle, EditCopy,
         CloseTakes, CloseClipboard, CloseEngine, CloseSession, BeginPaste, PasteImports,
         RebindClipboard, BeginNormalize, NormalizeWrites, HouseSwitches, TakeWrites, TakeGone
    <3> QED  BY <1>3, <3>1, <3>2, <3>3
  <2>2. fate[opener.sid] = "new" /\ opener.sid \in Sid
    BY <2>1, StateIsTyped
  <2>3. opener.sid # doc.sid
    BY <2>2, StateIsTyped, KindsDiffer
  <2>4. CloseClipboard => opener.sid # closer.key[1]
    <3>1. CloseClipboard => closer # NoJob
      BY KindsDiffer DEF CloseClipboard
    <3> QED  BY <2>2, <3>1, StateIsTyped
  <2>5. ~OpenFails
    BY DEF OpenFails
  <2>6. ~Leaves(<<opener.sid, 0>>)
    BY <2>3, <2>4, <2>5 DEF Leaves
  <2> QED  BY <1>2, <2>1, <2>6
<1> QED  BY <1>1, <1>3

-----------------------------------------------------------------------------
(* The take, the jobs and the document *)

\* The steps that leave the document as it is or end it.
LEMMA OtherSteps ==
  ASSUME DocInv, [Next]_vars,
         ~Edited, ~Turned, ~Replaced, ~HouseSwitches, ~CloseTakes
  PROVE  doc' = doc
<1> USE KindOfStep
<1> QED  BY DEF PasteEnds, NormEnds, Idle, EditCopy, BeginOpen, OpenFails, OpenShow,
         CloseClipboard, CloseEngine, CloseSession, BeginPaste, PasteImports, RebindClipboard,
         BeginNormalize, NormalizeWrites, TakeWrites, TakeGone

\* The session a step opens is one nobody has used.
LEMMA ReplacedIsNew ==
  ASSUME DocInv, Replaced
  PROVE  /\ doc' \in Doc /\ doc'.sid \in Sid /\ ~Used(doc'.sid) /\ doc'.sid # doc.sid
         /\ KeyOf(doc') \in Key /\ KeyOf(doc')[1] = doc'.sid
<1>1. doc' \in Doc
  BY DEF Replaced
<1>2. doc'.sid \in Sid /\ KeyOf(doc') \in Key /\ KeyOf(doc')[1] = doc'.sid
  BY <1>1, KeysAreTyped DEF Doc
<1>3. fate[doc'.sid] \in {"unused", "new"}
  <2>1. CASE fate[doc'.sid] = "unused"
    BY <2>1
  <2>2. CASE opener.st = "show" /\ doc' = Opened
    <3>1. opener # NoJob
      BY <2>2, KindsDiffer
    <3>2. doc'.sid = opener.sid
      BY <2>2 DEF Opened, NewDoc
    <3> QED  BY <3>1, <3>2, StateIsTyped
  <2> QED  BY <2>1, <2>2 DEF Replaced
<1>4. doc'.sid # doc.sid
  BY <1>2, <1>3, StateIsTyped, KindsDiffer
<1> QED  BY <1>1, <1>2, <1>3, <1>4 DEF Used

LEMMA TakeInvIsKept ==
  ASSUME DocInv, [Next]_vars
  PROVE  TakeInv'
<1> USE KindOfStep
<1>1. /\ \A s \in Sid : fate[s] = "left" => fate'[s] = "left"
      /\ \A s \in owed : s \in Sid
      /\ rec # NoJob => rec.sid \in Sid /\ rec.key[1] = rec.sid /\ rec.key \in Key /\ rec \in TakeState
  BY FateGoesOn, StateIsTyped DEF DocInv, TakeInv, Types
<1>2. rec # NoJob => \/ doc # NoDoc /\ doc.sid = rec.sid /\ doc.take /\ rec.key = KeyOf(doc)
                     \/ fate[rec.sid] = "left"
  BY DEF DocInv, TakeInv
<1>0. \A s \in owed : \/ fate[s] = "left"
                      \/ doc # NoDoc /\ doc.sid = s /\ doc.take /\ (rec # NoJob => rec.sid # s)
  BY DEF DocInv, TakeInv
<1>3. doc # NoDoc => /\ doc.sid \in Sid /\ fate[doc.sid] = "open"
                     /\ KeyOf(doc) \in Key /\ KeyOf(doc)[1] = doc.sid
  BY StateIsTyped
<1>4. rec # NoJob /\ doc # NoDoc /\ doc.sid = rec.sid /\ rec.piece # NoPiece =>
        rec.piece.id \in DOMAIN Data(doc)
  BY DEF DocInv, TakeInv
<1>5. CASE Edited
  <2>1. doc # NoDoc /\ doc' # NoDoc /\ doc'.sid = doc.sid /\ owed' = owed
    BY <1>5, KindsDiffer DEF Edited
  <2>4. \A s \in owed' : fate'[s] = "left"
    <3>1. ~doc.take \/ (rec # NoJob /\ rec.sid = doc.sid)
      BY <1>5 DEF Edited
    <3> QED  BY <1>0, <1>1, <2>1, <3>1
  <2>2. CASE rec' = NoJob
    BY <2>2, <2>4 DEF TakeInv
  <2>3. CASE rec # NoJob /\ rec' = rec /\ ~doc.take
    <3>1. fate[rec.sid] = "left" /\ doc'.sid # rec.sid
      BY <1>2, <1>3, <2>1, <2>3
    <3> QED  BY <1>1, <2>1, <2>3, <2>4, <3>1 DEF TakeInv
  <2> QED  BY <1>5, <2>2, <2>3 DEF Edited
<1>6. CASE Turned
  <2>1. /\ doc # NoDoc /\ doc' # NoDoc /\ doc'.sid = doc.sid /\ owed' = owed
        /\ KeyOf(doc') = KeyOf(doc) /\ Data(doc)' = Data(doc)
    BY <1>6, KindsDiffer DEF Turned, KeyOf, Data
  <2>5. \A s \in owed' : s \in Sid /\ (fate[s] = "left" => fate'[s] = "left")
    BY <1>1, <2>1
  <2>2. CASE rec # NoJob /\ rec.sid = doc.sid /\ rec' = NoJob
    <3>1. \A s \in owed' : fate'[s] = "left"
      BY <1>0, <2>1, <2>2, <2>5
    <3> QED  BY <2>2, <3>1 DEF TakeInv
  <2>3. CASE rec' = rec /\ doc'.take = doc.take
    <3>1. \A s \in owed' : \/ fate'[s] = "left"
                           \/ /\ doc' # NoDoc /\ doc'.sid = s /\ doc'.take
                              /\ (rec' # NoJob => rec'.sid # s)
      BY <1>0, <2>1, <2>3, <2>5
    <3> QED  BY <1>1, <1>2, <1>4, <2>1, <2>3, <3>1 DEF TakeInv
  <2>4. CASE ~doc.take /\ doc'.take /\ \E kind \in {"new", "op"} : rec' = Take(KeyOf(doc), kind)
    <3>1. /\ rec'.key = KeyOf(doc) /\ rec'.sid = doc.sid /\ rec'.piece = NoPiece
      BY <1>3, <2>1, <2>4 DEF Take
    <3>2. \A s \in owed' : fate'[s] = "left"
      BY <1>0, <2>1, <2>4, <2>5
    <3> QED  BY <1>1, <1>3, <2>1, <2>4, <3>1, <3>2 DEF TakeInv
  <2> QED  BY <1>6, <2>2, <2>3, <2>4 DEF Turned
<1>7. CASE Replaced
  <2>1. /\ doc' \in Doc /\ doc' # NoDoc /\ doc'.sid \in Sid /\ ~Used(doc'.sid)
        /\ KeyOf(doc')[1] = doc'.sid /\ doc'.sid # doc.sid
    BY <1>7, ReplacedIsNew, KindsDiffer
  <2>2. PICK f \in {"closing", "left"} :
          /\ fate' = IF doc = NoDoc THEN [fate EXCEPT ![doc'.sid] = "open"]
                     ELSE [fate EXCEPT ![doc'.sid] = "open", ![doc.sid] = f]
          /\ \/ rec' = rec /\ owed' = owed /\ (doc # NoDoc /\ doc.take => f = "left")
             \/ rec' = Take(KeyOf(doc'), "new") /\ doc'.take /\ owed' = owed /\ ~Recording
             \/ rec # NoJob /\ rec' = NoJob /\ f = "left" /\ owed' \subseteq owed \cup {rec.sid}
    BY <1>7 DEF Replaced
  <2>3. doc # NoDoc /\ f = "left" => fate'[doc.sid] = "left"
    BY <1>3, <2>2, StateIsTyped
  <2>4. rec # NoJob => rec.sid # doc'.sid
    BY <2>1, StateIsTyped
  <2>5. \A s \in owed' : fate'[s] = "left"
    <3>1. CASE owed' = owed /\ (doc # NoDoc /\ doc.take => f = "left")
      BY <1>0, <1>1, <2>3, <3>1
    <3>2. CASE rec # NoJob /\ f = "left" /\ owed' \subseteq owed \cup {rec.sid}
      BY <1>0, <1>1, <1>2, <2>3, <3>2
    <3>3. CASE owed' = owed /\ ~Recording
      BY <1>0, <1>1, <3>3 DEF Recording
    <3> QED  BY <2>2, <3>1, <3>2, <3>3
  <2>6. CASE rec' = NoJob
    BY <2>5, <2>6 DEF TakeInv
  <2>7. CASE rec # NoJob /\ rec' = rec /\ (doc # NoDoc /\ doc.take => f = "left")
    <3>1. fate'[rec.sid] = "left"
      BY <1>1, <1>2, <2>3, <2>7
    <3> QED  BY <1>1, <2>4, <2>5, <2>7, <3>1 DEF TakeInv
  <2>8. CASE rec' = Take(KeyOf(doc'), "new") /\ doc'.take
    <3>1. rec'.key = KeyOf(doc') /\ rec'.sid = doc'.sid /\ rec'.piece = NoPiece
      BY <2>1, <2>8 DEF Take
    <3>2. rec'.key[1] = rec'.sid
      BY <2>1, <3>1
    <3> QED  BY <2>1, <2>5, <2>8, <3>1, <3>2 DEF TakeInv
  <2> QED  BY <2>2, <2>6, <2>7, <2>8
<1>8. CASE HouseSwitches
  <2>1. /\ doc # NoDoc /\ ~doc.take /\ doc'.sid = doc.sid
        /\ rec' = rec /\ owed' = owed /\ fate' = fate
    <3>1. doc # NoDoc /\ rec' = rec /\ owed' = owed /\ fate' = fate
      BY <1>8 DEF HouseSwitches
    <3> QED  BY <1>8, <3>1, SwitchesGoOn
  <2>2. rec # NoJob => fate[rec.sid] = "left" /\ rec.sid # doc.sid
    BY <1>2, <1>3, <2>1
  <2>3. \A s \in owed' : fate'[s] = "left"
    BY <1>0, <2>1
  <2> QED  BY <1>1, <2>1, <2>2, <2>3 DEF TakeInv
<1>9. CASE CloseTakes
  <2>1. ~Recording /\ doc # NoDoc /\ doc' = NoDoc /\ rec' = rec /\ owed' = owed
    BY <1>9 DEF CloseTakes, ghosts
  <2>2. rec # NoJob => fate[rec.sid] = "left"
    BY <1>2, <2>1 DEF Recording
  <2>3. \A s \in owed' : fate'[s] = "left"
    BY <1>0, <1>1, <2>1 DEF Recording
  <2> QED  BY <1>1, <2>1, <2>2, <2>3 DEF TakeInv
<1>10. CASE TakeWrites
  <2>1. /\ rec # NoJob /\ CanWrite(rec.key) /\ WriteAs(rec.key, Fresh(rec.key))
        /\ rec' = [rec EXCEPT !.piece = NextPiece(rec.key, Fresh(rec.key))]
        /\ doc' = doc /\ owed' = owed
    BY <1>10, KindsDiffer DEF TakeWrites, ghosts
  <2>2. /\ rec'.key = rec.key /\ rec'.sid = rec.sid /\ rec'.piece.id = stores[rec.key].next
    BY <1>1, <2>1 DEF TakeState, NextPiece
  <2>3. Fresh(rec.key) \in Audio
    <3>1. stores[rec.key] \in Store /\ MaxChunk \in Nat
      BY <1>1, <2>1, StateIsTyped, BoundsAreNat
    <3>2. stores[rec.key].next \in 1..MaxChunk
      BY <2>1, <3>1 DEF Store, CanWrite
    <3> QED  BY <1>1, <2>1, <3>2 DEF Fresh, Audio
  <2>4. stores[rec.key].next \in DOMAIN stores'[rec.key].data
    BY <1>1, <2>1, <2>3, WriteGoesOn, StateIsTyped
  <2>5. doc # NoDoc /\ doc.sid = rec.sid => rec.key = KeyOf(doc)
    BY <1>2, <1>3, <2>1
  <2>6. doc # NoDoc /\ doc.sid = rec.sid => rec'.piece.id \in DOMAIN Data(doc)'
    BY <2>1, <2>2, <2>4, <2>5 DEF Data, KeyOf
  <2>7. \A s \in owed' : \/ fate'[s] = "left"
                         \/ /\ doc' # NoDoc /\ doc'.sid = s /\ doc'.take
                            /\ (rec' # NoJob => rec'.sid # s)
    BY <1>0, <1>1, <2>1, <2>2
  <2> QED  BY <1>1, <1>2, <2>1, <2>2, <2>6, <2>7 DEF TakeInv, KeyOf
<1>11. CASE TakeGone
  <2>1. /\ rec # NoJob /\ rec' = NoJob /\ fate' = fate /\ doc' = doc
        /\ owed' \subseteq owed \cup {rec.sid}
    BY <1>11 DEF TakeGone
  <2>2. fate[rec.sid] = "left" \/ (doc # NoDoc /\ doc.sid = rec.sid /\ doc.take)
    BY <1>2, <2>1
  <2>3. \A s \in owed' : fate'[s] = "left" \/ (doc' # NoDoc /\ doc'.sid = s /\ doc'.take)
    BY <1>0, <2>1, <2>2
  <2> QED  BY <2>1, <2>3 DEF TakeInv
<1>12. CASE /\ ~Edited /\ ~Turned /\ ~Replaced /\ ~HouseSwitches /\ ~CloseTakes
            /\ ~TakeWrites /\ ~TakeGone
  <2>1. doc' = doc
    BY <1>12, OtherSteps
  <2>2. rec' = rec /\ owed' = owed
    BY <1>12 DEF PasteEnds, NormEnds, Idle, EditCopy, BeginOpen, OpenFails, OpenShow,
       CloseClipboard, CloseEngine, CloseSession, BeginPaste, PasteImports, RebindClipboard,
       BeginNormalize, NormalizeWrites, ghosts
  <2>3. doc # NoDoc => DOMAIN Data(doc) \subseteq DOMAIN Data(doc)'
    <3>1. doc # NoDoc => Grows(KeyOf(doc))
      BY <1>12, DocumentGrows
    <3>2. KeyOf(doc)' = KeyOf(doc)
      BY <2>1 DEF KeyOf
    <3> QED  BY <3>1, <3>2 DEF Grows, Data
  <2>4. KeyOf(doc)' = KeyOf(doc)
    BY <2>1 DEF KeyOf
  <2>5. rec' # NoJob => \/ doc' # NoDoc /\ doc'.sid = rec'.sid /\ doc'.take /\ rec'.key = KeyOf(doc)'
                        \/ fate'[rec'.sid] = "left"
    BY <1>1, <1>2, <2>1, <2>2, <2>4
  <2>6. rec' # NoJob /\ doc' # NoDoc /\ doc'.sid = rec'.sid /\ rec'.piece # NoPiece =>
          rec'.piece.id \in DOMAIN Data(doc)'
    BY <1>4, <2>1, <2>2, <2>3
  <2>7. /\ rec' # NoJob => rec'.key[1] = rec'.sid
        /\ \A s \in owed' : \/ fate'[s] = "left"
                            \/ /\ doc' # NoDoc /\ doc'.sid = s /\ doc'.take
                               /\ (rec' # NoJob => rec'.sid # s)
    BY <1>0, <1>1, <2>1, <2>2
  <2> QED  BY <2>5, <2>6, <2>7 DEF TakeInv
<1> QED  BY <1>5, <1>6, <1>7, <1>8, <1>9, <1>10, <1>11, <1>12

\* A job goes on with the session and the store it began with.
LEMMA JobsGoOn ==
  ASSUME DocInv, [Next]_vars
  PROVE  /\ paste' # NoJob =>
              \/ paste # NoJob /\ paste'.sid = paste.sid /\ paste'.key = paste.key
              \/ BeginPaste /\ doc # NoDoc /\ paste'.st = "run" /\ paste'.sid = doc.sid
                 /\ paste'.key = KeyOf(doc) /\ paste'.piece = NoPiece
         /\ norm' # NoJob =>
              \/ norm # NoJob /\ norm'.sid = norm.sid /\ norm'.key = norm.key
                 /\ norm'.rev = norm.rev /\ norm'.read = norm.read /\ norm'.range = norm.range
              \/ BeginNormalize /\ doc # NoDoc /\ norm'.st = "run" /\ norm'.sid = doc.sid
                 /\ norm'.key = KeyOf(doc) /\ norm'.rev = doc.rev /\ norm'.read = doc.cur
                 /\ norm'.piece = NoPiece
<1> USE KindOfStep
<1>1. /\ paste # NoJob => paste \in PasteState
      /\ norm # NoJob => norm \in NormState
  BY StateIsTyped
<1>2. CASE BeginPaste
  <2>1. /\ doc # NoDoc /\ norm' = norm
        /\ paste' = [st |-> "run", sid |-> doc.sid, key |-> KeyOf(doc), rate |-> doc.rate,
                     clip |-> clip, piece |-> NoPiece]
    BY <1>2 DEF BeginPaste
  <2> QED  BY <1>2, <2>1
<1>3. CASE BeginNormalize
  <2>1. doc # NoDoc /\ paste' = paste
    BY <1>3 DEF BeginNormalize
  <2>2. PICK p \in doc.cur :
          norm' = [st |-> "run", sid |-> doc.sid, key |-> KeyOf(doc), rev |-> doc.rev,
                   read |-> doc.cur, range |-> p, piece |-> NoPiece]
    BY <1>3 DEF BeginNormalize
  <2> QED  BY <1>3, <2>1, <2>2
<1>4. CASE PasteImports
  <2>1. /\ paste # NoJob /\ norm' = norm
        /\ paste' = [paste EXCEPT !.st = "written", !.piece = NextPiece(paste.key, paste.clip.audio)]
    BY <1>4, KindsDiffer DEF PasteImports
  <2> QED  BY <1>1, <2>1 DEF PasteState
<1>5. CASE NormalizeWrites
  <2>1. /\ norm # NoJob /\ paste' = paste
        /\ norm' = [norm EXCEPT !.st = "written", !.piece = NextPiece(norm.key, Fresh(norm.key))]
    BY <1>5, KindsDiffer DEF NormalizeWrites
  <2> QED  BY <1>1, <2>1 DEF NormState
<1>6. CASE Edited
  <2>1. norm' # NoJob => norm # NoJob /\ norm' = norm
    BY <1>6 DEF Edited
  <2>2. CASE paste' = paste
    BY <2>1, <2>2
  <2>3. CASE paste.st = "written" /\ paste' = [paste EXCEPT !.st = "rebind"]
    <3>1. paste # NoJob
      BY <2>3, KindsDiffer
    <3> QED  BY <1>1, <2>1, <2>3, <3>1 DEF PasteState
  <2> QED  BY <1>6, <2>2, <2>3 DEF Edited
<1>7. CASE RebindClipboard \/ PasteEnds \/ NormEnds
  BY <1>7 DEF RebindClipboard, PasteEnds, NormEnds
<1>8. CASE \/ Turned \/ Replaced \/ Idle \/ EditCopy \/ BeginOpen \/ OpenFails
           \/ OpenShow \/ CloseTakes \/ CloseClipboard \/ CloseEngine
           \/ (\E s \in Sid : CloseSession(s)) \/ HouseSwitches \/ TakeWrites \/ TakeGone
  <2>1. paste' = paste /\ norm' = norm
    BY <1>8 DEF Turned, Replaced, Idle, EditCopy, BeginOpen, OpenFails, OpenShow,
       CloseTakes, CloseClipboard, CloseEngine, CloseSession, HouseSwitches, TakeWrites,
       TakeGone, jobs
  <2> QED  BY <2>1
<1> QED  BY <1>2, <1>3, <1>4, <1>5, <1>6, <1>7, <1>8

\* What a step does to the clipboard.
LEMMA ClipGoesOn ==
  ASSUME DocInv, [Next]_vars
  PROVE  \/ clip' = clip
         \/ doc # NoDoc /\ (Edited \/ EditCopy) /\ \E p \in doc.cur : clip' = Bound(p, doc)
         \/ doc # NoDoc /\ Replaced /\ clip' \in Materialized(clip, KeyOf(doc))
         \/ closer # NoJob /\ CloseClipboard /\ clip' \in Materialized(clip, closer.key)
         \/ RebindClipboard /\ paste # NoJob /\ paste.st = "rebind"
            /\ \/ clip' = [kind |-> "bound", piece |-> paste.piece, rate |-> paste.rate,
                           owner |-> paste.sid]
               \/ clip \in FileClip
                  /\ clip' = [clip EXCEPT !.for = paste.sid, !.piece = paste.piece]
<1> USE KindOfStep
<1>1. CASE Edited
  BY <1>1, KindsDiffer DEF Edited
<1>2. CASE EditCopy
  BY <1>2 DEF EditCopy, Command
<1>3. CASE Replaced
  BY <1>3 DEF Replaced
<1>4. CASE CloseClipboard
  BY <1>4, KindsDiffer DEF CloseClipboard
<1>5. CASE RebindClipboard
  <2>1. paste # NoJob /\ paste.st = "rebind"
    BY <1>5, KindsDiffer DEF RebindClipboard
  <2>2. clip.kind = "file" => clip \in FileClip
    BY DEF DocInv, Types, Empty, BoundClip
  <2>3. \/ clip' = [kind |-> "bound", piece |-> paste.piece, rate |-> paste.rate,
                    owner |-> paste.sid]
        \/ clip.kind = "file" /\ clip' = [clip EXCEPT !.for = paste.sid, !.piece = paste.piece]
        \/ clip' = clip
    BY <1>5 DEF RebindClipboard
  <2> QED  BY <1>5, <2>1, <2>2, <2>3
<1>6. CASE \/ Turned \/ PasteEnds \/ NormEnds \/ Idle \/ BeginOpen \/ OpenFails \/ OpenShow
           \/ CloseTakes \/ CloseEngine \/ (\E s \in Sid : CloseSession(s))
           \/ BeginPaste \/ PasteImports \/ BeginNormalize
           \/ NormalizeWrites \/ HouseSwitches \/ TakeWrites \/ TakeGone
  BY <1>6 DEF Turned, PasteEnds, NormEnds, Idle, BeginOpen, OpenFails, OpenShow,
     CloseTakes, CloseEngine, CloseSession, BeginPaste, PasteImports,
     BeginNormalize, NormalizeWrites, HouseSwitches, TakeWrites, TakeGone
<1> QED  BY <1>1, <1>2, <1>3, <1>4, <1>5, <1>6

LEMMA UseInvIsKept ==
  ASSUME DocInv, [Next]_vars
  PROVE  UseInv'
<1>1. \A s \in Sid : Used(s) => fate'[s] \notin {"unused", "new"}
  BY FateGoesOn DEF Used
<1>2. doc # NoDoc => /\ doc \in Doc /\ doc.sid \in Sid /\ Used(doc.sid)
                     /\ KeyOf(doc)[1] = doc.sid /\ KeyOf(doc) \in Key
  BY StateIsTyped DEF Used
<1>3. /\ paste # NoJob => paste.sid \in Sid /\ Used(paste.sid) /\ paste.key[1] = paste.sid
      /\ norm # NoJob => norm.sid \in Sid /\ Used(norm.sid) /\ norm.key[1] = norm.sid
      /\ closer # NoJob => closer.key \in Key
      /\ stores \in [Key -> Store]
  BY StateIsTyped
<1>4. /\ clip \in {Empty} \cup FileClip \cup BoundClip
      /\ clip.kind = "file" /\ clip.for # 0 => Used(clip.for) /\ clip.piece \in Piece
      /\ clip.kind = "bound" => Used(clip.owner)
  BY DEF DocInv, Types, UseInv
<1>5. /\ clip.kind = "file" /\ clip.for # 0 => clip.for \in Sid
      /\ clip.kind = "bound" => clip.owner \in Sid
  BY <1>4 DEF Empty, FileClip, BoundClip
<1>6. paste' # NoJob => fate'[paste'.sid] \notin {"unused", "new"} /\ paste'.key[1] = paste'.sid
  BY <1>1, <1>2, <1>3, JobsGoOn
<1>7. norm' # NoJob => fate'[norm'.sid] \notin {"unused", "new"} /\ norm'.key[1] = norm'.sid
  BY <1>1, <1>2, <1>3, JobsGoOn
<1>8. /\ clip'.kind = "file" /\ clip'.for # 0 => fate'[clip'.for] \notin {"unused", "new"} /\ clip'.piece \in Piece
      /\ clip'.kind = "bound" => fate'[clip'.owner] \notin {"unused", "new"}
  <2>1. CASE clip' = clip
    BY <1>1, <1>4, <1>5, <2>1
  <2>2. CASE doc # NoDoc /\ \E p \in doc.cur : clip' = Bound(p, doc)
    <3>1. clip'.kind = "bound" /\ clip'.owner = doc.sid
      BY <2>2 DEF Bound
    <3> QED  BY <1>1, <1>2, <2>2, <3>1
  <2>3. CASE \E key \in Key : clip' \in Materialized(clip, key)
    <3>1. PICK key \in Key : clip' \in Materialized(clip, key)
      BY <2>3
    <3>2. clip'.kind # "bound" /\ (clip'.kind = "file" => clip' = clip \/ clip'.for = 0)
      BY <1>3, <1>4, <3>1, MaterializedIsLoose
    <3> QED  BY <2>1, <3>2
  <2>4. CASE RebindClipboard /\ paste # NoJob /\ paste.st = "rebind"
             /\ clip' = [kind |-> "bound", piece |-> paste.piece, rate |-> paste.rate,
                         owner |-> paste.sid]
    <3>1. clip'.kind = "bound" /\ clip'.owner = paste.sid
      BY <2>4
    <3> QED  BY <1>1, <1>3, <2>4, <3>1
  <2>5. CASE RebindClipboard /\ paste # NoJob /\ paste.st = "rebind" /\ clip \in FileClip
             /\ clip' = [clip EXCEPT !.for = paste.sid, !.piece = paste.piece]
    <3>1. clip'.kind = "file" /\ clip'.for = paste.sid /\ clip'.piece = paste.piece
      BY <2>5 DEF FileClip
    <3>2. paste.piece \in Piece
      BY <2>5 DEF DocInv, PasteInv
    <3> QED  BY <1>1, <1>3, <2>5, <3>1, <3>2
  <2> QED  BY <1>2, <1>3, <2>1, <2>2, <2>3, <2>4, <2>5, ClipGoesOn
<1> QED  BY <1>6, <1>7, <1>8 DEF UseInv, Used

LEMMA PasteInvIsKept ==
  ASSUME DocInv, [Next]_vars
  PROVE  PasteInv'
<1> DEFINE Wrote == paste.st \in {"written", "rebind"}
<1>1. /\ paste # NoJob => /\ paste.sid \in Sid /\ Used(paste.sid) /\ paste.key[1] = paste.sid
                          /\ paste.key \in Key /\ paste \in PasteState
      /\ doc # NoDoc => /\ doc \in Doc /\ KeyOf(doc) \in Key /\ KeyOf(doc)[1] = doc.sid
      /\ stores \in [Key -> Store] /\ IdInv
  BY StateIsTyped
<1>2. /\ paste # NoJob /\ doc # NoDoc /\ doc.sid = paste.sid => paste.key[2] <= doc.gen
      /\ Wrote => paste.piece \in Piece
      /\ Wrote /\ doc # NoDoc /\ KeyOf(doc) = paste.key => paste.piece.id \in DOMAIN Data(doc)
  BY DEF DocInv, PasteInv
<1>3. doc # NoDoc => doc.gen \in Nat /\ KeyOf(doc)[2] = doc.gen
  <2>1. MaxGen \in Nat
    BY BoundsAreNat
  <2> QED  BY <1>1, <2>1 DEF Doc, KeyOf
<1>4. Wrote => paste # NoJob
  BY KindsDiffer
<1>5. CASE Edited
  <2>1. /\ doc # NoDoc /\ doc' # NoDoc /\ doc'.sid = doc.sid /\ doc'.gen = doc.gen
        /\ KeyOf(doc)' = KeyOf(doc) /\ Data(doc)' = Data(doc)
    BY <1>5, KindsDiffer DEF Edited, KeyOf, Data
  <2>2. CASE paste' = paste
    BY <1>2, <2>1, <2>2 DEF PasteInv
  <2>3. CASE paste.st = "written" /\ paste' = [paste EXCEPT !.st = "rebind"]
    <3>1. paste'.sid = paste.sid /\ paste'.key = paste.key /\ paste'.piece = paste.piece
      BY <1>1, <1>4, <2>3 DEF PasteState
    <3> QED  BY <1>2, <1>4, <2>1, <2>3, <3>1 DEF PasteInv
  <2> QED  BY <1>5, <2>2, <2>3 DEF Edited
<1>6. CASE Turned
  <2>1. /\ doc # NoDoc /\ doc' # NoDoc /\ doc'.sid = doc.sid /\ doc'.gen = doc.gen
        /\ KeyOf(doc)' = KeyOf(doc) /\ Data(doc)' = Data(doc) /\ paste' = paste
    BY <1>6, KindsDiffer DEF Turned, KeyOf, Data
  <2> QED  BY <1>2, <2>1 DEF PasteInv
<1>7. CASE Replaced
  <2>1. /\ ~Used(doc'.sid) /\ KeyOf(doc')[1] = doc'.sid /\ paste' = paste
    BY <1>7, ReplacedIsNew DEF Replaced
  <2>2. paste # NoJob => doc'.sid # paste.sid /\ KeyOf(doc') # paste.key
    BY <1>1, <2>1
  <2> QED  BY <1>2, <1>4, <2>1, <2>2 DEF PasteInv
<1>8. CASE HouseSwitches
  <2>1. /\ doc # NoDoc /\ doc'.sid = doc.sid /\ doc'.gen = doc.gen + 1
        /\ KeyOf(doc') = <<doc.sid, doc.gen + 1>> /\ paste' = paste
    <3>1. doc # NoDoc /\ paste' = paste
      BY <1>8 DEF HouseSwitches
    <3> QED  BY <1>8, <3>1, SwitchesGoOn DEF KeyOf
  <2>2. paste # NoJob => paste.key[2] \in Nat
    <3>1. MaxGen \in Nat
      BY BoundsAreNat
    <3> QED  BY <1>1, <3>1 DEF Key
  <2>3. paste # NoJob /\ doc.sid = paste.sid => paste.key[2] <= doc.gen + 1
    BY <1>2, <1>3, <2>1, <2>2
  <2>4. paste # NoJob => KeyOf(doc') # paste.key
    <3>1. SUFFICES ASSUME paste # NoJob, KeyOf(doc') = paste.key
                   PROVE  FALSE
      OBVIOUS
    <3>2. paste.key[1] = doc.sid /\ paste.key[2] = doc.gen + 1
      BY <2>1, <3>1
    <3>3. paste.key[2] <= doc.gen
      BY <1>1, <1>2, <2>1, <3>1, <3>2
    <3> QED  BY <1>3, <2>1, <3>2, <3>3
  <2> QED  BY <1>2, <1>4, <2>1, <2>3, <2>4 DEF PasteInv
<1>9. CASE CloseTakes
  <2>1. doc' = NoDoc /\ paste' = paste
    BY <1>9 DEF CloseTakes, jobs
  <2> QED  BY <1>2, <2>1 DEF PasteInv
<1>10. CASE ~Edited /\ ~Turned /\ ~Replaced /\ ~HouseSwitches /\ ~CloseTakes
  <2>1. doc' = doc /\ KeyOf(doc)' = KeyOf(doc)
    BY <1>10, OtherSteps DEF KeyOf
  <2>2. doc # NoDoc => DOMAIN Data(doc) \subseteq DOMAIN Data(doc)'
    <3>1. doc # NoDoc => Grows(KeyOf(doc))
      BY <1>10, DocumentGrows
    <3> QED  BY <2>1, <3>1 DEF Grows, Data
  <2>3. CASE paste' = NoJob
    BY <2>3, KindsDiffer DEF PasteInv
  <2>4. CASE paste' = paste
    BY <1>2, <2>1, <2>2, <2>4 DEF PasteInv
  <2>5. CASE BeginPaste
    <3>1. doc # NoDoc /\ paste' = [st |-> "run", sid |-> doc.sid, key |-> KeyOf(doc), rate |-> doc.rate,
                                   clip |-> clip, piece |-> NoPiece]
      BY <2>5 DEF BeginPaste
    <3>2. paste'.key[2] <= doc'.gen /\ paste'.st = "run"
      BY <1>3, <2>1, <3>1
    <3> QED  BY <3>2 DEF PasteInv
  <2>6. CASE PasteImports
    <3>1. /\ paste # NoJob /\ CanWrite(paste.key) /\ WriteAs(paste.key, paste.clip.audio)
          /\ paste' = [paste EXCEPT !.st = "written", !.piece = NextPiece(paste.key, paste.clip.audio)]
      BY <2>6, KindsDiffer DEF PasteImports
    <3>2. paste.clip.audio \in Audio
      BY <1>1, <3>1 DEF PasteState, FileClip
    <3>3. stores[paste.key].next \in 1..MaxChunk
          /\ stores[paste.key].next \in DOMAIN stores'[paste.key].data
      BY <1>1, <3>1, <3>2, WriteGoesOn
    <3>4. /\ paste'.sid = paste.sid /\ paste'.key = paste.key
          /\ paste'.piece = NextPiece(paste.key, paste.clip.audio)
      BY <1>1, <3>1 DEF PasteState
    <3>5. paste'.piece \in Piece /\ paste'.piece.id = stores[paste.key].next
      BY <3>2, <3>3, <3>4 DEF NextPiece, Piece
    <3>6. KeyOf(doc) = paste.key => paste'.piece.id \in DOMAIN Data(doc)'
      BY <2>1, <3>3, <3>5 DEF Data
    <3> QED  BY <1>2, <2>1, <3>1, <3>4, <3>5, <3>6 DEF PasteInv
  <2>7. paste' = paste \/ paste' = NoJob \/ BeginPaste \/ PasteImports
    BY <1>10, KindOfStep DEF PasteEnds, NormEnds, Idle, EditCopy, BeginOpen, OpenFails, OpenShow,
       CloseClipboard, CloseEngine, CloseSession, RebindClipboard,
       BeginNormalize, NormalizeWrites, TakeWrites, TakeGone, jobs
  <2> QED  BY <2>3, <2>4, <2>5, <2>6, <2>7
<1> QED  BY <1>5, <1>6, <1>7, <1>8, <1>9, <1>10

LEMMA HistInvIsKept ==
  ASSUME DocInv, [Next]_vars
  PROVE  HistInv'
<1>1. doc # NoDoc => Ids(Pieces(doc)) \subseteq DOMAIN Data(doc)
  BY DEF DocInv, HistInv
<1>2. CASE Edited
  <2>1. Data(doc)' = Data(doc) /\ Ids(Pieces(doc')) \subseteq DOMAIN Data(doc)
    BY <1>2 DEF Edited, KeyOf, Data
  <2> QED  BY <2>1 DEF HistInv
<1>3. CASE Turned
  <2>1. /\ Data(doc)' = Data(doc) /\ doc # NoDoc /\ Pieces(doc') \subseteq Pieces(doc)
    BY <1>3, KindsDiffer DEF Turned, KeyOf, Data
  <2>2. Ids(Pieces(doc')) \subseteq Ids(Pieces(doc))
    BY <2>1 DEF Ids
  <2> QED  BY <1>1, <2>1, <2>2 DEF HistInv
<1>4. CASE Replaced
  <2>1. Pieces(doc') = doc'.cur
    BY <1>4 DEF Replaced
  <2>2. CASE doc'.cur = {}
    BY <2>1, <2>2 DEF HistInv, Ids
  <2>3. CASE opener.st = "show" /\ doc' = Opened
    <3>1. opener # NoJob
      BY <2>3, KindsDiffer
    <3>2. /\ 1 \in DOMAIN stores[<<opener.sid, 0>>].data
          /\ <<opener.sid, 0>> \in Key
      BY <3>1, StateIsTyped DEF DocInv, OpenInv
    <3>3. doc'.sid = opener.sid /\ doc'.gen = 0 /\ Ids(doc'.cur) = {1}
      BY <2>3 DEF Opened, NewDoc, Ids
    <3>4. KeyOf(doc') = <<opener.sid, 0>>
      BY <3>3 DEF KeyOf
    <3>5. stores'[<<opener.sid, 0>>] = stores[<<opener.sid, 0>>]
      <4>1. opener.sid # doc.sid
        BY <1>4, <3>3, ReplacedIsNew
      <4>2. stores' = WithoutSession(doc.sid)
        BY <1>4 DEF Replaced
      <4>3. <<opener.sid, 0>>[1] # doc.sid
        BY <4>1
      <4> QED  BY <3>2, <4>2, <4>3, ReleasedStores, StateIsTyped
    <3>6. Data(doc)' = stores[<<opener.sid, 0>>].data
      BY <3>4, <3>5 DEF Data, KeyOf
    <3> QED  BY <2>1, <3>2, <3>3, <3>6 DEF HistInv
  <2> QED  BY <1>4, <2>2, <2>3 DEF Replaced
<1>5. CASE HouseSwitches
  <2>1. /\ Pieces(doc') = Pieces(doc) /\ DOMAIN stores'[KeyOf(doc')].data = Copied
        /\ Ids(Pieces(doc) \cup house.clip) \subseteq Copied
    BY <1>5, SwitchesGoOn
  <2>2. Ids(Pieces(doc)) \subseteq Copied
    BY <2>1 DEF Ids
  <2>3. Data(doc)' = stores'[KeyOf(doc')].data
    BY DEF Data, KeyOf
  <2>4. Ids(Pieces(doc')) \subseteq DOMAIN Data(doc)'
    BY <2>1, <2>2, <2>3
  <2> QED  BY <2>4 DEF HistInv
<1>6. CASE CloseTakes
  BY <1>6 DEF CloseTakes, HistInv
<1>7. CASE ~Edited /\ ~Turned /\ ~Replaced /\ ~HouseSwitches /\ ~CloseTakes
  <2>1. doc' = doc /\ KeyOf(doc)' = KeyOf(doc)
    BY <1>7, OtherSteps DEF KeyOf
  <2>2. doc # NoDoc => DOMAIN Data(doc) \subseteq DOMAIN Data(doc)'
    <3>1. doc # NoDoc => Grows(KeyOf(doc))
      BY <1>7, DocumentGrows
    <3> QED  BY <2>1, <3>1 DEF Grows, Data
  <2>3. Pieces(doc)' = Pieces(doc)
    BY <2>1
  <2> QED  BY <1>1, <2>1, <2>2, <2>3 DEF HistInv
<1> QED  BY <1>2, <1>3, <1>4, <1>5, <1>6, <1>7

-----------------------------------------------------------------------------
(* The engine and the normalize job *)

LEMMA EngineInvIsKept ==
  ASSUME DocInv, [Next]_vars
  PROVE  EngineInv'
<1> SUFFICES ASSUME "crossed" \notin slips'
             PROVE  /\ opener'.st = "show" => engine' = Shown(Opened)'
                    /\ opener'.st # "show" /\ closer' = NoJob => engine' = Shown(doc')
  BY DEF EngineInv
<1>1. "crossed" \notin slips =>
        /\ opener.st = "show" => engine = Shown(Opened)
        /\ opener.st # "show" /\ closer = NoJob => engine = Shown(doc)
  BY DEF DocInv, EngineInv
<1>2. "crossed" \notin Crossed => opener.st # "show" /\ closer = NoJob
  BY DEF Crossed
<1>3. opener' = opener => Shown(Opened)' = Shown(Opened)
  BY DEF Opened
<1>4. /\ NoJob.st # "show" /\ NoDoc \notin Doc
      /\ opener # NoJob => opener \in [st : {"import", "show"}, sid : Sid, rate : Rates]
      /\ closer # NoJob => closer \in [st : {"taken", "kept"}, key : Key]
  BY KindsDiffer DEF DocInv, Types
<1>5. CASE Edited \/ HouseSwitches
  <2>1. /\ engine' = Shown(doc') /\ Crossed \subseteq slips' /\ opener' = opener /\ closer' = closer
    BY <1>5 DEF Edited, HouseSwitches, Publishes
  <2> QED  BY <1>2, <2>1
<1>6. CASE Turned
  <2>1. /\ doc # NoDoc /\ doc' # NoDoc /\ doc'.sid = doc.sid /\ doc'.gen = doc.gen
        /\ doc'.rev = doc.rev
        /\ opener' = opener /\ closer' = closer /\ engine' = engine /\ slips' = slips
    BY <1>4, <1>6 DEF Turned
  <2>2. Shown(doc') = Shown(doc)
    BY <2>1 DEF Shown
  <2> QED  BY <1>1, <1>3, <2>1, <2>2
<1>7. CASE Replaced
  <2>1. closer = NoJob /\ "crossed" \notin slips
    BY <1>7 DEF Replaced
  <2>2. CASE engine' = Shown(doc') /\ opener' = opener /\ Crossed \subseteq slips'
    BY <1>2, <2>2
  <2>3. CASE opener.st = "show" /\ doc' = Opened /\ engine' = engine /\ opener' = NoJob
    BY <1>1, <1>4, <2>1, <2>3
  <2> QED  BY <1>7, <2>2, <2>3 DEF Replaced
<1>8. CASE CloseTakes
  <2>1. /\ closer' = [st |-> "taken", key |-> KeyOf(doc)]
        /\ opener' = opener /\ engine' = engine /\ slips' = slips
    BY <1>8 DEF CloseTakes, ghosts
  <2>2. closer' # NoJob
    <3>1. closer'.st = "taken"
      BY <2>1
    <3> QED  BY <3>1, KindsDiffer
  <2> QED  BY <1>1, <1>3, <2>1, <2>2
<1>9. CASE CloseClipboard
  <2>1. /\ closer # NoJob /\ closer' = [closer EXCEPT !.st = "kept"]
        /\ opener' = opener /\ engine' = engine /\ slips \subseteq slips'
    BY <1>9, KindsDiffer DEF CloseClipboard
  <2>2. closer' # NoJob
    <3>1. closer'.st = "kept"
      BY <1>4, <2>1
    <3> QED  BY <3>1, KindsDiffer
  <2> QED  BY <1>1, <1>3, <2>1, <2>2
<1>10. CASE CloseEngine
  <2>1. /\ engine' = NoDoc /\ opener' = opener /\ doc' = doc
        /\ slips' = slips \cup (IF doc # NoDoc \/ opener.st = "show" THEN {"crossed"} ELSE {})
    BY <1>10 DEF CloseEngine
  <2>2. doc' = NoDoc /\ opener'.st # "show"
    BY <2>1
  <2> QED  BY <2>1, <2>2 DEF Shown
<1>11. CASE OpenShow
  <2>1. /\ opener # NoJob /\ opener' = [opener EXCEPT !.st = "show"] /\ engine' = Shown(Opened)
    BY <1>11, KindsDiffer DEF OpenShow
  <2>2. opener'.st = "show" /\ opener'.sid = opener.sid /\ opener'.rate = opener.rate
    BY <1>4, <2>1
  <2>3. Shown(Opened)' = Shown(Opened)
    BY <2>2 DEF Opened
  <2> QED  BY <2>1, <2>2, <2>3
<1>12. CASE BeginOpen \/ OpenFails
  <2>1. opener.st # "show" /\ opener'.st # "show"
    <3>1. CASE BeginOpen
      BY <1>4, <3>1 DEF BeginOpen
    <3>2. CASE OpenFails
      BY <1>4, <3>2 DEF OpenFails
    <3> QED  BY <1>12, <3>1, <3>2
  <2>2. doc' = doc /\ engine' = engine /\ closer' = closer /\ slips' = slips
    BY <1>12 DEF BeginOpen, OpenFails, ghosts
  <2> QED  BY <1>1, <2>1, <2>2
<1>13. CASE \/ PasteEnds \/ NormEnds \/ Idle \/ EditCopy \/ (\E s \in Sid : CloseSession(s))
            \/ BeginPaste \/ PasteImports \/ RebindClipboard \/ BeginNormalize
            \/ NormalizeWrites \/ TakeWrites \/ TakeGone
  <2>1. doc' = doc /\ engine' = engine /\ opener' = opener /\ closer' = closer /\ slips \subseteq slips'
    BY <1>13 DEF PasteEnds, NormEnds, Idle, EditCopy, CloseSession, BeginPaste, PasteImports,
       RebindClipboard, BeginNormalize, NormalizeWrites, TakeWrites, TakeGone, ghosts
  <2> QED  BY <1>1, <1>3, <2>1
<1> QED  BY <1>5, <1>6, <1>7, <1>8, <1>9, <1>10, <1>11, <1>12, <1>13, KindOfStep

LEMMA NormInvIsKept ==
  ASSUME DocInv, [Next]_vars
  PROVE  NormInv'
<1> SUFFICES ASSUME norm' # NoJob, doc' # NoDoc, doc'.sid = norm'.sid, doc'.rev = norm'.rev
             PROVE  doc'.cur = norm'.read
  BY DEF NormInv
<1>1. norm # NoJob /\ doc # NoDoc /\ doc.sid = norm.sid /\ doc.rev = norm.rev => doc.cur = norm.read
  BY DEF DocInv, NormInv
<1>2. \/ /\ norm # NoJob /\ norm'.sid = norm.sid /\ norm'.rev = norm.rev /\ norm'.read = norm.read
      \/ BeginNormalize /\ doc # NoDoc /\ norm'.rev = doc.rev /\ norm'.read = doc.cur
  BY JobsGoOn
<1>3. CASE BeginNormalize /\ norm'.read = doc.cur
  BY <1>3 DEF BeginNormalize
<1>4. CASE norm # NoJob /\ norm'.sid = norm.sid /\ norm'.rev = norm.rev /\ norm'.read = norm.read
  <2>1. CASE Edited
    <3>1. doc \in Doc /\ doc'.rev = NextRev
      BY <2>1 DEF Edited
    <3>2. NextRev # norm.rev
      BY <1>4, <3>1, NextRevIsNew DEF DocInv, Types
    <3> QED  BY <1>4, <3>1, <3>2
  <2>2. CASE Turned \/ HouseSwitches
    <3>1. doc # NoDoc /\ doc'.sid = doc.sid /\ doc'.rev = doc.rev /\ doc'.cur = doc.cur
      <4>1. CASE Turned
        BY <4>1, KindsDiffer DEF Turned
      <4>2. CASE HouseSwitches
        BY <4>2, SwitchesGoOn, KindsDiffer
      <4> QED  BY <2>2, <4>1, <4>2
    <3> QED  BY <1>1, <1>4, <3>1
  <2>3. CASE Replaced
    <3>1. ~Used(doc'.sid) /\ Used(norm.sid)
      BY <1>4, <2>3, ReplacedIsNew, StateIsTyped
    <3> QED  BY <1>4, <3>1
  <2>4. CASE CloseTakes
    BY <2>4 DEF CloseTakes
  <2>5. CASE ~Edited /\ ~Turned /\ ~Replaced /\ ~HouseSwitches /\ ~CloseTakes
    <3>1. doc' = doc
      BY <2>5, OtherSteps
    <3> QED  BY <1>1, <1>4, <3>1
  <2> QED  BY <2>1, <2>2, <2>3, <2>4, <2>5
<1> QED  BY <1>2, <1>3, <1>4

-----------------------------------------------------------------------------
(* The audio of the pieces and of the clipboard *)

\* Overlaps are remembered.
LEMMA SlipsStay ==
  ASSUME DocInv, [Next]_vars
  PROVE  slips \subseteq slips'
<1> USE KindOfStep
<1> QED  BY DEF Edited, Turned, Replaced, PasteEnds, NormEnds, Idle, EditCopy, BeginOpen,
         OpenFails, OpenShow, CloseTakes, CloseClipboard, CloseEngine, CloseSession, BeginPaste,
         PasteImports, RebindClipboard, BeginNormalize, NormalizeWrites, HouseSwitches,
         TakeWrites, TakeGone, ghosts

Clean == slips \cap {"late", "foreign"} = {}

LEMMA AudioOfState ==
  ASSUME DocInv, Clean
  PROVE  /\ doc # NoDoc => \A p \in Claimed(doc.sid) : Named(p, KeyOf(doc)) /\ p \in Piece
         /\ clip.kind = "bound" =>
              IF doc # NoDoc THEN clip.owner = doc.sid
              ELSE closer.st = "taken" /\ clip.owner = closer.key[1] /\ Named(clip.piece, closer.key)
         /\ clip.kind = "file" => clip.audio = clip.meant
<1>1. doc # NoDoc => \A p \in Claimed(doc.sid) : p \in Piece
  <2> SUFFICES ASSUME doc # NoDoc, NEW p \in Claimed(doc.sid)
               PROVE  p \in Piece
    OBVIOUS
  <2>1. Pieces(doc) \in SUBSET Piece /\ Reachable(clip, doc.sid) \in SUBSET Piece
    BY ClaimsHold, PiecesAreTyped
  <2>2. \A j \in {paste, norm, rec} : j # NoJob => j.piece \in Piece \cup {NoPiece}
    BY StateIsTyped DEF PasteState, NormState, TakeState
  <2>3. \/ p \in Pieces(doc) \/ p \in Reachable(clip, doc.sid)
        \/ \E j \in {paste, norm, rec} : j # NoJob /\ j.piece # NoPiece /\ p = j.piece
    BY DEF Claimed
  <2> HIDE DEF Pieces
  <2> QED  BY <2>1, <2>2, <2>3
<1> QED  BY <1>1 DEF DocInv, AudioInv, Clean

\* The claims of the next state, one claimant at a time.
LEMMA ClaimsNext ==
  ASSUME doc' # NoDoc,
         \A p \in Pieces(doc') : WillBe(p, KeyOf(doc')),
         \A p \in Reachable(clip', doc'.sid) : WillBe(p, KeyOf(doc')),
         paste' # NoJob /\ paste'.sid = doc'.sid /\ paste'.piece # NoPiece =>
           WillBe(paste'.piece, KeyOf(doc')),
         norm' # NoJob /\ norm'.sid = doc'.sid /\ norm'.piece # NoPiece =>
           WillBe(norm'.piece, KeyOf(doc')),
         rec' # NoJob /\ rec'.sid = doc'.sid /\ rec'.piece # NoPiece =>
           WillBe(rec'.piece, KeyOf(doc'))
  PROVE  \A p \in Claimed(doc.sid)' : Named(p, KeyOf(doc))'
<1> SUFFICES ASSUME NEW p \in Claimed(doc.sid)'
             PROVE  WillBe(p, KeyOf(doc'))
  BY DEF WillBe, Named, KeyOf
<1>1. \/ p \in Pieces(doc') \/ p \in Reachable(clip', doc'.sid)
      \/ \E j \in {paste', norm', rec'} : j # NoJob /\ j.sid = doc'.sid /\ j.piece # NoPiece /\ p = j.piece
  BY DEF Claimed
<1> QED  BY <1>1

\* What the document claimed before the step is still named.
LEMMA OldClaims ==
  ASSUME DocInv, [Next]_vars, Clean, doc # NoDoc, ~Replaced, ~CloseTakes
  PROVE  /\ doc' # NoDoc /\ doc'.sid = doc.sid
         /\ \A p \in Claimed(doc.sid) : WillBe(p, KeyOf(doc'))
<1>1. /\ \A p \in Claimed(doc.sid) : Named(p, KeyOf(doc)) /\ p \in Piece
      /\ KeyOf(doc) \in Key /\ stores \in [Key -> Store] /\ stores' \in [Key -> Store]
  BY AudioOfState, StateIsTyped, StoresAreTyped
<1>2. CASE HouseSwitches
  <2>1. /\ doc' \in Doc /\ doc'.sid = doc.sid
        /\ DOMAIN stores'[KeyOf(doc')].data = Copied
        /\ stores'[KeyOf(doc')].next = stores[KeyOf(doc)].next
        /\ Copied \subseteq DOMAIN Data(doc)
        /\ \A n \in Copied : stores'[KeyOf(doc')].data[n] = Data(doc)[n]
    BY <1>2, SwitchesGoOn
  <2>2. \A p \in Claimed(doc.sid) : WillBe(p, KeyOf(doc'))
    <3> SUFFICES ASSUME NEW p \in Claimed(doc.sid)
                 PROVE  WillBe(p, KeyOf(doc'))
      OBVIOUS
    <3>1. Named(p, KeyOf(doc))
      BY <1>1
    <3>2. p.id < stores'[KeyOf(doc')].next
      BY <2>1, <3>1 DEF Named
    <3>3. p.id \in DOMAIN stores'[KeyOf(doc')].data => stores'[KeyOf(doc')].data[p.id] = p.audio
      BY <2>1, <3>1 DEF Named, Data
    <3> QED  BY <3>2, <3>3 DEF WillBe
  <2> QED  BY <2>1, <2>2, KindsDiffer
<1>3. CASE ~HouseSwitches
  <2>1. /\ doc' # NoDoc /\ doc'.sid = doc.sid /\ KeyOf(doc') = KeyOf(doc)
    <3>1. CASE Edited
      BY <3>1, KindsDiffer DEF Edited, KeyOf
    <3>2. CASE Turned
      BY <3>2, KindsDiffer DEF Turned, KeyOf
    <3>3. CASE ~Edited /\ ~Turned
      BY <1>3, <3>3, OtherSteps
    <3> QED  BY <3>1, <3>2, <3>3
  <2>2. Grows(KeyOf(doc))
    BY <1>3, DocumentGrows
  <2>3. \A p \in Claimed(doc.sid) : WillBe(p, KeyOf(doc'))
    BY <1>1, <2>1, <2>2, NamesStay
  <2> QED  BY <2>1, <2>3
<1> QED  BY <1>2, <1>3

\* The chunk a job or a take has just written, if no compaction left its store.
LEMMA WrittenIsNamed ==
  ASSUME DocInv, NEW key \in Key, NEW a \in Audio, CanWrite(key), WriteAs(key, a)
  PROVE  WillBe(NextPiece(key, a), key)
<1>1. /\ stores'[key].next = stores[key].next + 1 /\ stores[key].next \in Nat
      /\ stores'[key].data[stores[key].next] = a
  BY WriteGoesOn, StateIsTyped DEF Store
<1>2. NextPiece(key, a).id = stores[key].next /\ NextPiece(key, a).audio = a
  BY DEF NextPiece
<1>3. stores[key].next < stores[key].next + 1
  BY <1>1
<1> QED  BY <1>1, <1>2, <1>3 DEF WillBe

\* A new document finds no clipboard of its own.
LEMMA ReplacedClip ==
  ASSUME DocInv, [Next]_vars, Replaced, slips' \cap {"late", "foreign"} = {}
  PROVE  /\ clip'.kind # "bound" /\ Reachable(clip', doc'.sid) = {}
         /\ clip'.kind = "file" => clip'.audio = clip'.meant
<1>1. Clean
  BY SlipsStay DEF Clean
<1>2. /\ clip \in {Empty} \cup FileClip \cup BoundClip
      /\ doc # NoDoc => KeyOf(doc) \in Key
      /\ stores \in [Key -> Store]
      /\ doc'.sid \in Sid /\ ~Used(doc'.sid)
  BY ReplacedIsNew, StateIsTyped DEF DocInv, Types
<1>3. clip.kind = "file" => clip.for # doc'.sid
  <2>1. doc'.sid # 0
    BY <1>2, KindsDiffer
  <2> QED  BY <1>2, <2>1 DEF DocInv, UseInv
<1>4. closer.st # "taken"
  BY DEF Replaced, NotKept
<1>5. clip' \in IF doc = NoDoc THEN {clip} ELSE Materialized(clip, KeyOf(doc))
  BY DEF Replaced
<1>6. CASE doc = NoDoc
  <2>1. clip' = clip
    BY <1>5, <1>6
  <2>2. clip.kind # "bound"
    BY <1>1, <1>4, <1>6, AudioOfState
  <2>3. Reachable(clip, doc'.sid) = {}
    BY <1>3, <2>2 DEF Reachable
  <2> QED  BY <1>1, <2>1, <2>2, <2>3, AudioOfState
<1>7. CASE doc # NoDoc
  <2>1. clip' \in Materialized(clip, KeyOf(doc))
    BY <1>5, <1>7
  <2>2. /\ clip'.kind # "bound"
        /\ clip' = clip \/ (\A s \in Sid : Reachable(clip', s) = {})
        /\ clip'.kind = "file" => \/ clip' = clip /\ clip.kind = "file"
                                  \/ /\ clip.kind = "bound" /\ clip'.for = 0 /\ clip'.meant = clip.piece.audio
                                     /\ clip.piece.id \in DOMAIN stores[KeyOf(doc)].data
                                     /\ clip'.audio = stores[KeyOf(doc)].data[clip.piece.id]
    BY <1>2, <1>7, <2>1, MaterializedIsLoose
  <2>3. Reachable(clip', doc'.sid) = {}
    <3>1. CASE clip' = clip
      BY <1>3, <2>2, <3>1 DEF Reachable
    <3> QED  BY <1>2, <2>2, <3>1
  <2>4. clip.kind = "bound" => Named(clip.piece, KeyOf(doc))
    <3>1. clip.kind = "bound" => clip.piece \in Claimed(doc.sid)
      BY <1>7, ClaimsHold DEF Reachable
    <3> QED  BY <1>1, <1>7, <3>1, AudioOfState
  <2>5. clip'.kind = "file" => clip'.audio = clip'.meant
    BY <1>1, <2>2, <2>4, AudioOfState DEF Named
  <2> QED  BY <2>2, <2>3, <2>5
<1> QED  BY <1>6, <1>7

LEMMA AudioInvIsKept ==
  ASSUME DocInv, [Next]_vars
  PROVE  AudioInv'
<1> SUFFICES ASSUME slips' \cap {"late", "foreign"} = {}
             PROVE  /\ doc' # NoDoc => \A p \in Claimed(doc.sid)' : Named(p, KeyOf(doc))'
                    /\ clip'.kind = "bound" =>
                         IF doc' # NoDoc THEN clip'.owner = doc'.sid
                         ELSE /\ closer'.st = "taken" /\ clip'.owner = closer'.key[1]
                              /\ Named(clip.piece, closer.key)'
                    /\ clip'.kind = "file" => clip'.audio = clip'.meant
  BY DEF AudioInv
<1>1. Clean
  BY SlipsStay DEF Clean
<1>2. /\ doc # NoDoc => \A p \in Claimed(doc.sid) : Named(p, KeyOf(doc)) /\ p \in Piece
      /\ clip.kind = "bound" =>
           IF doc # NoDoc THEN clip.owner = doc.sid
           ELSE closer.st = "taken" /\ clip.owner = closer.key[1] /\ Named(clip.piece, closer.key)
      /\ clip.kind = "file" => clip.audio = clip.meant
  BY <1>1, AudioOfState
<1>3. doc # NoDoc =>
        /\ doc \in Doc /\ doc.cur \subseteq Claimed(doc.sid) /\ Pieces(doc) \subseteq Claimed(doc.sid)
        /\ Reachable(clip, doc.sid) \subseteq Claimed(doc.sid)
        /\ \A j \in {paste, norm, rec} :
             j # NoJob /\ j.sid = doc.sid /\ j.piece # NoPiece => j.piece \in Claimed(doc.sid)
        /\ KeyOf(doc) \in Key /\ KeyOf(doc)[1] = doc.sid /\ doc.sid \in Sid
  <2>1. Pieces(doc) \subseteq Claimed(doc.sid) \/ doc = NoDoc
    BY DEF Claimed
  <2> QED  BY <2>1, ClaimsHold, StateIsTyped
<1>4. /\ clip \in {Empty} \cup FileClip \cup BoundClip /\ stores \in [Key -> Store]
      /\ closer # NoJob => closer.key \in Key /\ closer.key[1] # doc.sid
      /\ paste # NoJob => paste \in PasteState /\ paste.key \in Key /\ paste.key[1] = paste.sid
      /\ norm # NoJob => norm \in NormState /\ norm.key \in Key /\ norm.key[1] = norm.sid
      /\ rec # NoJob => rec \in TakeState /\ rec.key \in Key /\ rec.key[1] = rec.sid
  BY StateIsTyped DEF DocInv, Types
<1>5. doc # NoDoc /\ ~Replaced /\ ~CloseTakes =>
        /\ doc' # NoDoc /\ doc'.sid = doc.sid
        /\ \A p \in Claimed(doc.sid) : WillBe(p, KeyOf(doc'))
  BY <1>1, OldClaims
<1>6. doc' # NoDoc /\ ~Replaced => doc # NoDoc /\ ~CloseTakes
  <2>1. doc = NoDoc => ~Edited /\ ~Turned /\ ~HouseSwitches /\ ~CloseTakes
    BY KindsDiffer DEF Edited, Turned, HouseSwitches, CloseTakes
  <2>2. CloseTakes => doc' = NoDoc
    BY DEF CloseTakes
  <2> QED  BY <2>1, <2>2, OtherSteps
<1>7. RebindClipboard => doc # NoDoc /\ doc.sid = paste.sid
  BY DEF RebindClipboard
<1>8. NoPiece \notin Piece
  BY KindsDiffer
<1>9. ASSUME doc' # NoDoc
      PROVE  \A p \in Claimed(doc.sid)' : Named(p, KeyOf(doc))'
  <2>1. CASE Replaced
    <3>1. /\ doc' \in Doc /\ doc'.sid \in Sid /\ ~Used(doc'.sid)
      BY <2>1, ReplacedIsNew
    <3>2. \A p \in Pieces(doc') : WillBe(p, KeyOf(doc'))
      <4>1. Pieces(doc') = doc'.cur
        BY <2>1 DEF Replaced
      <4>2. CASE doc'.cur = {}
        BY <4>1, <4>2
      <4>3. CASE opener.st = "show" /\ doc' = Opened
        <5> DEFINE k == <<opener.sid, 0>>
        <5>1. opener # NoJob
          BY <4>3, KindsDiffer
        <5>2. /\ 1 \in DOMAIN stores[k].data /\ stores[k].data[1] = <<k, 1>> /\ k \in Key
              /\ 1 < stores[k].next
          BY <5>1, StateIsTyped DEF DocInv, OpenInv, IdInv
        <5>3. /\ doc'.sid = opener.sid /\ doc'.gen = 0
              /\ doc'.cur = {[id |-> 1, audio |-> <<k, 1>>]}
          BY <4>3 DEF Opened, NewDoc
        <5>4. KeyOf(doc') = k
          BY <5>3 DEF KeyOf
        <5>5. stores'[k] = stores[k]
          <6>1. opener.sid # doc.sid
            BY <2>1, <5>3, ReplacedIsNew
          <6>2. stores' = WithoutSession(doc.sid)
            BY <2>1 DEF Replaced
          <6>3. k[1] # doc.sid
            BY <6>1
          <6> QED  BY <5>2, <6>2, <6>3, ReleasedStores, StateIsTyped
        <5> HIDE DEF k
        <5> QED  BY <4>1, <5>2, <5>3, <5>4, <5>5 DEF WillBe
      <4> QED  BY <2>1, <4>2, <4>3 DEF Replaced
    <3>3. Reachable(clip', doc'.sid) = {}
      BY <2>1, ReplacedClip
    <3>4. paste' = paste /\ norm' = norm
      BY <2>1 DEF Replaced
    <3>5. /\ paste # NoJob => paste.sid # doc'.sid
          /\ norm # NoJob => norm.sid # doc'.sid
          /\ rec # NoJob => rec.sid # doc'.sid
      BY <3>1, StateIsTyped
    <3>6. rec' # NoJob => rec' = rec \/ rec'.piece = NoPiece
      <4>1. rec' # NoJob => rec' = rec \/ rec' = Take(KeyOf(doc'), "new")
        BY <2>1 DEF Replaced
      <4> QED  BY <4>1 DEF Take
    <3> QED  BY <1>9, <3>2, <3>3, <3>4, <3>5, <3>6, ClaimsNext
  <2>2. CASE ~Replaced
    <3>1. /\ doc # NoDoc /\ doc'.sid = doc.sid
          /\ \A p \in Claimed(doc.sid) : WillBe(p, KeyOf(doc'))
      BY <1>5, <1>6, <1>9, <2>2
    <3>2. Pieces(doc') \subseteq Claimed(doc.sid)
      <4>1. CASE Edited
        BY <4>1 DEF Edited
      <4>2. CASE Turned
        BY <1>3, <3>1, <4>2 DEF Turned
      <4>3. CASE HouseSwitches
        BY <1>3, <3>1, <4>3, SwitchesGoOn
      <4>4. CASE ~Edited /\ ~Turned /\ ~HouseSwitches
        BY <1>3, <1>6, <1>9, <2>2, <3>1, <4>4, OtherSteps
      <4> QED  BY <4>1, <4>2, <4>3, <4>4
    <3>3. Reachable(clip', doc'.sid) \subseteq Claimed(doc.sid)
      <4>1. CASE clip' = clip
        BY <1>3, <3>1, <4>1
      <4>2. CASE \E p \in doc.cur : clip' = Bound(p, doc)
        <5>1. PICK p \in doc.cur : clip' = Bound(p, doc)
          BY <4>2
        <5>2. Reachable(clip', doc'.sid) = {p}
          BY <5>1 DEF Bound, Reachable
        <5> QED  BY <1>3, <3>1, <5>1, <5>2
      <4>3. CASE closer # NoJob /\ clip' \in Materialized(clip, closer.key)
        <5>1. clip' = clip \/ \A s \in Sid : Reachable(clip', s) = {}
          BY <1>4, <4>3, MaterializedIsLoose
        <5> QED  BY <1>3, <3>1, <4>1, <5>1
      <4>4. CASE RebindClipboard /\ paste # NoJob /\ paste.st = "rebind"
        <5>1. paste.piece \in Piece
          BY <4>4 DEF DocInv, PasteInv
        <5>2. paste.piece \in Claimed(doc.sid)
          BY <1>3, <1>7, <1>8, <4>4, <5>1
        <5>3. clip.kind = "file" => clip \in FileClip
          BY <1>4 DEF Empty, BoundClip
        <5>4. clip' = clip \/ clip'.piece = paste.piece
          <6>1. CASE clip' = [kind |-> "bound", piece |-> paste.piece, rate |-> paste.rate,
                              owner |-> paste.sid]
            BY <6>1
          <6>2. CASE clip.kind = "file" /\ clip' = [clip EXCEPT !.for = paste.sid, !.piece = paste.piece]
            BY <5>3, <6>2 DEF FileClip
          <6> QED  BY <4>4, <6>1, <6>2 DEF RebindClipboard
        <5>5. Reachable(clip', doc'.sid) \subseteq {clip'.piece}
          BY DEF Reachable
        <5> QED  BY <4>1, <5>2, <5>4, <5>5
      <4> QED  BY <2>2, <4>1, <4>2, <4>3, <4>4, ClipGoesOn
    <3>4. ASSUME NEW key \in Key, NEW a \in Audio, CanWrite(key), WriteAs(key, a),
                 key[1] = doc.sid => key = KeyOf(doc), doc' = doc
          PROVE  key[1] = doc'.sid => WillBe(NextPiece(key, a), KeyOf(doc'))
      BY <3>4, WrittenIsNamed
    <3>5. \A key : Late(key) \subseteq slips' /\ key[1] = doc.sid => key = KeyOf(doc)
      BY <3>1 DEF Late
    <3>6. \A key \in Key : CanWrite(key) => Fresh(key) \in Audio
      <4> SUFFICES ASSUME NEW key \in Key, CanWrite(key)
                   PROVE  Fresh(key) \in Audio
        OBVIOUS
      <4>1. stores[key].next \in Nat \ {0} /\ stores[key].next <= MaxChunk /\ MaxChunk \in Nat
        BY <1>4, BoundsAreNat DEF Store, CanWrite
      <4>2. stores[key].next \in 1..MaxChunk
        BY <4>1
      <4> QED  BY <4>2 DEF Fresh, Audio
    <3>7. paste' # NoJob /\ paste'.sid = doc'.sid /\ paste'.piece # NoPiece =>
            WillBe(paste'.piece, KeyOf(doc'))
      <4>1. CASE PasteImports
        <5>1. /\ paste # NoJob /\ CanWrite(paste.key) /\ WriteAs(paste.key, paste.clip.audio)
              /\ paste' = [paste EXCEPT !.st = "written", !.piece = NextPiece(paste.key, paste.clip.audio)]
              /\ Late(paste.key) \subseteq slips' /\ doc' = doc
          BY <4>1, KindsDiffer DEF PasteImports
        <5>2. paste.clip.audio \in Audio /\ paste.key \in Key /\ paste.key[1] = paste.sid
          BY <1>4, <5>1 DEF PasteState, FileClip
        <5>3. paste'.sid = paste.sid /\ paste'.piece = NextPiece(paste.key, paste.clip.audio)
          BY <1>4, <5>1 DEF PasteState
        <5> QED  BY <3>4, <3>5, <5>1, <5>2, <5>3
      <4>2. CASE ~PasteImports
        <5>1. paste' # NoJob /\ paste'.piece # NoPiece =>
                paste # NoJob /\ paste'.sid = paste.sid /\ paste'.piece = paste.piece
          <6>1. CASE BeginPaste
            <7>1. paste' = [st |-> "run", sid |-> doc.sid, key |-> KeyOf(doc), rate |-> doc.rate,
                            clip |-> clip, piece |-> NoPiece]
              BY <6>1 DEF BeginPaste
            <7> QED  BY <7>1
          <6>2. CASE paste' = paste \/ paste' = NoJob
            BY <6>2
          <6>3. CASE Edited
            <7>1. CASE paste.st = "written" /\ paste' = [paste EXCEPT !.st = "rebind"]
              <8>1. paste # NoJob
                BY <7>1, KindsDiffer
              <8> QED  BY <1>4, <7>1, <8>1 DEF PasteState
            <7> QED  BY <6>2, <6>3, <7>1 DEF Edited
          <6>4. CASE ~BeginPaste /\ ~Edited
            <7>1. paste' = paste \/ paste' = NoJob
              BY <4>2, <6>4, KindOfStep DEF Turned, Replaced, PasteEnds, NormEnds, Idle, EditCopy,
                 BeginOpen, OpenFails, OpenShow, CloseTakes, CloseClipboard, CloseEngine,
                 CloseSession, RebindClipboard, BeginNormalize, NormalizeWrites, HouseSwitches,
                 TakeWrites, TakeGone, jobs
            <7> QED  BY <6>2, <7>1
          <6> QED  BY <6>1, <6>3, <6>4
        <5> QED  BY <1>3, <3>1, <5>1
      <4> QED  BY <4>1, <4>2
    <3>8. norm' # NoJob /\ norm'.sid = doc'.sid /\ norm'.piece # NoPiece =>
            WillBe(norm'.piece, KeyOf(doc'))
      <4>1. CASE NormalizeWrites
        <5>1. /\ norm # NoJob /\ CanWrite(norm.key) /\ WriteAs(norm.key, Fresh(norm.key))
              /\ norm' = [norm EXCEPT !.st = "written", !.piece = NextPiece(norm.key, Fresh(norm.key))]
              /\ Late(norm.key) \subseteq slips' /\ doc' = doc
          BY <4>1, KindsDiffer DEF NormalizeWrites
        <5>2. norm.key \in Key /\ norm.key[1] = norm.sid /\ Fresh(norm.key) \in Audio
          BY <1>4, <3>6, <5>1
        <5>3. norm'.sid = norm.sid /\ norm'.piece = NextPiece(norm.key, Fresh(norm.key))
          BY <1>4, <5>1 DEF NormState
        <5> QED  BY <3>4, <3>5, <5>1, <5>2, <5>3
      <4>2. CASE BeginNormalize
        <5>1. norm' # NoJob => norm'.piece = NoPiece
          <6>1. PICK p \in doc.cur :
                  norm' = [st |-> "run", sid |-> doc.sid, key |-> KeyOf(doc), rev |-> doc.rev,
                           read |-> doc.cur, range |-> p, piece |-> NoPiece]
            BY <4>2 DEF BeginNormalize
          <6> QED  BY <6>1
        <5> QED  BY <5>1
      <4>3. CASE ~NormalizeWrites /\ ~BeginNormalize
        <5>1. norm' = norm \/ norm' = NoJob
          BY <4>3, KindOfStep DEF Edited, Turned, Replaced, PasteEnds, NormEnds, Idle, EditCopy,
             BeginOpen, OpenFails, OpenShow, CloseTakes, CloseClipboard, CloseEngine,
             CloseSession, BeginPaste, PasteImports, RebindClipboard, HouseSwitches,
             TakeWrites, TakeGone, jobs
        <5> QED  BY <1>3, <3>1, <5>1
      <4> QED  BY <4>1, <4>2, <4>3
    <3>9. rec' # NoJob /\ rec'.sid = doc'.sid /\ rec'.piece # NoPiece =>
            WillBe(rec'.piece, KeyOf(doc'))
      <4>1. CASE TakeWrites
        <5>1. /\ rec # NoJob /\ CanWrite(rec.key) /\ WriteAs(rec.key, Fresh(rec.key))
              /\ rec' = [rec EXCEPT !.piece = NextPiece(rec.key, Fresh(rec.key))] /\ doc' = doc
          BY <4>1, KindsDiffer DEF TakeWrites
        <5>2. rec.key \in Key /\ rec.key[1] = rec.sid /\ Fresh(rec.key) \in Audio
          BY <1>4, <3>6, <5>1
        <5>3. rec'.sid = rec.sid /\ rec'.piece = NextPiece(rec.key, Fresh(rec.key))
          BY <1>4, <5>1 DEF TakeState
        <5>4. rec.sid = doc.sid => rec.key = KeyOf(doc)
          <6>1. fate[doc.sid] = "open"
            BY <3>1, StateIsTyped
          <6> QED  BY <3>1, <5>1, <6>1 DEF DocInv, TakeInv
        <5> QED  BY <3>4, <5>1, <5>2, <5>3, <5>4
      <4>2. CASE ~TakeWrites
        <5>1. rec' # NoJob => rec' = rec \/ rec'.piece = NoPiece
          <6>1. CASE Edited
            BY <6>1 DEF Edited
          <6>2. CASE Turned
            BY <6>2 DEF Turned, Take
          <6>3. CASE ~Edited /\ ~Turned
            BY <2>2, <4>2, <6>3, KindOfStep DEF PasteEnds, NormEnds, Idle, EditCopy,
               BeginOpen, OpenFails, OpenShow, CloseTakes, CloseClipboard, CloseEngine,
               CloseSession, BeginPaste, PasteImports, RebindClipboard, BeginNormalize,
               NormalizeWrites, HouseSwitches, TakeGone
          <6> QED  BY <6>1, <6>2, <6>3
        <5> QED  BY <1>3, <3>1, <5>1
      <4> QED  BY <4>1, <4>2
    <3>10. \A p \in Pieces(doc') \cup Reachable(clip', doc'.sid) : WillBe(p, KeyOf(doc'))
      BY <3>1, <3>2, <3>3
    <3> HIDE DEF Pieces, Reachable
    <3> QED  BY <1>9, <3>7, <3>8, <3>9, <3>10, ClaimsNext
  <2> QED  BY <2>1, <2>2
<1>10. clip'.kind = "bound" =>
         IF doc' # NoDoc THEN clip'.owner = doc'.sid
         ELSE /\ closer'.st = "taken" /\ clip'.owner = closer'.key[1]
              /\ Named(clip.piece, closer.key)'
  <2> SUFFICES ASSUME clip'.kind = "bound"
               PROVE  IF doc' # NoDoc THEN clip'.owner = doc'.sid
                      ELSE /\ closer'.st = "taken" /\ clip'.owner = closer'.key[1]
                           /\ WillBe(clip'.piece, closer'.key)
    BY DEF WillBe, Named
  <2>1. ~Replaced
    BY ReplacedClip
  <2>2. ~CloseClipboard \/ clip' = clip
    <3>1. CloseClipboard => closer # NoJob /\ clip' \in Materialized(clip, closer.key)
      BY KindsDiffer DEF CloseClipboard
    <3>2. CloseClipboard => clip'.kind # "bound"
      BY <1>4, <3>1, MaterializedIsLoose
    <3> QED  BY <3>2
  <2>3. CASE doc # NoDoc /\ \E p \in doc.cur : clip' = Bound(p, doc)
    <3>1. clip'.owner = doc.sid
      BY <2>3 DEF Bound
    <3>2. ~CloseTakes \/ clip' = clip
      BY DEF CloseTakes
    <3>3. CASE ~CloseTakes
      BY <1>5, <2>1, <2>3, <3>1, <3>3
    <3>4. CASE CloseTakes
      <4>1. /\ clip' = clip /\ stores' = stores /\ doc' = NoDoc
            /\ closer' = [st |-> "taken", key |-> KeyOf(doc)]
        BY <3>4 DEF CloseTakes
      <4>2. clip.piece \in Claimed(doc.sid)
        BY <1>3, <2>3, <4>1 DEF Reachable
      <4>3. Named(clip.piece, KeyOf(doc))
        BY <1>2, <2>3, <4>2
      <4>4. closer'.st = "taken" /\ closer'.key = KeyOf(doc)
        BY <4>1
      <4> QED  BY <1>3, <2>3, <3>1, <4>1, <4>3, <4>4 DEF WillBe, Named
    <3> QED  BY <3>3, <3>4
  <2>4. CASE RebindClipboard /\ paste # NoJob
             /\ clip' = [kind |-> "bound", piece |-> paste.piece, rate |-> paste.rate,
                         owner |-> paste.sid]
    <3>1. doc' = doc /\ clip'.owner = paste.sid
      BY <2>4 DEF RebindClipboard
    <3> QED  BY <1>7, <2>4, <3>1
  <2>5. CASE clip' = clip
    <3>1. CASE doc # NoDoc /\ ~CloseTakes
      BY <1>2, <1>5, <2>1, <2>5, <3>1
    <3>2. CASE doc # NoDoc /\ CloseTakes
      <4>1. /\ stores' = stores /\ doc' = NoDoc
            /\ closer' = [st |-> "taken", key |-> KeyOf(doc)]
        BY <3>2 DEF CloseTakes
      <4>2. clip.piece \in Claimed(doc.sid) /\ clip.owner = doc.sid
        BY <1>2, <1>3, <2>5, <3>2 DEF Reachable
      <4>3. Named(clip.piece, KeyOf(doc))
        BY <1>2, <3>2, <4>2
      <4>4. closer'.st = "taken" /\ closer'.key = KeyOf(doc)
        BY <4>1
      <4> QED  BY <1>3, <2>5, <3>2, <4>1, <4>2, <4>3, <4>4 DEF WillBe, Named
    <3>3. CASE doc = NoDoc
      <4>1. /\ closer.st = "taken" /\ clip.owner = closer.key[1] /\ Named(clip.piece, closer.key)
            /\ closer # NoJob /\ closer.key \in Key
        BY <1>2, <1>4, <2>5, <3>3, KindsDiffer
      <4>2. doc' = NoDoc
        BY <1>6, <2>1, <3>3
      <4>3. ~CloseClipboard
        <5>1. CloseClipboard => clip' \in Materialized(clip, closer.key)
          BY DEF CloseClipboard
        <5> QED  BY <1>4, <4>1, <5>1, MaterializedIsLoose
      <4>4. ~Edited /\ ~Turned /\ ~HouseSwitches /\ ~CloseTakes /\ ~CloseEngine
        BY <3>3, <4>1, KindsDiffer DEF Edited, Turned, HouseSwitches, CloseTakes, CloseEngine
      <4>5. closer' = closer
        BY <2>1, <4>3, <4>4, KindOfStep DEF PasteEnds, NormEnds, Idle, EditCopy,
           BeginOpen, OpenFails, OpenShow, CloseSession, BeginPaste, PasteImports,
           RebindClipboard, BeginNormalize, NormalizeWrites, TakeWrites, TakeGone
      <4>6. OpenFails => closer.key # <<opener.sid, 0>>
        <5>1. OpenFails => opener # NoJob
          BY KindsDiffer DEF OpenFails
        <5>2. opener # NoJob => opener.sid # closer.key[1]
          BY <4>1, StateIsTyped
        <5> QED  BY <5>1, <5>2
      <4>7. Grows(closer.key)
        BY <2>1, <4>1, <4>3, <4>4, <4>6, StoresGrow DEF Leaves
      <4>8. clip.piece \in Piece
        <5>1. clip \in BoundClip
          BY <1>4, <2>5 DEF Empty, FileClip
        <5> QED  BY <5>1 DEF BoundClip
      <4>9. WillBe(clip.piece, closer.key)
        BY <1>4, <4>1, <4>7, <4>8, NamesStay, StoresAreTyped
      <4> QED  BY <2>5, <4>1, <4>2, <4>5, <4>9
    <3> QED  BY <3>1, <3>2, <3>3
  <2>6. CASE clip \in FileClip /\ clip' = [clip EXCEPT !.for = paste.sid, !.piece = paste.piece]
    BY <2>6 DEF FileClip
  <2> QED  BY <2>1, <2>2, <2>3, <2>4, <2>5, <2>6, ClipGoesOn
<1>11. clip'.kind = "file" => clip'.audio = clip'.meant
  <2>1. CASE clip' = clip
    BY <1>2, <2>1
  <2>2. CASE \E p \in doc.cur : clip' = Bound(p, doc)
    BY <2>2 DEF Bound
  <2>3. CASE Replaced
    BY <2>3, ReplacedClip
  <2>4. CASE closer # NoJob /\ CloseClipboard /\ clip' \in Materialized(clip, closer.key)
    <3>1. clip'.kind = "file" => \/ clip' = clip
                                 \/ /\ clip.kind = "bound" /\ clip'.meant = clip.piece.audio
                                    /\ clip.piece.id \in DOMAIN stores[closer.key].data
                                    /\ clip'.audio = stores[closer.key].data[clip.piece.id]
      BY <1>4, <2>4, MaterializedIsLoose
    <3>2. clip.kind = "bound" => clip.owner = closer.key[1]
      BY <2>4 DEF CloseClipboard
    <3>3. clip.kind = "bound" => Named(clip.piece, closer.key)
      BY <1>2, <1>4, <2>4, <3>2
    <3> QED  BY <1>2, <3>1, <3>3 DEF Named
  <2>5. CASE clip' = [kind |-> "bound", piece |-> paste.piece, rate |-> paste.rate,
                      owner |-> paste.sid]
    BY <2>5
  <2>6. CASE clip \in FileClip /\ clip' = [clip EXCEPT !.for = paste.sid, !.piece = paste.piece]
    <3>1. clip.kind = "file" /\ clip'.audio = clip.audio /\ clip'.meant = clip.meant
      BY <2>6 DEF FileClip
    <3> QED  BY <1>2, <3>1
  <2> QED  BY <2>1, <2>2, <2>3, <2>4, <2>5, <2>6, ClipGoesOn
<1> QED  BY <1>9, <1>10, <1>11

\* What the clipboard names stays where it is, unless a compaction or the end of
\* a paste job overtakes it.
LEMMA ClipInvIsKept ==
  ASSUME DocInv, [Next]_vars
  PROVE  ClipInv'
<1> SUFFICES ASSUME slips' \cap {"late", "foreign", "scan"} = {}, doc' # NoDoc
             PROVE  Ids(Reachable(clip', doc'.sid)) \subseteq DOMAIN Data(doc)'
  BY DEF ClipInv
<1>1. slips \cap {"late", "foreign", "scan"} = {}
  BY SlipsStay
<1>2. doc # NoDoc =>
        /\ Ids(Reachable(clip, doc.sid)) \subseteq DOMAIN Data(doc)
        /\ doc \in Doc /\ doc.sid \in Sid /\ KeyOf(doc) \in Key
        /\ Ids(doc.cur) \subseteq DOMAIN Data(doc)
  <2>1. ASSUME doc # NoDoc
        PROVE  Ids(doc.cur) \subseteq DOMAIN Data(doc)
    <3>1. Ids(Pieces(doc)) \subseteq DOMAIN Data(doc) /\ doc.cur \subseteq Pieces(doc)
      BY <2>1, ClaimsHold DEF DocInv, HistInv
    <3> QED  BY <3>1 DEF Ids
  <2> QED  BY <1>1, <2>1, StateIsTyped DEF DocInv, ClipInv
<1>3. CASE Replaced
  <2>1. Reachable(clip', doc'.sid) = {}
    BY <1>3, ReplacedClip
  <2> QED  BY <2>1 DEF Ids
<1>4. CASE HouseSwitches
  <2>1. clip' = clip /\ Reachable(clip, doc.sid) \subseteq house.clip
    BY <1>4 DEF HouseSwitches
  <2>2. /\ doc'.sid = doc.sid /\ DOMAIN stores'[KeyOf(doc')].data = Copied
        /\ Ids(Pieces(doc) \cup house.clip) \subseteq Copied
    BY <1>4, SwitchesGoOn
  <2>3. Ids(Reachable(clip, doc.sid)) \subseteq Copied
    BY <2>1, <2>2 DEF Ids
  <2>4. DOMAIN Data(doc)' = Copied
    BY <2>2 DEF Data, KeyOf
  <2> QED  BY <2>1, <2>2, <2>3, <2>4
<1>5. CASE CloseTakes
  BY <1>5 DEF CloseTakes
<1>6. CASE ~Replaced /\ ~HouseSwitches /\ ~CloseTakes
  <2>1. doc # NoDoc /\ doc'.sid = doc.sid /\ KeyOf(doc') = KeyOf(doc)
    <3>1. CASE Edited
      BY <3>1, KindsDiffer DEF Edited, KeyOf
    <3>2. CASE Turned
      BY <3>2, KindsDiffer DEF Turned, KeyOf
    <3>3. CASE ~Edited /\ ~Turned
      BY <1>6, <3>3, OtherSteps
    <3> QED  BY <3>1, <3>2, <3>3
  <2>2. DOMAIN Data(doc) \subseteq DOMAIN Data(doc)'
    <3>1. Grows(KeyOf(doc))
      BY <1>6, <2>1, DocumentGrows
    <3>2. Data(doc)' = stores'[KeyOf(doc)].data
      BY <2>1 DEF Data, KeyOf
    <3> QED  BY <3>1, <3>2 DEF Grows, Data
  <2>3. Ids(Reachable(clip', doc.sid)) \subseteq DOMAIN Data(doc)
    <3>1. CASE clip' = clip
      BY <1>2, <2>1, <3>1
    <3>2. CASE \E p \in doc.cur : clip' = Bound(p, doc)
      <4>1. PICK p \in doc.cur : clip' = Bound(p, doc)
        BY <3>2
      <4>2. Reachable(clip', doc.sid) = {p}
        BY <4>1 DEF Reachable, Bound
      <4>3. Ids(Reachable(clip', doc.sid)) \subseteq Ids(doc.cur)
        BY <4>2 DEF Ids
      <4> QED  BY <1>2, <2>1, <4>3
    <3>3. CASE closer # NoJob /\ clip' \in Materialized(clip, closer.key)
      <4>1. clip \in {Empty} \cup FileClip \cup BoundClip /\ closer.key \in Key /\ stores \in [Key -> Store]
        BY <3>3, StateIsTyped DEF DocInv, Types
      <4>2. clip' = clip \/ \A s \in Sid : Reachable(clip', s) = {}
        BY <3>3, <4>1, MaterializedIsLoose
      <4>3. CASE Reachable(clip', doc.sid) = {}
        BY <4>3 DEF Ids
      <4> QED  BY <1>2, <2>1, <3>1, <4>2, <4>3
    <3>4. CASE /\ RebindClipboard /\ paste # NoJob /\ paste.st = "rebind"
               /\ \/ clip' = [kind |-> "bound", piece |-> paste.piece, rate |-> paste.rate,
                              owner |-> paste.sid]
                  \/ clip \in FileClip
                     /\ clip' = [clip EXCEPT !.for = paste.sid, !.piece = paste.piece]
      <4>1. KeyOf(doc) = paste.key
        BY <2>1, <3>4 DEF RebindClipboard
      <4>2. paste.piece.id \in DOMAIN Data(doc)
        BY <2>1, <3>4, <4>1 DEF DocInv, PasteInv
      <4>3. Reachable(clip', doc.sid) \subseteq {paste.piece}
        <5>1. CASE clip' = [kind |-> "bound", piece |-> paste.piece, rate |-> paste.rate,
                            owner |-> paste.sid]
          BY <5>1 DEF Reachable
        <5>2. CASE clip \in FileClip /\ clip' = [clip EXCEPT !.for = paste.sid, !.piece = paste.piece]
          <6>1. clip'.kind = "file" /\ clip'.piece = paste.piece
            BY <5>2 DEF FileClip
          <6> QED  BY <6>1 DEF Reachable
        <5> QED  BY <3>4, <5>1, <5>2
      <4> QED  BY <4>2, <4>3 DEF Ids
    <3> QED  BY <1>6, <3>1, <3>2, <3>3, <3>4, ClipGoesOn
  <2> QED  BY <2>1, <2>2, <2>3
<1> QED  BY <1>3, <1>4, <1>5, <1>6

-----------------------------------------------------------------------------
(* The invariant holds *)

LEMMA DocInvAtStart ==
  ASSUME Init
  PROVE  DocInv
<1>1. /\ doc = NoDoc /\ clip = Empty /\ engine = NoDoc
      /\ paste = NoJob /\ norm = NoJob /\ house = NoJob
      /\ opener = NoJob /\ closer = NoJob /\ rec = NoJob
      /\ owed = {} /\ givenUp = {} /\ slips = {} /\ fate = [s \in Sid |-> "unused"]
      /\ stores = [k \in Key |-> NoStore]
  BY DEF Init
<1>2. NoJob.st = "none" /\ Empty.kind = "none"
  BY DEF NoJob, Empty
<1>3. stores \in [Key -> Store] /\ \A k \in Key : stores[k] = NoStore
  BY <1>1, NoStoreIsAStore
<1>4. Types
  BY <1>1, <1>3 DEF Types
<1>5. FateInv
  <2>1. \A s \in Sid : <<s, 0>> \in Key
    <3>1. MaxGen \in Nat
      BY BoundsAreNat
    <3> QED  BY <3>1 DEF Key
  <2> QED  BY <1>1, <1>3, <2>1 DEF FateInv
<1>6. IdInv
  BY <1>3, NoStoreIsAStore DEF IdInv
<1>7. OpenInv /\ TakeInv /\ HistInv /\ NormInv
  BY <1>1 DEF OpenInv, TakeInv, HistInv, NormInv
<1>8. UseInv /\ PasteInv
  BY <1>1, <1>2 DEF UseInv, PasteInv
<1>9. AudioInv /\ ClipInv
  BY <1>1, <1>2 DEF AudioInv, ClipInv
<1>10. EngineInv /\ HouseInv
  BY <1>1, <1>2 DEF EngineInv, HouseInv, Shown
<1> QED  BY <1>4, <1>5, <1>6, <1>7, <1>8, <1>9, <1>10 DEF DocInv

LEMMA DocInvIsKept ==
  ASSUME DocInv, [Next]_vars
  PROVE  DocInv'
<1>1. Types' /\ FateInv' /\ OpenInv' /\ TakeInv' /\ UseInv' /\ PasteInv' /\ HistInv'
  BY TypesAreKept, FateInvIsKept, OpenInvIsKept, TakeInvIsKept, UseInvIsKept, PasteInvIsKept,
     HistInvIsKept
<1>2. IdInv' /\ AudioInv' /\ ClipInv' /\ EngineInv' /\ NormInv'
  BY StoresAreTyped, AudioInvIsKept, ClipInvIsKept, EngineInvIsKept, NormInvIsKept
<1>3. HouseInv'
  BY HouseIsBounded DEF DocInv
<1> QED  BY <1>1, <1>2, <1>3 DEF DocInv

\* The state of the document service stays within its types, and what its threads
\* know of each other's sessions, stores and revisions stays true.
THEOREM DocInvHolds == Spec => []DocInv
<1>1. Init => DocInv
  BY DocInvAtStart
<1>2. DocInv /\ [Next]_vars => DocInv'
  BY DocInvIsKept
<1> QED  BY <1>1, <1>2, PTL DEF Spec

-----------------------------------------------------------------------------
(* What the document service promises *)

\* Every piece of the document and of its undo and redo steps names a chunk that
\* its store has (live_chunk_ids and begin_compact keep what any step names),
\* whatever jobs, commands, takes and closes ran during a compaction.
THEOREM DocHistoryResolves == Spec => []HistoryResolves
<1>1. DocInv => HistoryResolves
  BY DEF DocInv, HistInv, HistoryResolves
<1> QED  BY <1>1, DocInvHolds, PTL

\* commit_take leaves a document it cannot commit to for recovery, or with its
\* take open if no other can be made, and no close deletes a session that still
\* has the audio of such a take, of one that was overtaken, or of a record
\* operation whose take could be neither committed nor closed.  What is in a
\* session whose operation's take was closed unsaved is in givenUp, not in owed.
THEOREM DocUncommittedTakesSurvive == Spec => []UncommittedTakesSurvive
<1>1. ASSUME DocInv, NEW s \in owed
      PROVE  fate[s] # "deleted"
  <2>1. fate[s] = "left" \/ (doc # NoDoc /\ doc.sid = s)
    BY <1>1 DEF DocInv, TakeInv
  <2>2. doc # NoDoc => fate[doc.sid] = "open"
    BY <1>1 DEF DocInv, FateInv
  <2> QED  BY <2>1, <2>2
<1>2. DocInv => UncommittedTakesSurvive
  BY <1>1 DEF UncommittedTakesSurvive
<1> QED  BY <1>2, DocInvHolds, PTL

\* Every piece of every undo step plays the audio it was made for after any
\* number of compactions, unless a job wrote to a store that a compaction had
\* left or the clipboard was bound to a session that is not open.
THEOREM DocOnlySlipsLoseAudio == Spec => []OnlySlipsLoseAudio
<1>1. ASSUME DocInv
      PROVE  OnlySlipsLoseAudio
  <2> SUFFICES ASSUME slips \cap {"late", "foreign"} = {}, doc # NoDoc, NEW p \in Pieces(doc)
               PROVE  p.id \in DOMAIN Data(doc) /\ Data(doc)[p.id] = p.audio
    BY DEF OnlySlipsLoseAudio, PiecesKeepTheirAudio, Sounds
  <2>1. p.id \in DOMAIN Data(doc)
    <3>1. Ids(Pieces(doc)) \subseteq DOMAIN Data(doc)
      BY <1>1 DEF DocInv, HistInv
    <3> QED  BY <3>1 DEF Ids
  <2>2. Pieces(doc) \subseteq Claimed(doc.sid)
    BY DEF Claimed
  <2>3. Named(p, KeyOf(doc))
    BY <1>1, <2>2 DEF DocInv, AudioInv
  <2> QED  BY <2>1, <2>3 DEF Named, Data
<1> QED  BY <1>1, DocInvHolds, PTL

\* What was copied is what a paste gives, from the open store or from the file
\* materialize_clipboard made of a closed one, unless the clipboard changed under
\* a compaction or at the end of a paste job.
THEOREM DocCopiedAudioSurvives == Spec => []CopiedAudioSurvives
<1>1. ASSUME DocInv
      PROVE  CopiedAudioSurvives
  <2> SUFFICES ASSUME slips \cap {"late", "foreign", "scan"} = {}
               PROVE  /\ doc # NoDoc => Sounds(Reachable(clip, doc.sid))
                      /\ clip.kind = "file" => clip.audio = clip.meant
    BY DEF CopiedAudioSurvives
  <2>1. clip.kind = "file" => clip.audio = clip.meant
    BY <1>1 DEF DocInv, AudioInv
  <2>2. ASSUME doc # NoDoc, NEW p \in Reachable(clip, doc.sid)
        PROVE  p.id \in DOMAIN Data(doc) /\ Data(doc)[p.id] = p.audio
    <3>1. p.id \in DOMAIN Data(doc)
      BY <1>1, <2>2 DEF DocInv, ClipInv, Ids
    <3>2. Reachable(clip, doc.sid) \subseteq Claimed(doc.sid)
      BY <1>1, <2>2, ClaimsHold
    <3>3. Named(p, KeyOf(doc))
      BY <1>1, <2>2, <3>2 DEF DocInv, AudioInv
    <3> QED  BY <3>1, <3>3 DEF Named, Data
  <2> QED  BY <2>1, <2>2 DEF Sounds
<1> QED  BY <1>1, DocInvHolds, PTL

\* The engine plays the revision the document has, once no thread is between
\* telling the engine and replacing the document, unless two of them crossed.
THEOREM DocEngineFollowsDocument == Spec => []EngineFollowsDocument
<1>1. DocInv => EngineFollowsDocument
  BY DEF DocInv, EngineInv, EngineFollowsDocument
<1> QED  BY <1>1, DocInvHolds, PTL

\* A normalize commits over the snapshot it read or not at all: the step it adds
\* takes one undo to give back what the job read.
THEOREM DocNormalizeLosesNothing == Spec => NormalizeLosesNothing
<1> DEFINE Rewrites ==
      norm.st = "written" /\ norm' = NoJob /\ doc' # doc =>
        /\ doc'.cur = (norm.read \ {norm.range}) \cup {norm.piece}
        /\ Last(doc'.undo) = norm.read
<1>1. ASSUME DocInv, [Next]_vars
      PROVE  [Rewrites]_vars
  <2> SUFFICES ASSUME norm.st = "written", norm' = NoJob, doc' # doc
               PROVE  /\ doc'.cur = (norm.read \ {norm.range}) \cup {norm.piece}
                      /\ Last(doc'.undo) = norm.read
    OBVIOUS
  <2>1. norm # NoJob /\ norm' # norm
    BY KindsDiffer
  <2>2. CASE FinishNormalize
    <3>1. /\ doc # NoDoc /\ doc.sid = norm.sid /\ doc.rev = norm.rev
          /\ Commits((doc.cur \ {norm.range}) \cup {norm.piece})
      BY <2>2 DEF FinishNormalize, Unedited
    <3>2. doc \in Doc /\ doc.cur = norm.read
      BY <1>1, <2>1, <3>1, StateIsTyped DEF DocInv, NormInv
    <3>3. doc' = [doc EXCEPT !.cur = (doc.cur \ {norm.range}) \cup {norm.piece}, !.rev = NextRev,
                             !.undo = Append(@, doc.cur), !.redo = <<>>]
      BY <3>1 DEF Commits
    <3>4. /\ doc'.cur = (doc.cur \ {norm.range}) \cup {norm.piece}
          /\ doc'.undo = Append(doc.undo, doc.cur)
      BY <3>2, <3>3 DEF Doc
    <3>5. doc.undo \in Seq(SUBSET Piece) /\ doc.cur \in SUBSET Piece
      BY <3>2 DEF Doc
    <3>6. Last(Append(doc.undo, doc.cur)) = doc.cur
      BY <3>5 DEF Last
    <3> QED  BY <3>2, <3>4, <3>6
  <2>3. CASE AbandonNormalize \/ NormalizeRefused \/ NormalizeWrites \/ BeginNormalize
    BY <2>3 DEF AbandonNormalize, NormalizeRefused, NormalizeWrites, BeginNormalize
  <2>4. CASE Edit \/ Open \/ Close \/ (\E s \in Sid : CloseSession(s))
    BY <2>1, <2>4 DEF Edit, EditCut, EditCopy, EditPaste, EditDelete, Undo, Redo, Open, BeginOpen,
       OpenFails, OpenShow, OpenInstall, Close, CloseTakes, CloseClipboard, CloseEngine,
       CloseSession, jobs
  <2>5. CASE BeginPaste \/ PasteJob \/ HouseStart \/ Housekeeping
    BY <2>1, <2>5 DEF BeginPaste, PasteJob, PasteImports, AbandonPaste, FinishPaste, PasteRefused,
       RebindClipboard, HouseStart, Housekeeping, HouseBegins, HouseSwitches, HouseStops
  <2>6. CASE Record
    BY <2>1, <2>6 DEF Record, BeginRecordingHere, BeginRecordingNew, BeginRecordOp, TakeWrites,
       CommitTake, DiscardTake, CommitOpFails, CommitTakeStuck, CommitTakeFails, TakeIsLost, jobs
  <2>7. CASE UNCHANGED vars
    BY <2>7 DEF vars
  <2> QED  BY <1>1, <2>2, <2>3, <2>4, <2>5, <2>6, <2>7 DEF Next, NormalizeJob
<1>2. DocInv /\ [Next]_vars => [Rewrites]_vars
  BY <1>1
<1>3. Spec => [][Rewrites]_vars
  <2> HIDE DEF Rewrites
  <2> QED  BY <1>2, DocInvHolds, PTL DEF Spec
<1> QED  BY <1>3 DEF NormalizeLosesNothing

\* The open document, the stores and the fates are of their types.
THEOREM DocTypeCorrect == Spec => []TypeOK
<1>1. ASSUME DocInv
      PROVE  TypeOK
  <2>1. /\ doc \in Doc \cup {NoDoc} /\ stores \in [Key -> Store]
        /\ fate \in [Sid -> {"unused", "new", "open", "closing", "left", "deleted"}]
        /\ owed \subseteq Sid /\ givenUp \subseteq Sid
        /\ slips \subseteq {"late", "foreign", "scan", "overtaken", "crossed"}
    BY <1>1 DEF DocInv, Types
  <2>2. doc = NoDoc \/ (doc.sid \in Sid /\ doc.gen \in 0..MaxGen /\ Pieces(doc) \subseteq Piece)
    <3>1. ASSUME doc # NoDoc
          PROVE  doc.sid \in Sid /\ doc.gen \in 0..MaxGen /\ Pieces(doc) \subseteq Piece
      <4>1. doc \in Doc
        BY <2>1, <3>1
      <4>2. Pieces(doc) \in SUBSET Piece
        BY <4>1, PiecesAreTyped
      <4>3. doc.sid \in Sid /\ doc.gen \in 0..MaxGen
        BY <4>1 DEF Doc
      <4> QED  BY <4>2, <4>3
    <3> QED  BY <3>1
  <2>3. ASSUME NEW k \in Key
        PROVE  stores[k].data \in [DOMAIN stores[k].data -> Audio]
    <3>1. stores[k].data \in UNION {[D -> Audio] : D \in SUBSET (1..MaxChunk)}
      BY <2>1 DEF Store
    <3>2. PICK D \in SUBSET (1..MaxChunk) : stores[k].data \in [D -> Audio]
      BY <3>1
    <3> QED  BY <3>2
  <2> QED  BY <2>1, <2>2, <2>3 DEF TypeOK
<1> QED  BY <1>1, DocInvHolds, PTL

=============================================================================
