------------------------------ MODULE UndoLog ------------------------------
(***************************************************************************)
(* What the editor promises about undo (SPEC-004 2.2): the documents the   *)
(* user went through form one line, undo and redo walk along it and change *)
(* nothing on it, a new edit replaces everything after the current         *)
(* position, and the disk budget may cut the line at its old end only.     *)
(* The document itself is opaque here.                                     *)
(***************************************************************************)
EXTENDS Naturals, Sequences

CONSTANT Doc            \* the documents an edit can produce

VARIABLES docs,         \* the line of documents, oldest first
          pos           \* the current one, 1..Len(docs)

uvars == <<docs, pos>>

Init ==
  /\ docs \in {<<d>> : d \in Doc}
  /\ pos = 1

\* An edit: what lay ahead of the current document is forgotten.
Edit(d) ==
  /\ docs' = Append(SubSeq(docs, 1, pos), d)
  /\ pos' = pos + 1

Undo ==
  /\ pos > 1
  /\ pos' = pos - 1
  /\ UNCHANGED docs

Redo ==
  /\ pos < Len(docs)
  /\ pos' = pos + 1
  /\ UNCHANGED docs

\* The oldest n documents are dropped, never the current one or a later one.
DropOldest(n) ==
  /\ n < pos
  /\ docs' = SubSeq(docs, n + 1, Len(docs))
  /\ pos' = pos - n

\* An import replaces the only document of a line that has no history.
Rebase(d) ==
  /\ Len(docs) = 1
  /\ docs' = <<d>>
  /\ UNCHANGED pos

Next ==
  \/ \E d \in Doc : Edit(d) \/ Rebase(d)
  \/ Undo
  \/ Redo
  \/ \E n \in 1..Len(docs) : DropOldest(n)

Spec == Init /\ [][Next]_uvars

=============================================================================
