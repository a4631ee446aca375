----------------------------- MODULE MCSession -----------------------------
(* The edits of the instances of Session that TLC checks. *)
EXTENDS Session

\* One audio range in, or one out, or a marker.
SmallEdits ==
  {e \in EditOps : Cardinality(e.del) + Cardinality(e.ins) + Cardinality(e.madd) = 1
                  /\ e.mdel = {}}

MarkerEdits == {e \in SmallEdits : ~ChangesAudio(e)}
=============================================================================
