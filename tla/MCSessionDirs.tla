--------------------------- MODULE MCSessionDirs ---------------------------
(* Instances of SessionDirs for TLC. *)
EXTENDS SessionDirs, TLC

CONSTANTS a, b, s1, s2

Alone == {a}
Two   == {a, b}
One   == {s1}
Both  == {s1, s2}

Symmetry == Permutations(Inst) \cup Permutations(Sess)

=============================================================================
