------------------------------ MODULE MCRack ------------------------------
(* Small instances of Rack for TLC. *)
EXTENDS Rack, TLC

\* A rack of one slot that plays, loads, is missing or is broken, or of two that play.
StoredModels ==
  {<<>>, <<"builtin">>, <<"plugin">>, <<"missing">>, <<"broken">>, <<"builtin", "builtin">>}
=============================================================================
