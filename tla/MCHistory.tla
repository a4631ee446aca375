----------------------------- MODULE MCHistory -----------------------------
(* The instance of History that MCHistory.cfg gives to TLC: two chunks, one *)
(* marker, three edits.                                                     *)
EXTENDS History
=============================================================================
