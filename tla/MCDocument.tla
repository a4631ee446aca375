---------------------------- MODULE MCDocument ----------------------------
(* Small instances of Document for TLC. *)
EXTENDS Document, TLC

RatesAlike == Permutations(Rates)

\* A behaviour is followed up to the first overlap, or failed commit, whose harm
\* is known.
NoSlipYet == slips \cap {"late", "foreign", "scan", "crossed"} = {} /\ givenUp = {}
=============================================================================
