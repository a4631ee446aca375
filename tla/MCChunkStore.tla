---------------------------- MODULE MCChunkStore ----------------------------
(* Threads of one kind are interchangeable. *)
EXTENDS ChunkStore, TLC

Symmetry == Permutations(Writer) \cup Permutations(Syncer)
=============================================================================
