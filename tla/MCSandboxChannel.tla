-------------------------- MODULE MCSandboxChannel --------------------------
(* The instances of SandboxChannel that TLC checks.  MCSandboxRings: blocks *)
(* of two samples in rings of four, pipelined, over a stream that wraps its *)
(* rings.  MCSandboxFaults: one sample per block, and everything that can   *)
(* go wrong.  MCSandboxUnfed: the same with nothing going wrong.            *)
EXTENDS SandboxChannel
=============================================================================
