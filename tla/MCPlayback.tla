----------------------------- MODULE MCPlayback -----------------------------
(* Small instances of Playback for TLC. *)
EXTENDS Playback

Selections == {<<0, 2>>, <<1, 3>>}
=============================================================================
