---------------------------- MODULE MCNodeStreams ----------------------------
(* NodeStreams for TLC. *)
EXTENDS NodeStreams
=============================================================================
