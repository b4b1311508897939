--------------------------- MODULE MCControlPlane ---------------------------
(* ControlPlane for TLC. *)
EXTENDS ControlPlane

\* Bundle IDs as sequences of name pieces.
MCBundles == {<<"app">>}
=============================================================================
