------------------------------- MODULE MCBroker -------------------------------
(* Broker for TLC. Readers are interchangeable model values, but the liveness *)
(* properties forbid a symmetry set.                                          *)
EXTENDS Broker
=============================================================================
