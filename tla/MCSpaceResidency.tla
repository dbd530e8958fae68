-------------------------- MODULE MCSpaceResidency --------------------------
(* A small instance of SpaceResidency for TLC. *)
EXTENDS SpaceResidency, TLC

CONSTANTS a, b, p, q, w1
=============================================================================
