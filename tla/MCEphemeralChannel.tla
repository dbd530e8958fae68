------------------------- MODULE MCEphemeralChannel -------------------------
(* A small instance of EphemeralChannel for TLC. *)
EXTENDS EphemeralChannel, TLC

CONSTANTS a, b, v1, v2, s1
=============================================================================
