---------------------------- MODULE MCOfflineWake ----------------------------
(* A small instance of OfflineWake for TLC. *)
EXTENDS OfflineWake, TLC

CONSTANTS a, r1, r2, w1
=============================================================================
