---------------------------- MODULE MCServerStore ----------------------------
(* A small instance of ServerStore for TLC. *)
EXTENDS ServerStore, TLC

CONSTANTS l1, a, b, k1, v1, v2

Envelope(l, s, i, v) ==
  [lineage |-> l, seq |-> s, id |-> i, key |-> k1, value |-> v]

(* Two mutations of one client; the first one is also submitted, and       *)
(* discarded, with other bytes under the same identity.                    *)
OneClient == {Envelope(l1, 1, a, v1), Envelope(l1, 1, a, v2), Envelope(l1, 2, b, Absent)}
ChangedDiscarded == {Envelope(l1, 1, a, v2)}
=============================================================================
