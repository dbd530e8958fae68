------------------------------- MODULE Batches -------------------------------
(***************************************************************************)
(* What the promotions of a server space and of a client's copy share,     *)
(* from packages/local-sql/src/SchemaEvolution.ts: rows are taken in order *)
(* of their keys, a bounded number at a time.                              *)
(***************************************************************************)
EXTENDS Integers, FiniteSets

CONSTANTS
  Keys,           \* entity identities, numbered in the order batches take them
  BatchSize,      \* schemaEvolutionBatchSize
  None            \* no application, target, progress or captured row

ASSUME BatchesAssumption ==
  /\ Keys \subseteq Nat \ {0} /\ IsFiniteSet(Keys)
  /\ BatchSize \in Nat \ {0}

\* LIMIT n
Lowest(S, n) == {x \in S : Cardinality({y \in S : y <= x}) <= n}

\* The cursor a batch leaves
Highest(S) == CHOOSE x \in S : \A y \in S : y <= x
==============================================================================
