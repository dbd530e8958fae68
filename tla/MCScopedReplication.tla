------------------------- MODULE MCScopedReplication -------------------------
(* Small instances of ScopedReplication for TLC. *)
EXTENDS ScopedReplication, TLC

World(scopes, readers, policyChanges, lost) ==
  [scopes |-> scopes, readers |-> readers,
   policies |-> policyChanges, failures |-> lost]

\* The scope stays and the read policy changes
PolicyChanges == {World(<<Keys>>, {{1}, {2}, Keys}, 1, 0)}

\* The scope is narrowed, widened, or replaced by a disjoint one
ScopeChanges ==
  {World(scopes, {Keys}, 0, 0) :
     scopes \in {<<Keys, {1}>>, <<{1}, {2}>>}}

\* Neither changes and answers are lost
Losses == {World(<<Keys>>, {Keys}, 0, 2)}

Changes == PolicyChanges \cup ScopeChanges \cup Losses

\* The scope is narrowed and restored
ScopeRestored == {World(<<{1, 2, 3}, {1}, {1, 2, 3}>>, {Keys}, 0, 0)}
==============================================================================
