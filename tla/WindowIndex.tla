----------------------------- MODULE WindowIndex -----------------------------
(***************************************************************************)
(* The server's secondary indexes and the replication windows they answer, *)
(* packages/local-sql/src/internal/serverIndex.ts, with the deltas that    *)
(* packages/local-sql/src/internal/scopedReplication.ts derives from them. *)
(*                                                                         *)
(* A window shows a client the newest Count entities of every partition of *)
(* an index.  A server process installs the indexes of its definition when *)
(* it starts, or an operator applies a rendered script; the table of an    *)
(* index is filled for a space by the first request that reads it, and     *)
(* every accepted mutation maintains the filled ones and records which     *)
(* partitions it touched.  A steady pull asks only about those partitions. *)
(*                                                                         *)
(* One space, one client and one windowed model; every entity is visible,  *)
(* and the client asks again with the cursor it has or the one it was sent *)
(* (ScopedReplication has the policies, the lost requests and the rest of  *)
(* the scope).  Each transaction is a step.  A promotion of the schema     *)
(* deletes the views of the space (ServerPromotion), so one schema         *)
(* generation is enough here.                                              *)
(***************************************************************************)
EXTENDS Integers, FiniteSets, Functions

CONSTANTS
  Keys,             \* entity keys: numbers
  Values,           \* values: records with a sort component age
  Absent, Void,     \* no entity, no view or page
  Windows,          \* the windows of the client's scope
  Descriptors,      \* descriptor hashes
  Layouts,          \* the indexes of each release, oldest first: functions from windows
  PartitionOf(_, _),\* the partition of a value under a descriptor
  Partitions,       \* every partition
  Count,            \* how many entities of a partition a window shows
  Bound,            \* the age from which a partition is shown whole
  Processes,        \* server processes
  PageSize,         \* changes in a page
  MaximumSuffix,    \* maximumSnapshotEntities
  Mutations,        \* what callers write: sequences of changes [key, value]
  MaxMutations,     \* bound on accepted mutations
  MaxScripts,       \* bound on rendered scripts
  RollingBack       \* whether an older release may serve again

ASSUME WindowIndexAssumption ==
  /\ Keys \subseteq Nat /\ IsFiniteSet(Keys) /\ Absent \notin Values
  /\ DOMAIN Layouts \subseteq Nat /\ 1 \in DOMAIN Layouts
  /\ \A n \in DOMAIN Layouts :
       DOMAIN Layouts[n] \subseteq Windows /\ Range(Layouts[n]) \subseteq Descriptors
  /\ \A d \in Descriptors, v \in Values : PartitionOf(d, v) \in Partitions
  /\ Count \in [Partitions -> Nat \ {0}] /\ Bound \in [Partitions -> Nat]
  /\ PageSize \in Nat \ {0} /\ MaximumSuffix \in Nat
  /\ \A m \in Mutations :
       /\ IsFiniteSet(DOMAIN m) /\ DOMAIN m = 1 .. Cardinality(DOMAIN m)
       /\ \A i \in DOMAIN m : m[i] \in [key : Keys, value : Values \cup {Absent}]
  /\ RollingBack \in BOOLEAN

VARIABLES
  entities,   \* effect_local_server_entities: each key's value
  log,        \* the keys each accepted mutation changed, by sequence
  floor,      \* sequences up to here are pruned
  catalog,    \* effect_local_server_index_catalog
  generation, \* the last row of effect_local_server_index_generations
  built,      \* the descriptors whose table is filled for the space
  rows,       \* the table of each descriptor: each key's value, or Absent
  touched,    \* effect_local_server_index_partition_log
  release,    \* the release each process runs
  owner,      \* the process that serves the space
  scripts,    \* rendered scripts
  installed,  \* history: the release whose indexes were installed last
  view,       \* the client's view: its layout, its watermark and its entities
  page        \* the outstanding page

indexTables == <<entities, log, floor, built, rows, touched>>
client == <<view, page>>
windowVars == <<indexTables, catalog, generation, release, owner, scripts, installed, client>>

Head == Cardinality(DOMAIN log)
Nothing == [k \in Keys |-> Absent]

(***************************************************************************)
(* planCatalog: what a definition needs and what the catalog has too much. *)
(***************************************************************************)
Needs(n) == Range(Layouts[n])
Missing(n) == Needs(n) \ catalog
Orphans(n) == catalog \ Needs(n)

(***************************************************************************)
(* Creating the missing tables and dropping the orphans with their build   *)
(* state.  The partition log keeps the rows of a dropped index.            *)
(***************************************************************************)
Install(missing, orphans) ==
  /\ catalog' = (catalog \cup missing) \ orphans
  /\ built' = built \ orphans
  /\ rows' = [d \in Descriptors |-> IF d \in orphans THEN Nothing ELSE rows[d]]
  /\ UNCHANGED <<entities, log, floor, touched>>

(***************************************************************************)
(* Releases come in order unless operators roll back.  No release brings   *)
(* back an index, or all the indexes, that one between them does not have. *)
(***************************************************************************)
NeverRestored ==
  \A l, m, n \in DOMAIN Layouts : l < m /\ m < n =>
    /\ Needs(l) \cap Needs(n) \subseteq Needs(m)
    /\ Needs(l) = Needs(n) => Needs(m) = Needs(l)

MayRelease(n) == RollingBack \/ n >= installed

(***************************************************************************)
(* make, mode "apply": under the schema lock, a process that starts        *)
(* installs its indexes and advances the generation if that changes any.   *)
(***************************************************************************)
Boot(p, n) ==
  /\ release[p] # n /\ MayRelease(n)
  /\ Install(Missing(n), Orphans(n))
  /\ generation' = generation + (IF Missing(n) \cup Orphans(n) = {} THEN 0 ELSE 1)
  /\ installed' = n
  /\ release' = [release EXCEPT ![p] = n]
  /\ UNCHANGED <<owner, scripts, client>>

(***************************************************************************)
(* make, mode "verify": a process starts only on its own indexes.          *)
(***************************************************************************)
BootVerified(p, n) ==
  /\ release[p] # n /\ MayRelease(n)
  /\ Missing(n) \cup Orphans(n) = {}
  /\ release' = [release EXCEPT ![p] = n]
  /\ UNCHANGED <<indexTables, catalog, generation, owner, scripts, installed, client>>

(***************************************************************************)
(* renderServer: a script that an operator applies later, with the         *)
(* generation the plan was made for.                                       *)
(***************************************************************************)
Render(n) ==
  /\ MayRelease(n) /\ Missing(n) \cup Orphans(n) # {}
  /\ Cardinality(scripts) < MaxScripts
  /\ scripts' = scripts \cup {[release |-> n, generation |-> generation + 1,
                               missing |-> Missing(n), orphans |-> Orphans(n)]}
  /\ UNCHANGED <<indexTables, catalog, generation, release, owner, installed, client>>

(***************************************************************************)
(* The script is one transaction.  Its first statement inserts its         *)
(* generation, which fails when that generation is taken.                  *)
(***************************************************************************)
GenerationFree(s) == s.generation > generation

ApplyScript(s) ==
  /\ GenerationFree(s)
  /\ Install(s.missing, s.orphans)
  /\ generation' = s.generation
  /\ installed' = s.release
  /\ UNCHANGED <<release, owner, scripts, client>>

(***************************************************************************)
(* The space moves to another process.                                     *)
(***************************************************************************)
MoveSpace(p) ==
  /\ p # owner
  /\ RollingBack \/ release[p] >= release[owner]
  /\ owner' = p
  /\ UNCHANGED <<indexTables, catalog, generation, release, scripts, installed, client>>

(***************************************************************************)
(* apply: the last change of each key maintains every index of the owner's *)
(* definition that is filled.  Both the partition an entity leaves and the *)
(* one it enters are recorded; a changed value in the same partition       *)
(* records it once.                                                        *)
(***************************************************************************)
Layout(p) == Layouts[release[p]]

Last(mutation, k) ==
  LET at == {i \in DOMAIN mutation : mutation[i].key = k}
  IN mutation[CHOOSE i \in at : \A j \in at : j <= i].value

Changed(mutation) == {mutation[i].key : i \in DOMAIN mutation}

PartitionsOf(d, values) == {PartitionOf(d, v) : v \in values \ {Absent}}

Touches(d, before, after) == PartitionsOf(d, {before, after})

Write(mutation) ==
  LET active == Range(Layout(owner)) \cap built
      next == [k \in Keys |-> IF k \in Changed(mutation) THEN Last(mutation, k)
                              ELSE entities[k]]
      sequence == Head + 1
  IN /\ Head < MaxMutations
     /\ entities' = next
     /\ log' = [s \in 1..sequence |-> IF s = sequence THEN Changed(mutation) ELSE log[s]]
     /\ rows' = [d \in Descriptors |->
                   IF d \in active
                   THEN [k \in Keys |-> IF k \in Changed(mutation) THEN next[k] ELSE rows[d][k]]
                   ELSE rows[d]]
     /\ touched' = touched \cup
          UNION {{<<sequence, d, part>> :
                    part \in UNION {Touches(d, rows[d][k], next[k]) : k \in Changed(mutation)}} :
                 d \in active}
     /\ UNCHANGED <<floor, catalog, generation, built, release, owner, scripts,
                    installed, client>>

(***************************************************************************)
(* pruneServer: the partition log is pruned with the accepted log.         *)
(***************************************************************************)
Prune(through) ==
  /\ through \in floor + 1 .. Head
  /\ floor' = through
  /\ touched' = {t \in touched : t[1] > through}
  /\ UNCHANGED <<entities, log, catalog, generation, built, rows, release, owner,
                 scripts, installed, client>>

(***************************************************************************)
(* ensureBuilt and backfill: the rows a request reads.                     *)
(***************************************************************************)
Filled(d) == IF d \in built THEN rows[d] ELSE entities

EnsureBuilt(layout) ==
  /\ Range(layout) \subseteq catalog
  /\ built' = built \cup Range(layout)
  /\ rows' = [d \in Descriptors |-> IF d \in Range(layout) THEN Filled(d) ELSE rows[d]]

(***************************************************************************)
(* membership and partitionMembership: of each partition asked for, the    *)
(* Count newest by age and key, and those its bound takes in.              *)
(***************************************************************************)
Newer(table, j, k) ==
  \/ table[j].age > table[k].age
  \/ table[j].age = table[k].age /\ j > k

Members(d, table, parts) ==
  LET of(part) == {k \in Keys : table[k] # Absent /\ PartitionOf(d, table[k]) = part}
  IN UNION {{k \in of(part) : \/ Cardinality({j \in of(part) : Newer(table, j, k)}) < Count[part]
                              \/ table[k].age >= Bound[part]} : part \in parts}

(***************************************************************************)
(* windowSelection and projectVisible: the window computed from nothing.   *)
(***************************************************************************)
Selection(layout) ==
  LET members == UNION {Members(d, Filled(d), Partitions) : d \in Range(layout)}
  IN [k \in Keys |-> IF k \in members THEN entities[k] ELSE Absent]

(***************************************************************************)
(* diff: what a client that has "shown" must be told to have "target".     *)
(***************************************************************************)
Diff(shown, target) ==
  [k \in {k \in Keys : shown[k] # target[k]} |->
     [kind |-> IF target[k] # Absent THEN "Upsert"
               ELSE IF entities[k] = Absent THEN "Delete" ELSE "Retract",
      value |-> target[k]]]

(***************************************************************************)
(* deriveDeltaChanges: the suffix of the log since the view's watermark,   *)
(* when it is whole and short enough ...                                   *)
(***************************************************************************)
Suffix(v) == v.delivered + 1 .. Head

SuffixServes(v) ==
  /\ v.delivered >= floor \/ v.delivered = Head
  /\ Cardinality(Suffix(v)) <= MaximumSuffix

(***************************************************************************)
(* ... gives the candidates: the changed keys, the keys the client has in  *)
(* the partitions touched since, and the members these partitions have     *)
(* now.                                                                    *)
(***************************************************************************)
Affected(v, d) == {t[3] : t \in {t \in touched : t[1] > v.delivered /\ t[2] = d}}

HeldIn(v, d, parts) ==
  {k \in Keys : /\ v.shown[k] # Absent /\ Filled(d)[k] # Absent
                /\ PartitionOf(d, Filled(d)[k]) \in parts}

ChangedSince(v) == UNION {log[s] : s \in Suffix(v)}

\* Plausible bug: what the client holds in a touched partition is left out.
ChangedAndMembers(v, layout) ==
  ChangedSince(v)
    \cup UNION {Members(d, Filled(d), Affected(v, d)) : d \in Range(layout)}

Candidates(v, layout) ==
  ChangedSince(v)
    \cup UNION {HeldIn(v, d, Affected(v, d)) \cup Members(d, Filled(d), Affected(v, d)) :
                d \in Range(layout)}

(***************************************************************************)
(* Of every window, the partitions of all the candidates are read.         *)
(***************************************************************************)
Delta(v, layout) ==
  LET candidates == Candidates(v, layout)
      read(d) == Affected(v, d) \cup PartitionsOf(d, {Filled(d)[k] : k \in candidates})
      members == UNION {Members(d, Filled(d), read(d)) : d \in Range(layout)}
      target == [k \in Keys |-> IF k \notin candidates THEN v.shown[k]
                                ELSE IF k \in members THEN entities[k] ELSE Absent]
  IN Diff(v.shown, target)

(***************************************************************************)
(* createSnapshot: a view begins anew, at the head.                        *)
(***************************************************************************)
Bootstrap(layout) ==
  /\ view' = [layout |-> layout, delivered |-> Head, shown |-> Selection(layout)]
  /\ page' = Void

(***************************************************************************)
(* applyAcknowledgedPage: the watermark moves with the last page only.     *)
(***************************************************************************)
\* Plausible bug: every acknowledged page moves the watermark.
MovesWithEachPage(v, p) == p.sequence

Watermark(v, p) == IF p.more THEN v.delivered ELSE p.sequence

Acknowledged ==
  IF page = Void THEN view
  ELSE [view EXCEPT
          !.shown = [k \in Keys |-> IF k \in DOMAIN page.changes THEN page.changes[k].value
                                    ELSE @[k]],
          !.delivered = Watermark(view, page)]

(***************************************************************************)
(* persistNextPage: the first changes, in the order of their keys.         *)
(***************************************************************************)
PageOf(changes) ==
  LET first == {k \in DOMAIN changes :
                  Cardinality({j \in DOMAIN changes : j < k}) < PageSize}
  IN [changes |-> Restrict(changes, first), sequence |-> Head,
      more |-> first # DOMAIN changes]

Derived(v, layout) ==
  IF SuffixServes(v) THEN Delta(v, layout) ELSE Diff(v.shown, Selection(layout))

(***************************************************************************)
(* pull at the process that serves the space.  A view of another layout    *)
(* begins anew; else the outstanding page is acknowledged and the next one *)
(* derived.                                                                *)
(***************************************************************************)
Serves(layout) == view # Void /\ view.layout = layout

\* validateReplicationScope: the definition has an index for every window
ScopeIsValid(layout) == DOMAIN layout = Windows

PullWindow ==
  LET layout == Layout(owner) IN
  /\ ScopeIsValid(layout) /\ EnsureBuilt(layout)
  /\ IF Serves(layout)
     THEN view' = Acknowledged /\ page' = PageOf(Derived(Acknowledged, layout))
     ELSE Bootstrap(layout)
  /\ UNCHANGED <<entities, log, floor, touched, catalog, generation, release, owner,
                 scripts, installed>>

(***************************************************************************)
(* pageSafe and pull, when the client did not get the page: it gets it     *)
(* again while all of it is still true, else the view begins anew.         *)
(***************************************************************************)
StillTrue(layout) ==
  \A k \in DOMAIN page.changes :
    /\ page.changes[k].value = Selection(layout)[k]
    /\ (page.changes[k].kind = "Delete") => (entities[k] = Absent)
    /\ (page.changes[k].kind = "Retract") => (entities[k] # Absent)

PullAgain ==
  LET layout == Layout(owner) IN
  /\ page # Void /\ Serves(layout) /\ EnsureBuilt(layout)
  /\ IF StillTrue(layout) THEN UNCHANGED client ELSE Bootstrap(layout)
  /\ UNCHANGED <<entities, log, floor, touched, catalog, generation, release, owner,
                 scripts, installed>>

-----------------------------------------------------------------------------
WindowInit ==
  /\ entities = Nothing /\ log = <<>> /\ floor = 0
  /\ catalog = Needs(1) /\ generation = 1 /\ built = {}
  /\ rows = [d \in Descriptors |-> Nothing] /\ touched = {}
  /\ release = [p \in Processes |-> 1] /\ owner \in Processes
  /\ scripts = {} /\ installed = 1
  /\ view = Void /\ page = Void

WindowNext ==
  \/ \E p \in Processes, n \in DOMAIN Layouts : Boot(p, n) \/ BootVerified(p, n)
  \/ \E n \in DOMAIN Layouts : Render(n)
  \/ \E s \in scripts : ApplyScript(s)
  \/ \E p \in Processes : MoveSpace(p)
  \/ \E m \in Mutations : Write(m)
  \/ \E through \in 1..MaxMutations : Prune(through)
  \/ PullWindow
  \/ PullAgain

WindowSpec == WindowInit /\ [][WindowNext]_windowVars

-----------------------------------------------------------------------------
(* What the windows of a layout show, from the entities alone.             *)
TrueWindow(layout) ==
  LET members == UNION {Members(d, entities, Partitions) : d \in Range(layout)}
  IN [k \in Keys |-> IF k \in members THEN entities[k] ELSE Absent]

(* A client that has applied all the pages up to the last mutation has     *)
(* exactly its windows: what slid or was evicted is gone from it, and what *)
(* slid in is there, although steady pulls look only at the partitions the *)
(* mutations since touched.  (pull and applyAcknowledgedPage; README,      *)
(* "Replication scope and read authorization".)                            *)
WindowIsShown ==
  (view # Void /\ Serves(Layout(owner)) /\ Acknowledged.delivered = Head)
     => Acknowledged.shown = TrueWindow(view.layout)

(* The changes a pull derives from the touched partitions are the ones a   *)
(* comparison of the whole window with the client's entities would give.   *)
DeltaIsExact ==
  (/\ view # Void /\ Serves(Layout(owner)) /\ Range(view.layout) \subseteq catalog
   /\ SuffixServes(Acknowledged))
     => Delta(Acknowledged, view.layout)
          = Diff(Acknowledged.shown, TrueWindow(view.layout))
==============================================================================
