--------------------------- MODULE ServerPromotion ---------------------------
(***************************************************************************)
(* The promotion of a server space to the schema of a newer definition,    *)
(* from packages/local-sql/src/SchemaEvolution.ts (server), and what       *)
(* ServerStore.ts and scopedReplication.ts do of it: every request first   *)
(* prepares its space, which starts or resumes the promotion and drives it *)
(* to its end.  Requests run in several processes on one database, some of *)
(* them of an older or a newer deployment, and any may die between two     *)
(* statements.                                                             *)
(*                                                                         *)
(* A schema is its version: the catalog of version n knows definitions     *)
(* 1 .. n and one migration hash leads to each of them.  Migration keeps   *)
(* an entity's identity; key collisions and rows above the byte bound      *)
(* (terminal faults) are left out, and so is the lineage of keys the Log   *)
(* phase records.  Keys and clients are numbered in the order batches      *)
(* take them.                                                              *)
(***************************************************************************)
EXTENDS Integers, Sequences, FiniteSets, Batches

CONSTANTS
  Processes,      \* server processes
  Version,        \* Version[p]: the schema of p's definition
  Values,         \* values of entities
  Absent,         \* an entity that does not exist
  Clients,        \* clients that replicate the space
  MaxWrites, MaxFailures,  \* bounds on mutations and on interrupted requests
  Overtakes       \* whether a promotion may end while a process that read the
                  \* space in the middle of it has yet to act on what it read

Versions == {Version[p] : p \in Processes}

ASSUME PromotionAssumption ==
  /\ Version \in [Processes -> Nat \ {0}]
  /\ IsFiniteSet(Processes) /\ Processes # {}
  /\ Clients \subseteq Nat \ {0} /\ IsFiniteSet(Clients)
  /\ Absent \notin [value : Values, schema : Nat]
  /\ MaxWrites \in Nat /\ MaxFailures \in Nat
  /\ Overtakes \in BOOLEAN

VARIABLES
  space,          \* the space's row: generation, active, schema, target, count
  progress,       \* its row of effect_local_server_evolution, or None
  entities,       \* entities[g][k]: row k of generation g, or Absent
  log,            \* keys written by accepted mutations, in sequence
  scoped,         \* scoped[t][c]: schema of c's rows in table t, 0 for none
  request,        \* request[p]: the request p is serving
  failures

database == <<space, progress, entities, log, scoped>>
serverVars == <<database, request, failures>>

\* Rows of the space and of its progress; None is neither, nor a schema
Spaces == [generation : Nat, active : Nat, schema : Nat, target : Nat \cup {None}, count : Nat]

Phases == {"Log", "Entities", "Flip", "CleanupScopedSnapshotEntries", "CleanupScopedSnapshots",
           "CleanupReplicationPages", "CleanupReplicationViewEntities",
           "CleanupReplicationViews", "CleanupEntities", "Finalize"}

Progresses == [source : Nat, target : Nat, generation : Nat, from : Nat, phase : Phases,
               after : Nat, copied : Nat]

ASSUME NoneAssumption == None \notin Nat \cup Spaces \cup Progresses

Generations == 0 .. Cardinality(Versions)
Row(v, version) == [value |-> v, schema |-> version]
Present(g) == {k \in Keys : entities[g][k] # Absent}
NoEntities == [k \in Keys |-> Absent]

(***************************************************************************)
(* Requests.  at: the statement p is about to run; saw: the row of the     *)
(* space or of the progress it has read; generation: the one it expects    *)
(* to promote, or has prepared; batch: the rows it has read.               *)
(***************************************************************************)
Idle == [at |-> "idle", saw |-> None, generation |-> 0, batch |-> {}]

At(p, at) == request[p].at = at
Saw(p) == request[p].saw
Goto(p, r) == request' = [request EXCEPT ![p] = r]
Move(p, at) == Goto(p, [request[p] EXCEPT !.at = at])
Fail(p) == Goto(p, Idle)

\* prepareSpace, at the head of every request
Receive(p) ==
  /\ At(p, "idle")
  /\ Move(p, "progress")
  /\ UNCHANGED <<database, failures>>

(***************************************************************************)
(* The start: find the promotion under way, or begin one.                  *)
(***************************************************************************)
\* The definition of the promotion found must be the process's own
Join(p) ==
  IF progress.target = Version[p]
    THEN Goto(p, [Idle EXCEPT !.at = "state", !.generation = progress.generation])
    ELSE Fail(p)                               \* InvalidConfiguration

ReadProgress(p) ==
  /\ At(p, "progress")
  /\ IF progress = None THEN Move(p, "space") ELSE Join(p)
  /\ UNCHANGED <<database, failures>>

Prepared(p, g) == Goto(p, [Idle EXCEPT !.at = "prepared", !.generation = g])

ReadSpace(p) ==
  /\ At(p, "space")
  /\ IF space.schema > Version[p] THEN Fail(p)   \* SchemaEvolutionUnsupported
     ELSE IF space.schema = Version[p] THEN Prepared(p, space.generation)
     ELSE Goto(p, [request[p] EXCEPT !.at = "begin", !.saw = space])
  /\ UNCHANGED <<database, failures>>

Beginning(p) ==
  [source |-> Saw(p).schema, target |-> Version[p],
   generation |-> Saw(p).generation + 1, from |-> Saw(p).active,
   phase |-> "Log", after |-> 0, copied |-> 0]

Promotable(p) == space.generation = Saw(p).generation /\ space.target = None

BeginPromotion(p) ==
  /\ At(p, "begin")
  /\ IF Promotable(p)
       THEN /\ space' = [space EXCEPT !.generation = Beginning(p).generation,
                                      !.schema = Saw(p).schema, !.target = Version[p]]
            /\ progress' = Beginning(p)
            /\ entities' = [entities EXCEPT ![Beginning(p).generation] = NoEntities]
       ELSE UNCHANGED <<space, progress, entities>>
  /\ Goto(p, [Idle EXCEPT !.at = "begun"])
  /\ UNCHANGED <<log, scoped, failures>>

RereadProgress(p) ==
  /\ At(p, "begun")
  /\ IF progress = None THEN Fail(p) ELSE Join(p)   \* None: StorageCorrupt
  /\ UNCHANGED <<database, failures>>

(***************************************************************************)
(* The loop: read the progress, read a batch, commit it in a transaction   *)
(* that validates both rows again.                                         *)
(***************************************************************************)
Promoted(p) ==
  /\ space.generation = request[p].generation /\ space.active = space.generation
  /\ space.schema = Version[p] /\ space.target = None

Resumable(p) ==
  progress.generation = request[p].generation /\ progress.target = Version[p]

ReadState(p) ==
  /\ At(p, "state")
  /\ IF progress = None
       THEN IF Promoted(p) THEN Prepared(p, space.generation)
            ELSE Fail(p)                       \* SchemaGenerationConflict
     ELSE IF ~ Resumable(p) THEN Fail(p)       \* SchemaGenerationConflict
     ELSE Goto(p, [request[p] EXCEPT
            !.at = IF progress.phase \in {"Log", "Entities"} THEN "rows" ELSE "commit",
            !.saw = progress])
  /\ UNCHANGED <<database, failures>>

After(p, S) == {k \in S : k > Saw(p).after}

\* A batch is a prefix that fits schemaEvolutionBatchBytes
Batches(S) == IF S = {} THEN {{}} ELSE {Lowest(S, n) : n \in 1 .. BatchSize}

ReadRows(p) ==
  /\ At(p, "rows")
  /\ \E batch \in Batches(After(p, IF Saw(p).phase = "Log" THEN DOMAIN log
                                   ELSE Present(Saw(p).from))) :
       Goto(p, [request[p] EXCEPT !.at = "commit", !.batch = batch])
  /\ UNCHANGED <<database, failures>>

BeforeFlip == {"Log", "Entities", "Flip"}

\* Plausible bug: only the space's row is validated, not the progress
ValidateSpaceOnly(p) ==
  /\ space.generation = Saw(p).generation /\ space.schema = Saw(p).source
  /\ space.target = Saw(p).target
  /\ space.active = IF Saw(p).phase \in BeforeFlip THEN Saw(p).from
                    ELSE Saw(p).generation

ValidateBatch(p) ==
  /\ space.generation = Saw(p).generation /\ space.schema = Saw(p).source
  /\ space.target = Saw(p).target
  /\ space.active = IF Saw(p).phase \in BeforeFlip THEN Saw(p).from
                    ELSE Saw(p).generation
  /\ progress = Saw(p)

InPhase(p, phase) == At(p, "commit") /\ Saw(p).phase = phase /\ ValidateBatch(p)
Committed(p) == Goto(p, [request[p] EXCEPT !.at = "state", !.saw = None, !.batch = {}])
Advance(phase) == [progress EXCEPT !.phase = phase, !.after = 0]
Last(p) == Highest(request[p].batch)

Conflict(p) ==
  /\ At(p, "commit") /\ ~ ValidateBatch(p)
  /\ Fail(p)                                   \* SchemaGenerationConflict
  /\ UNCHANGED <<database, failures>>

LogBatch(p) ==
  /\ InPhase(p, "Log")
  /\ progress' = IF request[p].batch = {} THEN Advance("Entities")
                 ELSE [progress EXCEPT !.after = Last(p)]
  /\ Committed(p)
  /\ UNCHANGED <<space, entities, log, scoped, failures>>

Migrated(row) == Row(row.value, progress.target)

CopiedCount(p) == progress.copied + Cardinality(request[p].batch)

\* A row inserted twice fails the transaction
EntitiesBatch(p) ==
  /\ InPhase(p, "Entities")
  /\ IF request[p].batch = {}
       THEN progress' = Advance("Flip") /\ Committed(p) /\ UNCHANGED entities
     ELSE IF request[p].batch \cap Present(progress.generation) # {}
       THEN Fail(p) /\ UNCHANGED <<progress, entities>>   \* StorageUnavailable
     ELSE
       /\ entities' = [entities EXCEPT ![progress.generation] =
            [k \in Keys |-> IF k \in request[p].batch
                              THEN Migrated(entities[progress.from][k]) ELSE @[k]]]
       /\ progress' = [progress EXCEPT !.after = Last(p), !.copied = CopiedCount(p)]
       /\ Committed(p)
  /\ UNCHANGED <<space, log, scoped, failures>>

Flip(p) ==
  /\ InPhase(p, "Flip")
  /\ space' = [space EXCEPT !.active = progress.generation, !.count = progress.copied]
  /\ progress' = Advance("CleanupScopedSnapshotEntries")
  /\ Committed(p)
  /\ UNCHANGED <<entities, log, scoped, failures>>

(***************************************************************************)
(* Cleanup of what belongs to the old schema, children first.              *)
(***************************************************************************)
Tables == {"entries", "snapshots", "pages", "members", "views"}
RowsOf(t) == {c \in Clients : scoped[t][c] # 0}

\* Plausible bug: views are deleted before the rows found through them
ViewsFirst ==
  [CleanupScopedSnapshotEntries   |-> <<"entries", "CleanupScopedSnapshots">>,
   CleanupScopedSnapshots         |-> <<"snapshots", "CleanupReplicationViews">>,
   CleanupReplicationViews        |-> <<"views", "CleanupReplicationPages">>,
   CleanupReplicationPages        |-> <<"pages", "CleanupReplicationViewEntities">>,
   CleanupReplicationViewEntities |-> <<"members", "CleanupEntities">>]

\* The table a phase empties, and the next phase
Cleanups ==
  [CleanupScopedSnapshotEntries   |-> <<"entries", "CleanupScopedSnapshots">>,
   CleanupScopedSnapshots         |-> <<"snapshots", "CleanupReplicationPages">>,
   CleanupReplicationPages        |-> <<"pages", "CleanupReplicationViewEntities">>,
   CleanupReplicationViewEntities |-> <<"members", "CleanupReplicationViews">>,
   CleanupReplicationViews        |-> <<"views", "CleanupEntities">>]

\* Rows of a child table are found through their parents
Reachable(t) ==
  CASE t = "entries" -> RowsOf(t) \cap RowsOf("snapshots")
    [] t \in {"pages", "members"} -> RowsOf(t) \cap RowsOf("views")
    [] OTHER -> RowsOf(t)

Remaining(t) == IF t = "entries" THEN Reachable(t) ELSE RowsOf(t)

CleanupScoped(p) ==
  \E phase \in DOMAIN Cleanups :
    LET t == Cleanups[phase][1]
        deleted == Lowest(Reachable(t), BatchSize)
    IN /\ InPhase(p, phase)
       /\ scoped' = [scoped EXCEPT ![t] = [c \in Clients |-> IF c \in deleted THEN 0 ELSE @[c]]]
       /\ progress' = IF Remaining(t) \subseteq deleted THEN Advance(Cleanups[phase][2])
                      ELSE progress
       /\ Committed(p)
       /\ UNCHANGED <<space, entities, log, failures>>

CleanupEntities(p) ==
  /\ InPhase(p, "CleanupEntities")
  /\ LET g == progress.from
         deleted == Lowest(Present(g), BatchSize)
     IN /\ entities' = [entities EXCEPT ![g] =
                          [k \in Keys |-> IF k \in deleted THEN Absent ELSE @[k]]]
        /\ progress' = IF Present(g) \subseteq deleted THEN Advance("Finalize") ELSE progress
  /\ Committed(p)
  /\ UNCHANGED <<space, log, scoped, failures>>

Finalize(p) ==
  /\ InPhase(p, "Finalize")
  /\ Overtakes \/ \A q \in Processes : ~ (At(q, "begin") /\ Saw(q).target # None)
  /\ space' = [space EXCEPT !.schema = progress.target, !.target = None]
  /\ progress' = None
  /\ Committed(p)
  /\ UNCHANGED <<entities, log, scoped, failures>>

(***************************************************************************)
(* What a prepared request does to the space, in one transaction that      *)
(* locks and checks the space's row.                                       *)
(***************************************************************************)
ValidateStoredSpace(p) == space.schema = Version[p] /\ space.target = None

Written(k, row) ==
  /\ entities' = [entities EXCEPT ![space.active][k] = row]
  /\ space' = [space EXCEPT !.count =
       Cardinality({j \in Keys : (IF j = k THEN row ELSE entities[space.active][j]) # Absent})]
  /\ log' = Append(log, k)

\* Otherwise StaleSchema
Admit(p) ==
  /\ At(p, "prepared")
  /\ IF ValidateStoredSpace(p)
       THEN /\ Len(log) < MaxWrites
            /\ \E k \in Keys :
                 \/ \E v \in Values : Written(k, Row(v, Version[p]))
                 \/ Written(k, Absent)
       ELSE UNCHANGED <<space, entities, log>>
  /\ Goto(p, Idle)
  /\ UNCHANGED <<progress, scoped, failures>>

\* Plausible bug: what was prepared is not compared with the locked row
AnyPreparedSpace(p) == TRUE

ValidatePreparedSpace(p) ==
  /\ space.generation = request[p].generation /\ space.active = request[p].generation
  /\ space.target = None /\ space.schema = Version[p]

\* A client bootstraps, and has a page outstanding
Replicate(p) ==
  /\ At(p, "prepared")
  /\ \E c \in Clients :
       scoped' = IF ValidatePreparedSpace(p)
                   THEN [t \in Tables |-> [scoped[t] EXCEPT ![c] = Version[p]]]
                   ELSE scoped
  /\ Goto(p, Idle)
  /\ UNCHANGED <<space, progress, entities, log, failures>>

\* The process dies, or the caller interrupts its request
Interrupt(p) ==
  /\ request[p] # Idle
  /\ failures < MaxFailures
  /\ failures' = failures + 1
  /\ Goto(p, Idle)
  /\ UNCHANGED database

Oldest == CHOOSE v \in Versions : \A w \in Versions : v <= w

\* A space of the oldest schema, with any entities and no client yet
ServerInit ==
  /\ \E rows \in [Keys -> {Absent} \cup {Row(v, Oldest) : v \in Values}] :
       /\ entities = [g \in Generations |-> IF g = 0 THEN rows ELSE NoEntities]
       /\ space = [generation |-> 0, active |-> 0, schema |-> Oldest, target |-> None,
                   count |-> Cardinality({k \in Keys : rows[k] # Absent})]
  /\ progress = None /\ log = <<>>
  /\ scoped = [t \in Tables |-> [c \in Clients |-> 0]]
  /\ request = [p \in Processes |-> Idle]
  /\ failures = 0

Prepare(p) ==
  \/ ReadProgress(p) \/ ReadSpace(p) \/ BeginPromotion(p) \/ RereadProgress(p)
  \/ ReadState(p) \/ ReadRows(p) \/ Conflict(p)
  \/ LogBatch(p) \/ EntitiesBatch(p) \/ Flip(p)
  \/ CleanupScoped(p) \/ CleanupEntities(p) \/ Finalize(p)

Serve(p) == Admit(p) \/ Replicate(p)

ServerNext == \E p \in Processes : Receive(p) \/ Prepare(p) \/ Serve(p) \/ Interrupt(p)

ServerSpec == ServerInit /\ [][ServerNext]_serverVars

\* Clients keep calling and every request that is served makes progress
ServerFairness == \A p \in Processes :
              WF_serverVars(Receive(p)) /\ WF_serverVars(Prepare(p)) /\ WF_serverVars(Serve(p))

(***************************************************************************)
(* Properties.                                                             *)
(***************************************************************************)
(* A reader of the active generation finds every entity, migrated, at      *)
(* every moment of the promotion, whichever processes drive it and         *)
(* wherever they die: the space changes schema at once, no accepted        *)
(* mutation is lost and none of the old schema is accepted afterwards.     *)
ShownSchema == IF space.active = space.generation /\ progress # None
                 THEN space.target ELSE space.schema

Upgrade == INSTANCE SchemaUpgrade WITH
  content <- entities[space.active], schema <- ShownSchema

ImplementsUpgrade == Upgrade!Spec

(* Once a promotion has ended no snapshot, page or view of the old schema  *)
(* is left, although requests prepared before it may still arrive, and the *)
(* count that bounds capacity is that of the entities readers find.        *)
ViewsAreCurrent ==
  progress = None =>
    /\ \A t \in Tables : \A c \in RowsOf(t) : scoped[t][c] = space.schema
    /\ space.count = Cardinality(Present(space.active))

(* A promotion that has begun ends, as long as callers keep coming to a    *)
(* process of its target.                                                  *)
ServerPromotionEnds == (progress # None) ~> (progress = None)
==============================================================================
