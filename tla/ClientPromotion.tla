--------------------------- MODULE ClientPromotion ---------------------------
(***************************************************************************)
(* The promotion of a space's rows in a client's database to the schema of *)
(* a newer application, from packages/local-sql/src/SchemaEvolution.ts     *)
(* (client), as SqlReplica.ts runs it before the space is opened.          *)
(*                                                                         *)
(* One application at a time owns the database and nothing else writes a   *)
(* space while it is promoted, so what is read before a transaction is     *)
(* still true in it and a batch is a step.  The application may be stopped *)
(* after any batch, and started again in the same or in another version.   *)
(*                                                                         *)
(* A schema is its version.  Mutations are numbered by local sequence,     *)
(* keys in the order batches take them.  An entity is the set of what      *)
(* wrote it, and empty when it does not exist.  Migration keeps identities *)
(* and writers; faults of migration, rows above the byte bound and lineage *)
(* of keys are left out, as are rows in state AwaitingReceipt, which no    *)
(* current operation makes.                                                *)
(***************************************************************************)
EXTENDS Integers, Sequences, FiniteSets, Functions, Batches

CONSTANTS
  Releases,       \* versions of the application, the first is the stored one
  Mutations,
  KeyOf,          \* KeyOf[m]: the entity m's handler writes
  Strict,         \* mutations whose handlers refuse an entity that is absent
  Refused,        \* Refused[v]: mutations the handlers of version v refuse
  Other,          \* a write that is not pending
  MaxCuts         \* bound on stops in the middle of a promotion

ASSUME ClientPromotionAssumption ==
  /\ Releases \subseteq Nat \ {0} /\ IsFiniteSet(Releases) /\ Releases # {}
  /\ Mutations \subseteq Nat \ {0} /\ IsFiniteSet(Mutations)
  /\ KeyOf \in [Mutations -> Keys] /\ Strict \subseteq Mutations
  /\ Refused \in [Releases -> SUBSET Mutations]
  /\ Other \notin Mutations
  /\ MaxCuts \in Nat

VARIABLES
  application,    \* the version that is starting or has started, or None
  cuts,           \* stops in the middle of a promotion so far
  row,          \* the space's row: generation, active, schema, target, view
  evolution,       \* its row of effect_local_client_evolution, or None
  canonical, visible,      \* [g]: the entities of generation g
  pending,                 \* [g]: its pending mutations, in local order
  receipts,                \* [g]: its receipts: the mutation, and whether
                           \* the canonical entities have what it stands for
  retracted,               \* [g]: its retraction fences
  quarantine,              \* mutations set aside
  before          \* history: what the first version left

tables == <<canonical, visible, pending, receipts, retracted>>
clientVars == <<application, cuts, row, evolution, tables, quarantine, before>>

UntilFlip == {"Log", "Entities", "Receipts", "Pending", "Retractions", "Flip"}
AfterFlip == {"CleanupCanonical", "CleanupVisible", "CleanupRetractions", "CleanupReceipts",
              "CleanupPending", "Finalize"}

\* Rows of a promotion under way; None is not one
Evolutions == [source : Releases, target : Releases, generation : Nat, from : Nat,
               phase : UntilFlip \cup AfterFlip, after : Nat]

ASSUME ClientNoneAssumption == None \notin Evolutions

Least(S) == CHOOSE x \in S : \A y \in S : x <= y
GenerationNumbers == 0 .. Cardinality(Releases)

Nothing == [k \in Keys |-> {}]
Existing(content) == {k \in Keys : content[k] # {}}
Received(g) == {r.id : r \in receipts[g]}

(***************************************************************************)
(* Handlers, and the replay of pending mutations a running store does:     *)
(* a row with a receipt is passed over once the canonical entities have    *)
(* what the receipt stands for.                                            *)
(***************************************************************************)
Refuses(m, v, content) ==
  m \in Refused[v] \/ (m \in Strict /\ content[KeyOf[m]] = {})

Run(m, v, content) ==
  IF Refuses(m, v, content) THEN content
  ELSE [content EXCEPT ![KeyOf[m]] = @ \cup {m}]

Hidden(content, keys) == [k \in Keys |-> IF k \in keys THEN {} ELSE content[k]]

Covered(rs) == {r.id : r \in {s \in rs : s.covered}}

Replay(rows, rs, v, content) ==
  LET replayed[i \in 0 .. Len(rows)] ==
        IF i = 0 THEN content
        ELSE IF rows[i] \in Covered(rs) THEN replayed[i - 1]
        ELSE Run(rows[i], v, replayed[i - 1])
  IN replayed[Len(rows)]

(***************************************************************************)
(* The start of the application: find the promotion under way or begin     *)
(* one.  An older application, and a newer one that finds a promotion to   *)
(* another target, do not start.                                           *)
(***************************************************************************)
Start(v) ==
  /\ application = None
  /\ application' = v
  /\ UNCHANGED <<cuts, row, evolution, tables, quarantine, before>>

\* It is closed, or dies
Stop ==
  /\ application # None
  /\ evolution # None => cuts < MaxCuts
  /\ cuts' = IF evolution # None THEN cuts + 1 ELSE cuts
  /\ application' = None
  /\ UNCHANGED <<row, evolution, tables, quarantine, before>>

Foreign == IF evolution = None THEN row.schema > application
           ELSE evolution.target # application

\* SchemaEvolutionUnsupported, or SchemaGenerationConflict
Refuse ==
  /\ application # None /\ Foreign
  /\ application' = None
  /\ UNCHANGED <<cuts, row, evolution, tables, quarantine, before>>

Emptied(table, g, nothing) == [table EXCEPT ![g] = nothing]

Begin ==
  LET g == row.generation + 1
  IN /\ application # None /\ evolution = None
     /\ row.schema < application
     /\ row' = [row EXCEPT !.generation = g, !.target = application]
     /\ evolution' = [source |-> row.schema, target |-> application,
                     generation |-> g, from |-> row.active,
                     phase |-> "Log", after |-> 0]
     /\ canonical' = Emptied(canonical, g, Nothing)
     /\ visible' = Emptied(visible, g, Nothing)
     /\ pending' = Emptied(pending, g, <<>>)
     /\ receipts' = Emptied(receipts, g, {})
     /\ retracted' = Emptied(retracted, g, {})
     /\ UNCHANGED <<application, cuts, quarantine, before>>

(***************************************************************************)
(* Batches.                                                                *)
(***************************************************************************)
ValidateClientBatch ==
  /\ row.generation = evolution.generation /\ row.schema = evolution.source
  /\ row.target = evolution.target
  /\ row.active = IF evolution.phase \in UntilFlip THEN evolution.from
                    ELSE evolution.generation

InClientPhase(phase) ==
  /\ application # None /\ evolution # None
  /\ evolution.target = application
  /\ evolution.phase = phase /\ ValidateClientBatch

\* Plausible bug: the cursor of the phase before is kept
ProceedFromCursor(phase) == evolution' = [evolution EXCEPT !.phase = phase]

Proceed(phase) == evolution' = [evolution EXCEPT !.phase = phase, !.after = 0]

From == evolution.from
To == evolution.generation

\* A batch is a prefix that fits schemaEvolutionBatchBytes
NextBatches(S) ==
  LET rest == {x \in S : x > evolution.after}
  IN IF rest = {} THEN {{}} ELSE {Lowest(rest, n) : n \in 1 .. BatchSize}

Continue(batch, next) ==
  IF batch = {} THEN Proceed(next)
  ELSE evolution' = [evolution EXCEPT !.after = Highest(batch)]

\* The log of accepted entries only registers lineage
Log ==
  /\ InClientPhase("Log")
  /\ Proceed("Entities")
  /\ UNCHANGED <<application, cuts, row, tables, quarantine, before>>

Entities ==
  /\ InClientPhase("Entities")
  /\ \E batch \in NextBatches(Existing(canonical[From])) :
       LET copied(content) ==
             [k \in Keys |-> IF k \in batch THEN canonical[From][k] ELSE content[k]]
       IN /\ canonical' = [canonical EXCEPT ![To] = copied(@)]
          /\ visible' = [visible EXCEPT ![To] = copied(@)]
          /\ Continue(batch, "Receipts")
  /\ UNCHANGED <<application, cuts, row, pending, receipts, retracted, quarantine, before>>

Receipts ==
  /\ InClientPhase("Receipts")
  /\ \E batch \in NextBatches(Received(From)) :
       /\ receipts' = [receipts EXCEPT ![To] =
                         @ \cup {r \in receipts[From] : r.id \in batch}]
       /\ Continue(batch, "Pending")
  /\ UNCHANGED <<application, cuts, row, canonical, visible, pending, retracted,
                 quarantine, before>>

\* Plausible bug: a row that has its receipt is executed again
ExecutedAgain(m) == FALSE

\* The row is kept as it is and not executed
Carried(m) == m \in Received(From)

\* What becomes of one row: kept, executed anew, or set aside when refused
PromoteRow(state, m) ==
  IF Carried(m) THEN [state EXCEPT !.rows = Append(@, m)]
  ELSE IF Refuses(m, application, state.content) THEN [state EXCEPT !.aside = @ \cup {m}]
  ELSE [state EXCEPT !.content = Run(m, application, @), !.rows = Append(@, m)]

\* The rows of a batch, in order
PromoteRows(batch) ==
  LET rows == pending[From]
      promoted[i \in 0 .. Len(rows)] ==
        IF i = 0 THEN [content |-> visible[To], rows |-> pending[To], aside |-> {}]
        ELSE IF rows[i] \in batch THEN PromoteRow(promoted[i - 1], rows[i])
        ELSE promoted[i - 1]
  IN promoted[Len(rows)]

Pending ==
  /\ InClientPhase("Pending")
  /\ \E batch \in NextBatches(Range(pending[From])) :
       LET result == PromoteRows(batch)
       IN /\ visible' = [visible EXCEPT ![To] = result.content]
          /\ pending' = [pending EXCEPT ![To] = result.rows]
          /\ quarantine' = quarantine \cup result.aside
          /\ Continue(batch, "Retractions")
  /\ UNCHANGED <<application, cuts, row, canonical, receipts, retracted, before>>

Retractions ==
  /\ InClientPhase("Retractions")
  /\ \E batch \in NextBatches(retracted[From]) :
       /\ retracted' = [retracted EXCEPT ![To] = @ \cup batch]
       /\ visible' = [visible EXCEPT ![To] = Hidden(@, batch)]
       /\ Continue(batch, "Flip")
  /\ UNCHANGED <<application, cuts, row, canonical, pending, receipts, quarantine, before>>

FlipActive ==
  /\ InClientPhase("Flip")
  /\ row' = [row EXCEPT !.active = To, !.view = FALSE]
  /\ Proceed("CleanupCanonical")
  /\ UNCHANGED <<application, cuts, tables, quarantine, before>>

(***************************************************************************)
(* Cleanup of the old generation, a batch of one table at a time.          *)
(***************************************************************************)
CleanupCanonical ==
  /\ InClientPhase("CleanupCanonical")
  /\ LET batch == Lowest(Existing(canonical[From]), BatchSize)
     IN /\ canonical' = [canonical EXCEPT ![From] = Hidden(@, batch)]
        /\ IF Existing(canonical[From]) \subseteq batch THEN Proceed("CleanupVisible")
           ELSE UNCHANGED evolution
  /\ UNCHANGED <<application, cuts, row, visible, pending, receipts, retracted,
                 quarantine, before>>

CleanupVisible ==
  /\ InClientPhase("CleanupVisible")
  /\ LET batch == Lowest(Existing(visible[From]), BatchSize)
     IN /\ visible' = [visible EXCEPT ![From] = Hidden(@, batch)]
        /\ IF Existing(visible[From]) \subseteq batch THEN Proceed("CleanupRetractions")
           ELSE UNCHANGED evolution
  /\ UNCHANGED <<application, cuts, row, canonical, pending, receipts, retracted,
                 quarantine, before>>

CleanupRetractions ==
  /\ InClientPhase("CleanupRetractions")
  /\ LET batch == Lowest(retracted[From], BatchSize)
     IN /\ retracted' = [retracted EXCEPT ![From] = @ \ batch]
        /\ IF retracted[From] \subseteq batch THEN Proceed("CleanupReceipts")
           ELSE UNCHANGED evolution
  /\ UNCHANGED <<application, cuts, row, canonical, visible, pending, receipts,
                 quarantine, before>>

CleanupReceipts ==
  /\ InClientPhase("CleanupReceipts")
  /\ LET batch == Lowest(Received(From), BatchSize)
     IN /\ receipts' = [receipts EXCEPT ![From] = {r \in @ : r.id \notin batch}]
        /\ IF Received(From) \subseteq batch THEN Proceed("CleanupPending")
           ELSE UNCHANGED evolution
  /\ UNCHANGED <<application, cuts, row, canonical, visible, pending, retracted,
                 quarantine, before>>

CleanupPending ==
  /\ InClientPhase("CleanupPending")
  /\ LET batch == Lowest(Range(pending[From]), BatchSize)
     IN /\ pending' = [pending EXCEPT ![From] = SelectSeq(@, LAMBDA m : m \notin batch)]
        /\ IF Range(pending[From]) \subseteq batch THEN Proceed("Finalize")
           ELSE UNCHANGED evolution
  /\ UNCHANGED <<application, cuts, row, canonical, visible, receipts, retracted,
                 quarantine, before>>

Cleanup == CleanupCanonical \/ CleanupVisible \/ CleanupRetractions
           \/ CleanupReceipts \/ CleanupPending

FinishPromotion ==
  /\ InClientPhase("Finalize")
  /\ row' = [row EXCEPT !.schema = evolution.target, !.target = None]
  /\ evolution' = None
  /\ UNCHANGED <<application, cuts, tables, quarantine, before>>

(***************************************************************************)
(* What the first version may leave behind: any entities, mutations in     *)
(* order, receipts of the earliest of them, and fences of entities that    *)
(* are gone.                                                               *)
(***************************************************************************)
First == Least(Releases)
Increasing(s) == \A i, j \in DOMAIN s : i < j => s[i] < s[j]
Ascending(S) == CHOOSE s \in [1 .. Cardinality(S) -> S] : Increasing(s)

\* A mutation with a covered receipt is in its entity, unless it was rejected
Contents(covered) ==
  {c \in [Keys -> SUBSET (covered \cup {Other})] :
     \A k \in Keys : \A m \in c[k] \cap Mutations : KeyOf[m] = k}

Left(content, owes, rs, fences) ==
  LET at0(x, nothing) == [g \in GenerationNumbers |-> IF g = 0 THEN x ELSE nothing]
      rows == Ascending(owes)
  IN /\ canonical = at0(content, Nothing)
     /\ pending = at0(rows, <<>>)
     /\ receipts = at0(rs, {})
     /\ retracted = at0(fences, {})
     /\ visible = at0(Hidden(Replay(rows, rs, First, content), fences), Nothing)
     /\ before = [content |-> content, owed |-> owes, receipts |-> rs]

ClientInit ==
  /\ \E owes \in SUBSET Mutations :
       \E decided \in SUBSET owes :
         /\ \A m \in decided : \A n \in owes \ decided : m < n
         /\ \E covered \in SUBSET decided :
              \E content \in Contents(covered) :
                \E fences \in SUBSET (Keys \ Existing(content)) :
                  Left(content, owes,
                       {[id |-> m, covered |-> m \in covered] : m \in decided}, fences)
  /\ row = [generation |-> 0, active |-> 0, schema |-> First, target |-> None, view |-> TRUE]
  /\ evolution = None /\ quarantine = {} /\ application = None /\ cuts = 0

Batch ==
  \/ Log \/ Entities \/ Receipts \/ Pending \/ Retractions
  \/ FlipActive \/ Cleanup \/ FinishPromotion

ClientNext ==
  \/ \E v \in Releases : Start(v)
  \/ Stop \/ Refuse \/ Begin \/ Batch

ClientSpec == ClientInit /\ [][ClientNext]_clientVars

\* Each version is opened again and again, and what it starts it goes on with
ClientFairness ==
  /\ \A v \in Releases : SF_clientVars(Start(v))
  /\ WF_clientVars(Refuse) /\ WF_clientVars(Begin) /\ WF_clientVars(Batch)

(***************************************************************************)
(* Properties.                                                             *)
(***************************************************************************)
Active == row.active
ShownVersion == IF evolution # None /\ Active = evolution.generation
                  THEN evolution.target ELSE row.schema

(* Whatever batches a promotion is cut between and whoever resumes it, the *)
(* generation the store opens has every canonical entity, and every        *)
(* mutation that was waiting is still to be submitted, in its order, or in *)
(* quarantine, and in the end not both.                                    *)
NothingLost ==
  /\ canonical[Active] = before.content
  /\ before.owed = Range(pending[Active]) \cup quarantine
  /\ Increasing(pending[Active])
  /\ evolution = None => Range(pending[Active]) \cap quarantine = {}

(* What the promoted application first shows is what its own store would   *)
(* replay: the canonical entities, the pending mutations run anew by its   *)
(* own handlers, and nothing of what was fenced.  Not so when a receipt    *)
(* came before the page it announces: its mutation is then carried over      *)
(* without being run, although its store would go on replaying it.         *)
ShownIsReplay ==
  (\A r \in before.receipts : r.covered) =>
    visible[Active] =
      Hidden(Replay(pending[Active], receipts[Active], ShownVersion, canonical[Active]),
             retracted[Active])

(* A promotion ends and leaves one generation, if the application it was   *)
(* begun by is opened again: no cut leaves it where it cannot be resumed.  *)
OneGeneration ==
  \A g \in GenerationNumbers \ {Active} :
    /\ canonical[g] = Nothing /\ visible[g] = Nothing /\ pending[g] = <<>>
    /\ receipts[g] = {} /\ retracted[g] = {}

ClientPromotionEnds == (evolution # None) ~> (evolution = None /\ OneGeneration)
==============================================================================
