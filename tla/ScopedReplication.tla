-------------------------- MODULE ScopedReplication --------------------------
(***************************************************************************)
(* Replication of one space to one client: the server's side from          *)
(* packages/local-sql/src/internal/scopedReplication.ts and the client's   *)
(* from LocalStore.ts (view pages, bootstrap staging, revocation) driven   *)
(* by the catch-up loop of Reconciler.ts.                                  *)
(*                                                                         *)
(* The server remembers what the client has acknowledged (the view), at    *)
(* most one page the client has not acknowledged yet, and one snapshot.  A *)
(* request may be processed after its sender has given up on it.           *)
(*                                                                         *)
(* One principal, a current schema and whole-model scopes: a scope is the  *)
(* set of keys its models cover.  Content digests and byte counts agree    *)
(* with the content they describe.  Keys are numbered in page order.       *)
(***************************************************************************)
EXTENDS Integers, Sequences, FiniteSets

CONSTANTS
  Keys, Values,   \* entity identities, in the order pages list them; values
  Absent,         \* the "value" of an entity that does not exist
  Worlds,         \* what the environment may do, one choice a behaviour:
                  \*   scopes the application chooses, in turn
                  \*   readers, the sets of entities a read policy allows
                  \*   policies, failures: how often they change and happen
  PageSize,       \* entries in a page of changes or of a snapshot
  None,           \* no cursor, page, snapshot, stage or message
  MaxWrites       \* bound on the writes of other clients

ASSUME ReplicationAssumption ==
  /\ Keys \subseteq Nat /\ IsFiniteSet(Keys)
  /\ Absent \notin Values
  /\ \A w \in Worlds :
       /\ w.scopes \in Seq(SUBSET Keys) /\ w.scopes # <<>>
       /\ w.readers \subseteq SUBSET Keys
       /\ w.policies \in Nat /\ w.failures \in Nat
  /\ PageSize \in Nat \ {0}
  /\ MaxWrites \in Nat

VARIABLES
  \* the space and the application's read policy
  entities,       \* authoritative entities
  log,            \* keys written, by server sequence
  floor,          \* accepted-log entries up to here are pruned
  readable,       \* entities the policy lets the client read
  admitted,       \* the policy admits the client's scope at all
  granted,        \* history: entities granted since the last invalidation
  epoch,          \* read_auth_epoch
  \* what the server keeps about the client
  view, page, snapshot,
  nextId,         \* identities of views and snapshots
  \* the client's database
  world,          \* what the environment does in this behaviour
  generation,     \* scope_generation: world.scopes[generation] is the desired scope
  cursor,         \* installed view and revision
  serverCursor,   \* server_cursor
  canonical,      \* canonical entities
  retracted,      \* retraction fences
  stage,          \* a bootstrap being staged
  \* the client's catch-up loop and the network
  turn,           \* where the loop stands
  session,        \* number of the loop's incarnation
  due,            \* a reconciliation has been requested since the turn began
  restart,        \* the application is replacing the runtime after setScope
  fault,          \* the error that ended the last turn
  wire,           \* requests sent and not processed, maybe lost
  policies, failures   \* history: policy changes, turns given up

spaceVars == <<entities, log, floor>>
policyVars == <<readable, admitted, granted, epoch, policies>>
serverVars == <<view, page, snapshot, nextId>>
clientVars == <<world, generation, cursor, serverCursor, canonical, retracted, stage>>
loopVars == <<turn, session, due, restart, fault, wire, failures>>
vars == <<spaceVars, policyVars, serverVars, clientVars, loopVars>>

Contents == [Keys -> Values \cup {Absent}]
Nothing == [k \in Keys |-> Absent]
Present(content) == {k \in Keys : content[k] # Absent}

Latest == Len(log)
Scope == world.scopes[generation]

\* The n smallest members of S
Lowest(S, n) == {x \in S : Cardinality({y \in S : y < x}) < n}

(***************************************************************************)
(* Changes of a page: a function from the changed keys.                    *)
(***************************************************************************)
Upsert(v) == [tag |-> "Upsert", value |-> v]
Delete == [tag |-> "Delete", value |-> Absent]
Retract == [tag |-> "Retract", value |-> Absent]

Apply(content, changes) ==
  [k \in Keys |-> IF k \in DOMAIN changes THEN changes[k].value ELSE content[k]]

Visible(scope) ==
  [k \in Keys |-> IF k \in scope \cap readable THEN entities[k] ELSE Absent]

\* How the view must change for k to be as the client may see it now
Change(k, scope) ==
  IF Visible(scope)[k] # Absent THEN Upsert(entities[k])
  ELSE IF entities[k] # Absent THEN Retract ELSE Delete

\* diff: from the acknowledged content to everything visible in the scope
Diff(content, scope) ==
  [k \in {j \in Keys : content[j] # Visible(scope)[j]} |-> Change(k, scope)]

(***************************************************************************)
(* deriveDeltaChanges: only entities written since the delivered watermark *)
(* are compared, and every acknowledged one is authorized again.           *)
(***************************************************************************)
Written(v) == {log[s] : s \in v.delivered + 1 .. Latest}

DeltaKeys(v, scope) ==
  {k \in Written(v) \cap scope : v.content[k] # Visible(scope)[k]}
    \cup {k \in Present(v.content) \ Written(v) : k \notin readable}

Delta(v, scope) ==
  [k \in DeltaKeys(v, scope) |->
     IF k \in Written(v) THEN Change(k, scope) ELSE Retract]

DeltaApplies(v, scope) ==
  /\ v.scope = scope
  /\ v.epoch = epoch
  /\ floor <= v.delivered

NextChanges(v, scope) ==
  IF DeltaApplies(v, scope) THEN Delta(v, scope) ELSE Diff(v.content, scope)

(***************************************************************************)
(* Requests and replies.  The loop waits for one reply at a time; a reply  *)
(* to an earlier incarnation of the loop reaches nobody.                   *)
(***************************************************************************)
Cursors == [view : Nat, revision : Nat]

PullRequest ==
  [kind |-> "pull", session |-> session, status |-> "sent",
   generation |-> generation, scope |-> Scope,
   cursor |-> cursor, snapshot |-> None, after |-> 0]

BootstrapRequest ==
  [kind |-> "bootstrap", session |-> session, status |-> "sent",
   generation |-> generation, scope |-> Scope,
   cursor |-> [view |-> turn.manifest.view, revision |-> 0],
   snapshot |-> turn.manifest.id, after |-> turn.after]

Idle == [at |-> "idle", pass |-> 1, manifest |-> None, after |-> 0, reply |-> None]
TurnAt(where) == [turn EXCEPT !.at = where, !.reply = None]

Reply(r, message) ==
  /\ wire' = wire \ {r}
  /\ turn' = IF r.session = session /\ turn.at = "waiting"
               THEN [turn EXCEPT !.at = "received", !.reply = message] ELSE turn
  /\ UNCHANGED <<session, due, restart, fault, failures>>

Answered(tag) == [tag |-> tag]

Environment == UNCHANGED <<spaceVars, policyVars, clientVars>>

\* authorization.scope runs before the transaction
AuthorizeScope(r) ==
  /\ r.status = "sent"
  /\ \/ /\ admitted
        /\ wire' = (wire \ {r}) \cup {[r EXCEPT !.status = "authorized"]}
        /\ UNCHANGED <<turn, session, due, restart, fault, failures>>
     \/ ~ admitted /\ Reply(r, Answered("AuthorizationDenied"))
  /\ Environment /\ UNCHANGED serverVars

(***************************************************************************)
(* createSnapshot: a fresh view at revision 0 holding what the client may  *)
(* see now, and a snapshot of it; the outstanding page is forgotten.       *)
(***************************************************************************)
Superseded(r) == view # None /\ r.generation < view.generation

FreshSnapshot(r) ==
  [id |-> nextId, view |-> nextId, generation |-> r.generation,
   scope |-> r.scope, sequence |-> Latest, content |-> Visible(r.scope)]

CreateSnapshot(r) ==
  /\ view' = [id |-> nextId, revision |-> 0, generation |-> r.generation,
              scope |-> r.scope, content |-> Visible(r.scope),
              server |-> Latest, delivered |-> Latest, epoch |-> epoch]
  /\ page' = None
  /\ snapshot' = FreshSnapshot(r)
  /\ nextId' = nextId + 1

Manifest(s) ==
  [id |-> s.id, view |-> s.view, generation |-> s.generation, scope |-> s.scope,
   sequence |-> s.sequence, count |-> Cardinality(Present(s.content))]

BootstrapRequired(s) == [tag |-> "BootstrapRequired", manifest |-> Manifest(s)]

(***************************************************************************)
(* pullLocked.                                                             *)
(***************************************************************************)
\* A client without a cursor gets the snapshot it was offered before, if current
Reusable(r) ==
  /\ r.cursor = None /\ view # None /\ snapshot # None
  /\ view.generation = r.generation /\ view.scope = r.scope
  /\ snapshot.generation = r.generation /\ snapshot.scope = r.scope
  /\ snapshot.view = view.id /\ view.revision = 0
  /\ snapshot.sequence = Latest

Recognized(r) ==
  /\ r.cursor # None /\ view # None
  /\ r.cursor.view = view.id

ScopeWithoutGeneration(r) ==
  /\ Recognized(r)
  /\ r.generation = view.generation /\ r.scope # view.scope

BadWatermark(r) ==
  /\ Recognized(r) /\ page # None
  /\ page.view = view.id
  /\ page.sequence < view.server \/ page.sequence > Latest

\* Plausible bug: an outstanding page is repeated without being checked again
PageUnchecked(r) == TRUE

\* Each change of an outstanding page must still be true
PageSafe(r) ==
  \A k \in DOMAIN page.changes :
    /\ page.changes[k].tag = "Upsert" =>
         page.changes[k].value = Visible(r.scope)[k]
    /\ page.changes[k].tag = "Delete" => entities[k] = Absent
    /\ page.changes[k].tag = "Retract" =>
         entities[k] # Absent /\ Visible(r.scope)[k] = Absent

AcknowledgesPage(r) == r.cursor.revision = page.target

SamePageScope(r) ==
  \/ page.generation = r.generation /\ page.scope = r.scope
  \/ AcknowledgesPage(r) /\ r.generation > page.generation

RepeatsPage(r) ==
  /\ Recognized(r) /\ page # None /\ page.view = view.id
  /\ SamePageScope(r)
  /\ r.cursor.revision = page.base

Advances(r) ==
  /\ Recognized(r)
  /\ \/ /\ page # None /\ page.view = view.id
        /\ SamePageScope(r) /\ AcknowledgesPage(r)
     \/ page = None /\ r.cursor.revision = view.revision

PageReply(p) ==
  [tag |-> "PullPage", view |-> p.view, revision |-> p.target,
   generation |-> p.generation, sequence |-> p.sequence,
   changes |-> p.changes, more |-> p.more]

Refuse(r) ==
  /\ \/ Superseded(r) /\ Reply(r, Answered("StaleReplicationScope"))
     \/ /\ ~ Superseded(r)
        /\ \/ ScopeWithoutGeneration(r) /\ Reply(r, Answered("ProtocolInvalid"))
           \/ /\ ~ ScopeWithoutGeneration(r)
              /\ BadWatermark(r) /\ Reply(r, Answered("StorageCorrupt"))
  /\ UNCHANGED serverVars

Refused(r) == Superseded(r) \/ ScopeWithoutGeneration(r) \/ BadWatermark(r)

OfferSnapshot(r) ==
  /\ ~ Refused(r)
  /\ \/ /\ Reusable(r)
        /\ Reply(r, BootstrapRequired(snapshot))
        /\ UNCHANGED serverVars
     \/ /\ ~ Reusable(r) /\ ~ Advances(r)
        /\ ~ (RepeatsPage(r) /\ PageSafe(r))
        /\ CreateSnapshot(r)
        /\ Reply(r, BootstrapRequired(FreshSnapshot(r)))

RepeatPage(r) ==
  /\ ~ Refused(r)
  /\ RepeatsPage(r) /\ PageSafe(r)
  /\ Reply(r, PageReply(page))
  /\ UNCHANGED serverVars

\* Plausible bug: a page of a series enters the view's content only with
\* the last one
AcknowledgedByLastPage ==
  IF page = None THEN view
  ELSE IF page.more THEN [view EXCEPT !.revision = page.target, !.server = page.sequence]
  ELSE [view EXCEPT !.revision = page.target, !.server = page.sequence,
                    !.content = Apply(view.content, page.changes),
                    !.generation = page.generation, !.scope = page.scope,
                    !.delivered = page.sequence, !.epoch = page.epoch]

\* applyAcknowledgedPage: only the last page of a series moves the watermark
AcknowledgedView ==
  IF page = None THEN view
  ELSE LET v == [view EXCEPT !.revision = page.target, !.server = page.sequence,
                             !.content = Apply(view.content, page.changes)]
       IN IF page.more THEN v
          ELSE [v EXCEPT !.generation = page.generation, !.scope = page.scope,
                         !.delivered = page.sequence, !.epoch = page.epoch]

\* persistNextPage
NextPage(r, v) ==
  LET changes == NextChanges(v, r.scope)
      selected == Lowest(DOMAIN changes, PageSize)
  IN [view |-> v.id, base |-> v.revision, target |-> v.revision + 1,
      generation |-> r.generation, scope |-> r.scope, sequence |-> Latest,
      changes |-> [k \in selected |-> changes[k]],
      more |-> selected # DOMAIN changes, epoch |-> epoch]

AdvanceView(r) ==
  /\ ~ Refused(r)
  /\ Advances(r)
  /\ view' = AcknowledgedView
  /\ page' = NextPage(r, AcknowledgedView)
  /\ Reply(r, PageReply(NextPage(r, AcknowledgedView)))
  /\ UNCHANGED <<snapshot, nextId>>

Pull(r) ==
  /\ r.kind = "pull" /\ r.status = "authorized"
  /\ Refuse(r) \/ OfferSnapshot(r) \/ RepeatPage(r) \/ AdvanceView(r)
  /\ Environment

(***************************************************************************)
(* bootstrapLocked: entries of a snapshot, after some ordinal, in key      *)
(* order.                                                                  *)
(***************************************************************************)
SnapshotMatches(r) ==
  /\ snapshot # None
  /\ snapshot.id = r.snapshot
  /\ snapshot.scope = r.scope /\ snapshot.generation = r.generation
  /\ r.cursor = [view |-> snapshot.view, revision |-> 0]

\* after = ordinals already staged: afterOrdinal + 1
EntriesAfter(content, after) ==
  LET through == Lowest(Present(content), after + PageSize)
  IN [k \in through \ Lowest(Present(content), after) |-> content[k]]

\* Plausible bug: entries are sent as they were when the snapshot was made
EntriesUnchecked(r) == TRUE

EntriesValid(r) ==
  \A k \in DOMAIN EntriesAfter(snapshot.content, r.after) :
    snapshot.content[k] = Visible(r.scope)[k]

BootstrapPage(s, after) ==
  [tag |-> "BootstrapPage", manifest |-> Manifest(s), after |-> after,
   entries |-> EntriesAfter(s.content, after),
   more |-> after + PageSize < Manifest(s).count]

BeyondEntries(r) == r.after > Cardinality(Present(snapshot.content))

ServeSnapshot(r) ==
  /\ SnapshotMatches(r)
  /\ \/ BeyondEntries(r) /\ Reply(r, Answered("CursorGap"))
     \/ /\ ~ BeyondEntries(r) /\ EntriesValid(r)
        /\ Reply(r, BootstrapPage(snapshot, r.after))
  /\ UNCHANGED serverVars

ReplaceSnapshot(r) ==
  /\ SnapshotMatches(r) => ~ BeyondEntries(r) /\ ~ EntriesValid(r)
  /\ \/ /\ Superseded(r)
        /\ Reply(r, Answered("StaleReplicationScope"))
        /\ UNCHANGED serverVars
     \/ /\ ~ Superseded(r)
        /\ CreateSnapshot(r)
        /\ Reply(r, BootstrapPage(FreshSnapshot(r), 0))

Bootstrap(r) ==
  /\ r.kind = "bootstrap" /\ r.status = "authorized"
  /\ ServeSnapshot(r) \/ ReplaceSnapshot(r)
  /\ Environment

(***************************************************************************)
(* The client's catch-up loop.  Errors that retrying cannot repair end the *)
(* turn with a fault.                                                      *)
(***************************************************************************)
Send(r) ==
  /\ wire' = wire \cup {r}
  /\ turn' = TurnAt("waiting")
  /\ UNCHANGED <<session, due, restart, fault, failures>>

Continue(next) ==
  /\ turn' = next
  /\ UNCHANGED <<session, due, restart, fault, wire, failures>>

Fail(error) ==
  /\ turn' = Idle
  /\ fault' = error
  /\ UNCHANGED <<session, due, restart, wire, failures>>

Server == UNCHANGED <<spaceVars, policyVars, serverVars>>

\* A requested reconciliation starts: later requests cause another turn
Begin ==
  /\ turn.at = "idle" /\ due
  /\ turn' = TurnAt("pull")
  /\ due' = FALSE /\ fault' = None
  /\ UNCHANGED <<session, restart, wire, failures, clientVars>>
  /\ Server

SendPull ==
  /\ turn.at = "pull"
  /\ Send(PullRequest)
  /\ UNCHANGED clientVars /\ Server

SendBootstrap ==
  /\ turn.at = "bootstrap"
  /\ Send(BootstrapRequest)
  /\ UNCHANGED clientVars /\ Server

Received(tag) == turn.at = "received" /\ turn.reply.tag = tag

(***************************************************************************)
(* applyViewPage: the page must follow the installed cursor.               *)
(***************************************************************************)
Follows(m) ==
  /\ cursor = [view |-> m.view, revision |-> m.revision - 1]
  /\ m.more \/ m.sequence >= serverCursor

\* Plausible bug: the second catch-up is thought superfluous
OneCatchUp == Idle

\* sync catches up, submits pending mutations and catches up again
AfterCatchUp == IF turn.pass = 1 THEN [Idle EXCEPT !.at = "pull", !.pass = 2] ELSE Idle

ApplyViewPage ==
  /\ Received("PullPage")
  /\ LET m == turn.reply IN
     /\ m.generation = generation /\ Follows(m)
     /\ canonical' = Apply(canonical, m.changes)
     /\ retracted' = {k \in retracted : k \notin DOMAIN m.changes}
          \cup {k \in DOMAIN m.changes : m.changes[k].tag = "Retract"}
     /\ cursor' = [view |-> m.view, revision |-> m.revision]
     /\ serverCursor' = IF m.more THEN serverCursor ELSE m.sequence
     /\ Continue(IF m.more THEN TurnAt("pull") ELSE AfterCatchUp)
  /\ UNCHANGED <<world, generation, stage>>
  /\ Server

(***************************************************************************)
(* Bootstrap: validate the offered manifest, then stage it durably, page   *)
(* by page.  A snapshot replaced meanwhile is staged from its beginning.   *)
(***************************************************************************)
Desired(manifest) == manifest.generation = generation /\ manifest.scope = Scope

Offered ==
  \/ Received("BootstrapRequired")
  \/ Received("BootstrapPage") /\ turn.reply.manifest # turn.manifest

ValidateManifest ==
  /\ Offered
  /\ \/ /\ Desired(turn.reply.manifest)
        /\ Continue([TurnAt("prepare") EXCEPT !.manifest = turn.reply.manifest])
     \/ ~ Desired(turn.reply.manifest) /\ Fail("StaleReplicationScope")
  /\ UNCHANGED clientVars /\ Server

Staged == Cardinality(DOMAIN stage.entries)
StagedFor(manifest) == stage # None /\ stage.manifest = manifest

\* A stage of this very snapshot is resumed, any other is dropped
PrepareBootstrap ==
  /\ turn.at = "prepare"
  /\ \/ /\ StagedFor(turn.manifest)
        /\ Continue([TurnAt("bootstrap") EXCEPT !.after = Staged])
        /\ UNCHANGED stage
     \/ /\ ~ StagedFor(turn.manifest)
        /\ stage' = [manifest |-> turn.manifest, entries |-> [k \in {} |-> Absent]]
        /\ Continue([TurnAt("bootstrap") EXCEPT !.after = 0])
  /\ UNCHANGED <<world, generation, cursor, serverCursor, canonical, retracted>>
  /\ Server

PageOfStage == Received("BootstrapPage") /\ turn.reply.manifest = turn.manifest

StageEntries == [k \in DOMAIN stage.entries \cup DOMAIN turn.reply.entries |->
  IF k \in DOMAIN turn.reply.entries THEN turn.reply.entries[k] ELSE stage.entries[k]]

\* The checks of stageBootstrapPage: the page continues the staged entries
ContinuesStage ==
  LET m == turn.reply
      added == Cardinality(DOMAIN m.entries)
      complete == Staged + added = m.manifest.count
  IN /\ StagedFor(m.manifest)
     /\ m.after = Staged \/ added = 0
     /\ DOMAIN m.entries \cap DOMAIN stage.entries = {}
     /\ Staged + added <= m.manifest.count
     /\ complete \/ added > 0
     /\ m.more = ~ complete

StageBootstrapPage ==
  /\ PageOfStage
  /\ Desired(turn.manifest) /\ ContinuesStage
  /\ stage' = [stage EXCEPT !.entries = StageEntries]
  /\ Continue(IF turn.reply.more
                THEN [TurnAt("bootstrap") EXCEPT
                        !.after = @ + Cardinality(DOMAIN turn.reply.entries)]
                ELSE TurnAt("install"))
  /\ UNCHANGED <<world, generation, cursor, serverCursor, canonical, retracted>>
  /\ Server

Installable ==
  /\ StagedFor(turn.manifest)
  /\ Staged = turn.manifest.count
  /\ turn.manifest.sequence >= serverCursor

StagedContent ==
  [k \in Keys |-> IF k \in DOMAIN stage.entries THEN stage.entries[k] ELSE Absent]

\* What was canonical and is not in the snapshot is fenced by a retraction
InstallBootstrap ==
  /\ turn.at = "install"
  /\ Desired(turn.manifest) /\ Installable
  /\ canonical' = StagedContent
  /\ retracted' = (retracted \cup Present(canonical)) \ DOMAIN stage.entries
  /\ cursor' = [view |-> turn.manifest.view, revision |-> 0]
  /\ serverCursor' = turn.manifest.sequence
  /\ stage' = None
  /\ Continue([TurnAt("pull") EXCEPT !.manifest = None, !.after = 0])
  /\ UNCHANGED <<world, generation>>
  /\ Server

\* Errors of the server, and of the checks above, that end the turn for good
Refusals == {"StaleReplicationScope", "ProtocolInvalid", "StorageCorrupt", "CursorGap"}

Reject ==
  /\ \/ /\ turn.at = "received" /\ turn.reply.tag \in Refusals
        /\ Fail(turn.reply.tag)
     \/ /\ Received("PullPage") /\ turn.reply.generation # generation
        /\ Fail("StaleReplicationScope")
     \/ /\ Received("PullPage") /\ turn.reply.generation = generation
        /\ ~ Follows(turn.reply)
        /\ Fail("ProtocolInvalid")
     \/ /\ PageOfStage \/ turn.at = "install"
        /\ ~ Desired(turn.manifest)
        /\ Fail("StaleReplicationScope")
     \/ /\ PageOfStage /\ Desired(turn.manifest) /\ ~ ContinuesStage
        /\ Fail("ProtocolInvalid")
     \/ /\ turn.at = "install" /\ Desired(turn.manifest) /\ ~ Installable
        /\ Fail("ProtocolInvalid")
  /\ UNCHANGED clientVars /\ Server

\* A client that may not read the space keeps none of it
RevokeReplication ==
  /\ Received("AuthorizationDenied")
  /\ retracted' = retracted \cup Present(canonical)
  /\ canonical' = Nothing
  /\ stage' = None /\ cursor' = None
  /\ Fail("AuthorizationDenied")
  /\ UNCHANGED <<world, generation, serverCursor>>
  /\ Server

(***************************************************************************)
(* The application changes the scope; then it replaces the runtime, which  *)
(* interrupts the turn wherever it stands.                                 *)
(***************************************************************************)
SetScope ==
  /\ generation < Len(world.scopes)
  /\ ~ restart
  /\ generation' = generation + 1
  /\ stage' = None
  /\ restart' = TRUE
  /\ UNCHANGED <<world, cursor, serverCursor, canonical, retracted>>
  /\ UNCHANGED <<turn, session, due, fault, wire, failures>>
  /\ Server

Abandon ==
  /\ turn' = Idle
  /\ session' = session + 1
  /\ due' = TRUE /\ fault' = None
  /\ UNCHANGED <<wire, clientVars>>
  /\ Server

Restart ==
  /\ restart
  /\ restart' = FALSE
  /\ Abandon
  /\ UNCHANGED failures

\* The client crashes or gives up on an answer, and will try again
GiveUp ==
  /\ turn.at # "idle"
  /\ failures < world.failures
  /\ failures' = failures + 1
  /\ Abandon
  /\ UNCHANGED restart

(***************************************************************************)
(* The environment.  Every change is followed by a wake.                   *)
(***************************************************************************)
Wake ==
  /\ due' = TRUE
  /\ UNCHANGED <<turn, session, restart, fault, wire, failures>>
  /\ UNCHANGED <<serverVars, clientVars>>

Write(k, v) ==
  /\ Latest < MaxWrites
  /\ entities[k] # v
  /\ entities' = [entities EXCEPT ![k] = v]
  /\ log' = Append(log, k)
  /\ Wake
  /\ UNCHANGED <<floor, policyVars>>

Prune ==
  /\ floor' \in floor + 1 .. Latest
  /\ UNCHANGED <<entities, log, policyVars, serverVars, clientVars, loopVars>>

SetPolicy(mayRead, admits) ==
  /\ policies < world.policies
  /\ policies' = policies + 1
  /\ readable' = mayRead
  /\ admitted' = admits
  /\ granted' = granted \cup (mayRead \ readable)
  /\ Wake
  /\ UNCHANGED <<spaceVars, epoch>>

\* invalidateReadAuthorization, called after entities have been granted
InvalidateReadAuthorization ==
  /\ granted # {}
  /\ epoch' = epoch + 1
  /\ granted' = {}
  /\ Wake
  /\ UNCHANGED <<spaceVars, readable, admitted, policies>>

Init ==
  /\ world \in Worlds
  /\ entities \in Contents
  /\ log = <<>> /\ floor = 0
  /\ readable \in world.readers /\ admitted = TRUE /\ granted = {} /\ epoch = 0
  /\ policies = 0
  /\ view = None /\ page = None /\ snapshot = None
  /\ nextId = 1
  /\ generation = 1
  /\ cursor = None /\ serverCursor = 0
  /\ canonical = Nothing /\ retracted = {} /\ stage = None
  /\ turn = Idle /\ session = 0 /\ due = TRUE /\ restart = FALSE
  /\ fault = None /\ wire = {} /\ failures = 0

LoopStep ==
  \/ Begin \/ SendPull \/ SendBootstrap
  \/ ApplyViewPage \/ ValidateManifest \/ PrepareBootstrap
  \/ StageBootstrapPage \/ InstallBootstrap \/ RevokeReplication
  \/ Reject

ServerStep(r) == AuthorizeScope(r) \/ Pull(r) \/ Bootstrap(r)

Next ==
  \/ LoopStep \/ SetScope \/ Restart \/ GiveUp
  \/ \E r \in wire : ServerStep(r)
  \/ \E k \in Keys, v \in Values \cup {Absent} : Write(k, v)
  \/ Prune
  \/ \E mayRead \in world.readers, admits \in BOOLEAN : SetPolicy(mayRead, admits)
  \/ InvalidateReadAuthorization

Spec == Init /\ [][Next]_vars

\* The loop's fiber runs, the server answers the loop, the application's
\* setScope completes and it invalidates what it granted
Fairness ==
  /\ WF_vars(LoopStep) /\ WF_vars(Restart)
  /\ WF_vars(\E r \in wire : r.session = session /\ ServerStep(r))
  /\ WF_vars(InvalidateReadAuthorization)

FairSpec == Spec /\ Fairness

(***************************************************************************)
(* Properties.                                                             *)
(***************************************************************************)
Optional(S) == S \cup {None}
ChangeSet == [tag : {"Upsert", "Delete", "Retract"}, value : Values \cup {Absent}]
Partial(S, T) == UNION {[D -> T] : D \in SUBSET S}

Manifests == [id : Nat, view : Nat, generation : Nat, scope : SUBSET Keys,
              sequence : Nat, count : Nat]
Views == [id : Nat, revision : Nat, generation : Nat, scope : SUBSET Keys,
          content : Contents, server : Nat, delivered : Nat, epoch : Nat]
Pages == [view : Nat, base : Nat, target : Nat, generation : Nat,
          scope : SUBSET Keys, sequence : Nat, changes : Partial(Keys, ChangeSet),
          more : BOOLEAN, epoch : Nat]
SnapshotRecords == [id : Nat, view : Nat, generation : Nat, scope : SUBSET Keys,
                    sequence : Nat, content : Contents]
Stages == [manifest : Manifests, entries : Partial(Keys, Values)]
Requests == [kind : {"pull", "bootstrap"}, session : Nat,
             status : {"sent", "authorized"}, generation : Nat,
             scope : SUBSET Keys, cursor : Optional(Cursors),
             snapshot : Optional(Nat), after : Nat]

\* The absence of a record is told from every record
ASSUME NoneAssumption == None \notin Views \cup Pages \cup Manifests \cup Cursors

(* Every variable holds values of its type. *)
TypeOK ==
  /\ entities \in Contents /\ log \in Seq(Keys) /\ floor \in Nat
  /\ readable \subseteq Keys /\ admitted \in BOOLEAN /\ granted \subseteq Keys
  /\ epoch \in Nat /\ policies \in Nat
  /\ view \in Optional(Views) /\ page \in Optional(Pages)
  /\ snapshot \in Optional(SnapshotRecords)
  /\ nextId \in Nat
  /\ world \in Worlds /\ generation \in 1 .. Len(world.scopes)
  /\ cursor \in Optional(Cursors) /\ serverCursor \in Nat
  /\ canonical \in Contents /\ retracted \subseteq Keys
  /\ stage \in Optional(Stages)
  /\ session \in Nat /\ due \in BOOLEAN /\ restart \in BOOLEAN
  /\ wire \subseteq Requests /\ failures \in Nat
  /\ turn.pass \in 1 .. 2 /\ turn.manifest \in Optional(Manifests) /\ turn.after \in Nat

(* The server's record of the client is what the client holds: at the      *)
(* view's own cursor the acknowledged content, at the outstanding page's   *)
(* the content with that page applied, whichever replies were lost, given  *)
(* up on or answered late (a cursor at neither is given a new view).       *)
(* Without it a later page's changes would not be the ones it needs.       *)
ViewAgrees ==
  cursor # None /\ view # None /\ cursor.view = view.id =>
    /\ cursor.revision = view.revision => canonical = view.content
    /\ page # None /\ cursor.revision = page.target =>
         canonical = Apply(view.content, page.changes)

Sent(m) ==
  CASE m.tag = "PullPage" ->
         {<<k, m.changes[k].value>> : k \in {j \in DOMAIN m.changes :
                                              m.changes[j].tag = "Upsert"}}
    [] m.tag = "BootstrapPage" -> {<<k, m.entries[k]>> : k \in DOMAIN m.entries}
    [] OTHER -> {}

(* Whatever is sent to the client, also a page sent before or an entry of  *)
(* an old snapshot, is its current value and readable when it is sent.     *)
OnlyVisibleIsSent ==
  [][turn.at = "waiting" /\ turn'.at = "received" =>
       \A pair \in Sent(turn'.reply) :
         pair[1] \in readable /\ entities[pair[1]] = pair[2]]_vars

Expected == IF admitted THEN Visible(Scope) ELSE Nothing

(* Once the space, the policy and the scope stay as they are, the client   *)
(* ends up with exactly what it may see in its scope.                      *)
Converges == <>[](canonical = Expected)
=============================================================================
