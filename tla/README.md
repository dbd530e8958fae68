# Verification of effect-local

effect-local is an offline-first replication library for TypeScript.  Clients
keep a SQL replica of a *space*, apply named mutations optimistically, submit
them to a server that decides each exactly once, and receive pages of changes
filtered by a replication scope and a read policy.  The modules in this
directory model the parts whose correctness depends on the order of the steps
of several actors.  TLC checks them on small instances, and TLAPS proves the
central properties of some of them for every instance.

## The system

| Part (sources under `src/packages/`) | State | Operations | What is hard |
|---|---|---|---|
| Server store (`local-sql/src/ServerStore.ts`) | accepted log, receipts, entities, floors, snapshots, per-lineage counters | admit, discard, compact, maintainAll, prepareSnapshot, publish, pruneBatch | admission and two maintenance passes interleave transaction by transaction; COMMIT replies are lost; retries arrive after pruning |
| Scoped replication (`local-sql/src/internal/scopedReplication.ts`) | per client: view, acknowledged entities, one outstanding page, one snapshot | pull, bootstrap | lost and late answers, policy changes between two sendings, scope changes in the middle of a series |
| Server indexes (`internal/serverIndex.ts`, `indexComponents.ts`, `Migrations.ts`) | catalog, index tables, partition log | install, render, fill, maintain, prune | releases with other indexes share one database; a delta must equal a comparison of the whole window |
| Client store (`local-sql/src/LocalStore.ts`) | canonical and optimistic entities, pending queue, receipts, cursor, bootstrap stage, retraction fences | mutate, claimSubmitBatch, persistReceipts, settlement, applyViewPage, bootstrap staging, setScope | receipts and pages arrive in any order; a crash or a storage error between any two transactions |
| Reconciler (`local-sql/src/Reconciler.ts`) | requested and completed generations, queue, retry and credential state | notify, sync, runTurn, watch, scheduleRetry | requests during a turn, failures that halt, credential waits |
| Replica facade (`local-sql/src/SqlReplica.ts`) | entries, residents, permits, queue of background work | join, leave, setScope, activate, deactivate | replacing a runtime while it works; slots and permits that wait for one another |
| Schema evolution (`local-sql/src/SchemaEvolution.ts`) | active and building generation, progress | begin, copy in batches, flip, clean up | crash and resume between batches; several server processes of different releases drive one promotion |
| Offline wake (`internal/offlineWake.ts`) | space and client wakes, claims, presence leases, acknowledgements | enqueue, expand, claim, deliver, registerWatch | leases that expire during a delivery, acknowledgement racing an enqueue |
| Live watches (`ServerStore.ts` watch, `internal/readAuthorization.ts`, `internal/wakeVisibility.ts`) | pending and cached lookups, generations, wake buffers, evaluation slots | watch, refresh, publish, evaluate | shared policy calls that are older than the question; published wakes that are dropped |
| RPC (`local-rpc/src/SyncClient.ts`, `ProtocolSession.ts`, `internal/protocolSocket.ts`) | connection, negotiated version, admission of bootstrap pages | negotiate, call, retry, reject | one renegotiation shared by concurrent calls while servers of two releases answer |
| Ephemeral channel (`local-rpc/src/EphemeralHub.ts`, `EphemeralClient.ts`) | revisioned presence entries, leases, sliding queues | join, publish, update, heartbeat, expire | dropped messages, gaps, rejoin |
| Browser (`local-browser/src/internal/*`) | leader and runner locks, terms, proxies, membership caches | lead, drain, fence, retry, subscribe | a tab that closes or hands over while its handlers run |
| Primitives, mutation runtime, Expo adapter, React bindings, fixtures, chat example | - | - | outside the protocol, see *Not modelled* |

A client's reconciler calls `pull`, `bootstrap` and `submitBatch` of the server
through the RPC packages, and hands the answers to its local store.  A
submission becomes `ServerStore.admit`; an accepted one appends to the log,
wakes the watches and enqueues offline wakes.  The next `pull` reads log,
indexes and entities through the scoped replication of the same database.  Every
request of a server first prepares its space, which may begin or go on with a
promotion.  In a browser one tab owns the client's database and the others are
its proxies.  `PROJECT.json` lists every component with what is and is not
modelled, and the hazards with the properties that guard against them.

## Modules

| Module | Models |
|---|---|
| `MutationLedger` | abstract: an append-only ledger of decisions, and answers that are truthful about it |
| `ServerStore` | admission, discard, receipts, snapshots, both maintenance passes, crashes |
| `ServerStoreProofs` | its inductive invariant, the proved properties, the refinement of `MutationLedger` |
| `ScopedReplication` | one client's view of a space: pull, bootstrap, cursor, pages, staging, scope changes, revocation |
| `MutationOutbox` | abstract: what is committed is decided in order and reported once |
| `LocalStore` | the client's durable store: mutations, receipts, settlement, projections, pages, crashes |
| `LocalStoreProofs` | its inductive invariants, `NothingMissed`, `VisibleIsReplay`, `WritesStay`, the refinement of `MutationOutbox` |
| `Reconciler` | the manager of reconciliation of one space |
| `ReconcilerProofs` | its inductive invariant and the proved properties |
| `SchemaUpgrade` | abstract: a space changes schema at once and keeps every entity |
| `Batches` | what both promotions share: rows are taken in order, a bounded number at a time |
| `ServerPromotion` | the promotion of a server space by requests of several processes |
| `ClientPromotion` | the promotion of a client's copy, cut anywhere and resumed by any version |
| `SchemaPromotionProofs` | the inductive invariants of both promotions, the proved properties, the refinement of `SchemaUpgrade` |
| `SpaceResidency` | which spaces have a live runtime |
| `ReplicationAndResidencyProofs` | the inductive invariants of `ScopedReplication` and `SpaceResidency` and their proved properties |
| `WindowIndex` | server indexes, their releases, windows and the deltas derived from them |
| `OfflineWake` | durable wakes, claims, presence |
| `WakeAndWindowProofs` | the inductive invariants of `WindowIndex` and `OfflineWake` and their proved properties |
| `EphemeralChannel` | the hub and its sessions |
| `BrowserReplica` | owner, hosts and proxies in the tabs of one origin |
| `BrowserReplicaProofs` | its inductive invariant and the proved properties |
| `RpcSession` | the calls of a client over one socket |
| `LiveWatch` | the watches of one space on the server |
| `LiveSyncProofs` | the inductive invariants of `RpcSession`, `LiveWatch` and `EphemeralChannel` and their proved properties |
| `MC*` | finite instances; `MCSchemaPromotion` and `MCLiveSync` put two modules that share no variable side by side |

### ServerStore

Each transaction is one action; what the code does between two transactions can
interleave.  A caller (`calls[c].pc`) goes from `Lookup` (the receipt lookup
outside the transaction) to one of `TransactReadOnly`, `Admit`, `Discard`, the
outcomes of the transaction, and to `RequestCompaction` if its admission crossed
the high-water mark.  `Interrupt` drops a caller: before its transaction, or
after it committed with the answer lost.  Two passes, the compaction an
admission starts and the periodic sweep, each go through `CheckSnapshot`,
`PrepareSnapshot`, `PublishSnapshot`, `PruneBatch` and `EndPass`; `FailPass` is a
database error, `Crash` forgets all but the tables.  An envelope carries one key
and value as its effect; whether the application accepts it is free.
`decided`, `reply` and `missed` are history variables.

`MutationLedger` has just the ledger and the last answer: `Decide` appends,
`Answer` says something true.  `Expired` may be said of a decided sequence with
a watermark that covers it.  `LedgerSpec` says `ServerStore` implements it with
the identity mapping: retries, pruning, crashes are stutters or true answers.

### ScopedReplication

The server side is `pullLocked` and `bootstrapLocked`, each one transaction,
after `authorization.scope` outside it (`AuthorizeScope`).  `Pull` is one of
`Refuse`, `OfferSnapshot`, `RepeatPage`, `AdvanceView`, with the code's
conditions named: `Reusable`, `Recognized`, `AcknowledgesPage`, `PageSafe` and
so on.  `view.content` is `effect_local_server_replication_view_entities`,
`page` the one row of `effect_local_server_replication_pages`.  The client side
is the loop of `sync` (two catch-ups; `turn.pass`), with one action per
transaction of `LocalStore`.  `Restart` is what `SqlReplica.setScope` does next:
it replaces the runtime, which interrupts the turn.  `GiveUp` is every other way
a turn ends without its answer (crash, timeout, closed socket).  In both cases
the request stays in `wire` and may be served at any later time, or never.

Abstracted: one client, one principal and membership, a current schema, a scope
is a set of keys, digests and byte counts are consistent.  Every change of
entities or policy is followed by a wake (the watch notifies of writes, and
`readAuthorizationRefreshInterval` repeats it for policy changes).  An
invalidation is called after every grant, as the repository's README asks
(README.md:407-412); `granted` remembers grants not yet announced, which a delta
is allowed to miss.

### LocalStore

An entity is the set of mutations that wrote it, which is what the properties
need to tell a projection from the replay it should equal.  `Mutate` is
`mutateInTransaction` with its duplicate checks; `ClaimSubmitBatch`,
`ServerAnswers`, `ReceiveAnswers`, `PersistReceipt`, `SettleReceipts`,
`DeleteSettled` follow a mutation to its settlement; `ApplyViewPage`,
`InstallBootstrap` and `RevokeReplication` change the canonical entities.  Each
of them ends in a projection: `ApplyDelta` recomputes what changed,
`RebuildStep` (`CleanTarget`, `CopyCanonical`, `ReplayPending`, `Promote`) builds
a new projection generation batch by batch and may be cut at any of them.  The
projection gate (`gate`) is held over several transactions, as in the code.
The server is the environment: it decides in local-sequence order, may reject,
lets receipts lapse, and sends pages and manifests whole.  `MutationOutbox` is
implemented with `decided` as the outcomes: whatever crashes, a mutation is
decided in the order of commits, and settled once with that decision or as
`Expired`.

### Reconciler

Two durable numbers, `requested` and `completed`; a queue of turns, workers, a
retry timer, a gate for credentials, a watch, and callers.  Requests shared by
fibers (`pending`, `call`), an activation's work that is counted and cut when it
is replaced (`unregister`, `epochs`), and turns (`turn`) are modelled at the
points where fibers may be suspended.  A sync succeeds or fails with a class of
`failureClasses`.

### ServerPromotion, ClientPromotion

On the server a request walks through `server()`: read the progress, read the
space, `BeginPromotion`, reread, then batch after batch (`ReadState`, `ReadRows`,
then a transaction that validates what was read: `LogBatch`, `EntitiesBatch`,
`Flip`, `CleanupScoped`, `CleanupEntities`, `Finalize`).  Any number of processes
of any versions do so at once, each may be interrupted, and between two
statements of one anything may happen.  `Admit` and `Replicate` are the writers
of a prepared space, with the validation `ServerStore` and `scopedReplication`
do in their transactions.  `ImplementsUpgrade` maps the entities a reader finds
(those of the active generation) to `SchemaUpgrade`, in which one step changes
them all.

At a client one application owns the database, so a batch is a step.  The
initial states are all that a store of the first version can leave; applications
of three versions start, are cut and start again.  `ShownIsReplay` says that the
promoted store shows its canonical entities and pending mutations under the new
handlers.

### SpaceResidency, WindowIndex, OfflineWake, EphemeralChannel

`SpaceResidency`: an entry per space with its activation, the foreground slots
and the background permits, callers that activate, use, deactivate and leave,
workers that take spaces from the queue.  `live` is the scope that is really
open.  A space that was left is not joined again; statements other than the
`DELETE` of a leave do not fail; the workflow layer is left out.

`WindowIndex`: `Boot` is `make` with "apply" under the schema lock, `BootVerified`
with "verify", `Render` and `ApplyScript` the rendered migration.  An index
table is filled for a space by the first request that reads it and maintained
afterwards only by processes whose definition has it.  `PullWindow` answers with a
delta of the touched partitions or a bootstrap.

`OfflineWake`: each transaction and each statement outside one is a step of a
dispatcher (`ClaimSpace`, `Resolve`, `Expand`, `ReleaseSpace`, `ClaimWake`,
`Check`, `Send`, `Record...`), of a watch (`Register`, `Finalize`) or of a
process' heartbeat.  A lease ends when it may; back-off only delays, and is left
out, and so are batch limits.

`EphemeralChannel`: the hub's steps are those under the gate of the space;
sessions join, follow, slide, rejoin.  Limits, byte counts, authorization of
entries, watchers without a session and the sharing of sessions are left out.

### BrowserReplica, RpcSession, LiveWatch

`BrowserReplica`: candidacy, the FIFO leader lock, a term with its fence and its
drain (`replicaOwner`), the presence of builds (`buildGate`), fenced handlers and
those that may run while draining (`replicaHost`), calls sent again after a
handover under one mutation id, the membership cache with its epoch and its
stream of invalidations (`replicaProxy`), and the cleanup of a leave that an
owner's death cuts.  A closed tab vanishes with its locks at once; a request
that reaches a host without a term counts as not yet sent; opening a tab and
taking its presence lock is one step.

`RpcSession`: `protocolSocket` (one connection, pings, requests that fail with
it), `ProtocolSession` (negotiation under a gate), `withProtocolSession` (the one
retry), bounds on calls, credentials that are refused, admission of bootstrap
pages.  Every connection may reach a server of another release.

`LiveWatch`: the lookups of `readAuthorization` with time in units, their cache
and their generations, the monitor of a watch, the wakes with their sliding
buffers, the slots and the shared evaluations of `wakeVisibility`.

## What the runs check

| Run | Instance | Properties |
|---|---|---|
| `server_store` | 2 callers, 1 lineage with 3 envelopes (two share an identity), a discard, limits of 0 to 2, batches of one, 1 failure | `TypeOK`, `NeverCorrupt`, `StateIsReplayOfLog`, `RestsBelowHighWater`, `LedgerSpec`, `BackpressureClears` |
| `replication` | 2 keys, pages of one, 1 write; policy changes, or scopes narrowed and replaced, or 2 lost answers | `ViewAgrees`, `OnlyVisibleIsSent`, `Converges` |
| `replication_scope_restored` | 3 keys, scope narrowed to 1 and restored, nothing else happens | `Converges`, violated: see *Findings* |
| `client_settlement` | 2 mutations of one entity, the second fails without the first, pages of one, 1 foreign write, policy change, failure and lapse | `VisibleIsReplay`, `NothingMissed`, `WritesStay`, `ImplementsOutbox`, `EverySettled` |
| `reconciler_turns` | 1 caller, 1 worker, watch, retry, credential, 2 registrations, 1 failure | `CompletedWasCovered`, `RequestsComplete` |
| `schema_promotion` | server: 1 old and 2 new processes, 2 entities, 1 write, 1 interruption; client: 3 versions, 2 mutations, 1 cut | `ViewsAreCurrent`, `NothingLost`, `ShownIsReplay`, `ImplementsUpgrade`, `PromotionEnds` |
| `space_residency` | 2 callers, 2 spaces, 1 foreground slot, 2 permits, 1 worker, 3 calls, 1 disturbance | `NothingStranded` |
| `window_deltas` | 2 keys, 1 window, 3 releases, 2 processes, 3 writes, 1 script | `WindowIsShown`, `DeltaIsExact` |
| `offline_wakes` | 1 client, 2 processes, 1 watch, 2 writes, 2 disturbances | `PushIsForTheOffline`, `FreshWorkHasFreshIdentity`, `EveryWriteIsHeardOf` |
| `ephemeral_presence` | 2 sessions, queues of 2, 2 profiles, 1 publication, 1 disturbance | `ViewTracksHub`, `UpdatesHold`, `PresenceConverges` |
| `browser_tabs` | 2 tabs, the same or a later build, 1 disturbance | `OnlyTheLeaderWrites`, `OncePerCall`, `CacheIsWarned`, `EveryCallEnds`, `VisibleTabLeads` |
| `live_sync` | 2 callers, 2 releases of the server, 3 troubles; 2 watches in 6 situations | `RejectedByChangeOnly`, `RevokedIsClosed`, `CommitsReachTheWatch`, `EveryCallSettles`, `EveryCommitIsHeard` |

**What they show.**  *Server store*: it never runs into its own corruption
checks; entities and snapshots are the replay of the accepted prefix; answers to
retries never disagree with the decision; no compaction request is lost but in
one excluded window (see *Observations*); a full store makes room again.
*Replication*: what the client acknowledged is what the server believes it
holds; nothing unreadable or outdated is sent, also when something recorded is
sent again; once the environment rests, the client holds exactly what it may
see.  *Client*: what the application sees is canonical state with the pending
mutations on top, whichever projection made it; a mutation's writes stay visible
until their effect is canonical; a reader that missed a settlement is told; a
mutation is decided in order, settled once, and in the end.  *Reconciler*: a
generation is completed only by a sync that began after it was requested, and
requests complete.  *Promotion*: readers see one change of schema with every
entity; nothing of the old schema is left; a cut promotion is resumed and ends,
and the waiting mutations are pending or in quarantine.  *Residency*: no call
and no pending space is forgotten.  *Windows*: a delta derived from the touched
partitions is the difference of whole windows, over releases that change the
indexes.  *Wakes*: nobody who watches is pushed to; new work has an identity the
provider has not seen; every write is heard of.  *Presence*: a view is behind by
what is in its queue and nothing else; no older profile comes back; views
converge without ghosts.  *Browser*: one tab works on the database; calls end and
take effect once; a membership cache was warned or is warned soon; a visible tab
leads.  *Sessions and watches*: only a deployment that changes makes a call fail
for its version; a revoked watch closes within three halves of the interval; no
commit its client may see goes unheard.

**Bounds.**  The hazards need two of something: two callers that race on one
envelope, two passes, two processes that drive one promotion, two tabs.  A store
of at most one receipt and two log entries is full after a mutation or two, and
with batches of one every pruning and every promotion has a state in the middle.
Two keys and pages of one make every snapshot, diff and retraction two pages, so
that a first is acknowledged and a second is not.  One write is enough for a delta
and, with a page outstanding, for a stale one.  Two mutations of one entity, the
second of which needs the first, are the smallest in which the order of replay
shows.  Queues of two slide with the third message.  Three releases are needed for
an index that goes away and comes back in another form, and for an application
that skips a version.  `Max...` constants bound the environment (calls, writes,
failures, policy changes, registrations, cuts) and never the system itself.
Larger instances passed outside the listed runs: `WindowIndex` with 3 keys (7.2
million states), `Reconciler` with 2 callers and 2 workers (10.3 million),
`BrowserReplica` with 2 disturbances (1.3 million, safety only), `RpcSession` with
3 releases and 4 troubles (1 million), the invariant of `ServerPromotion` with
three versions.  Two lineages, and the clone of a client, are not in the instance
of `server_store`; its theorems are for any lineages.  `SYMMETRY` is used only in
`window_deltas`, which has no liveness.  `SpaceResidency` has one branch no state
of its instance reaches: `EnsureCapacity` with a victim that was left.

**Deadlock** is checked in `schema_promotion`.  Elsewhere a system without work, or
an environment at its bound, rests.

**Fairness.**  Fibers that can run do (weak fairness of the steps of calls, passes,
turns, handlers, hub, monitor and dispatchers), because the runtime schedules
them and the database answers.  Timers fire: the periodic sweep, retries,
heartbeats, claims and leases that end, pings.  Messages arrive or their
connection is lost.  The application is never forced to call, write, watch, show a
tab, refresh a credential or change a policy, with two exceptions: after a grant
it calls `invalidateReadAuthorization`, as the README of the repository asks, and
a client's promotion ends under the strong fairness of opening each version,
since without an application nothing runs.  Failures, crashes, lost answers and
old requests have no fairness and are bounded: retries in the code have no limit.

**Assumptions by name.**  `Overtakes = FALSE` (`ServerPromotion`): no promotion
ends while a process that read the space in the middle of it has yet to act on
what it read; see *Observations*.  `RollingBack = FALSE` (`WindowIndex`): a
release is not deployed after a later one.  `NeverRestored` (the same module): no
release brings back an index that an earlier one had and one between them has not,
nor all the indexes of such a release; the hypothesis of the theorems of
`WakeAndWindowProofs` about windows, evaluated for the instance by `MCWindowIndex`.  What happens
without either is in *Observations*.  `RevokedIsClosed` needs timers on
time.  `ShownIsReplay` is stated for copies without receipts ahead of their page.

**Mutants.**  For every property of a passing run PROJECT.json names a plausible
bug of one definition under which TLC finds the property violated: a dropped
recheck, a floor taken at the head, a page repeated unchecked, a receipt settled
ahead of its page, a lock given back before the last handler, a stream whose gap
is not noticed.

## What is proved

The theorems hold for every value of the constants that satisfies the named
`ASSUME`s of the modules, and for any number of failures; TLC evaluated those
assumptions in the runs.

**`ServerStoreProofs`**, for every set of callers, lineages and envelopes and every
retention option: always `TypeOK`, `DecidedInOrder`, `AnswersAreDecisions`,
`ExpiredIsCovered`, `NeverCorrupt`, `FloorsBehindSnapshot`, `LogAboveFloor` and
`StateIsReplayOfLog` (`TypeCorrect` ... `ReplayCorrect`), and `Refinement ==
Spec => LedgerSpec`.  None of them is inductive.  `IndInv` strengthens them with

- `Numbering`: decisions are numbered by terminal sequence, accepted ones by
  server sequence, without holes;
- `Ordering`, `Watermarks`: a lineage's decisions are exactly the sequences up to
  `last`, and `expired` never exceeds it;
- `Retained`, `Fenced`: a retained receipt is a decision, and one that is not
  retained is at or below its lineage's `expired` watermark *and* at or below the
  receipt floor, which is why a retry after pruning is answered `Expired`;
- `Covered`: the floors are behind the published snapshot, whose heads are behind
  the counters, and above the history floor the log is whole;
- `Candidates`, `Committed`, `Outcome`: what a pass or call in flight carries over
  its next transaction is still true when it uses it.

`ReplayInv` adds what a replay needs: entities, the published snapshot and the
candidates that passes are about to publish are each the last accepted writes up to
their own head.  `LastWrite` is a choice of the greatest sequence and not a
recursion, so that appending a decision changes it as the code changes the row.
`StepRefines` maps every step to a ledger step or a stutter.

`RestInv` is about maintenance: until a failure, or a request in the gap after the
last rerun, a space at or above a high-water mark has a call that is about to ask for
a compaction, or the compactor will prune behind a snapshot of the heads, or has been
asked to repeat (`WillPrune`).  A batch that comes back short has taken everything
(`LowestIsAll`), and what is beyond the floors is counted by sending each receipt to
its terminal sequence and each log entry to its server sequence, one to one.  At rest
there is neither, hence `RestsBelowHighWater` (`RestCorrect`).

**`ReconcilerProofs`**, for any callers, workers, failures and restarts: always
`TypeOK`, `OneSync` (one turn synchronises at a time) and `CompletedWasCovered`.
In `IndInv`, `Belonging` says that what runs, waits or is timed belongs to a
registration, `Bounded` that the generation a turn will complete is at most what had
been requested when its sync began and, once that succeeded, at most what syncs have
`covered`, and `Ordered` that `completed` never passes `covered`, nor that
`requested`.  A generation asked for in the middle of a sync is above its target.

**`SchemaPromotionProofs`**.  For the server, under `~Overtakes`, for any processes
and any increasing versions: always `ViewsAreCurrent`, and `ImplementsUpgrade`.
`ServerInv` has two halves.  `Database` speaks of the tables alone: the two
generations agree on what has been copied (`Copied`, `Counted`), views belong to
the generation that made them (`Views`).  `Requesting` speaks of a process between
two statements: what it read of the space and of the progress is what is there, or
progress has moved on (`SeenSpace`, `SeenProgress`).  Progress never comes back, so
a process whose transaction finds the progress it read has read the next rows
(`Read`), however many others drive the same promotion.  `PromotionIsUpgrade` then
maps `Admit` to a write of the abstract space, `Flip` to its upgrade, and everything
else to a stutter.

For the client, for any releases, mutations and handlers, any size of batches and any
number of stops: always `NothingLost` and `ShownIsReplay`.  `ClientInv` says of the
open generation what they say (`Open`), of the space's row and its promotion that they
are of one promotion with room for its generation (`RowsAgree`), and of the new
generation, until the flip, that it has exactly what the cursor has passed (`New`):
keys copied, receipts told, fences set, and of the pending rows those that are not in
quarantine, in order, with what is shown a replay of them under the new handlers.
`Continued` is the arithmetic of cursors: what a batch passes is the batch, whether it
moves the cursor or ends the phase.  `RowsDone` follows the rows of a batch one by one
(the least at which it would fail, as for the sequences below), with `ReplayAppend`: a
row at the end is replayed last.  Why the receipts must not be ahead of their page is
plain there: such a row is carried without being run, and a replay would run it.
Replays are recursive functions and no folds, which is what lets the prover see them;
`Ascending`, the order rows have at the start, is a choice whose existence is proved
(`AscendingExists`).

**`ReplicationAndResidencyProofs`** has two independent invariants.

`IndInv` of `ScopedReplication`, for any finite set of keys, any values, policies and
scopes, every page size and however many requests are lost or served late: always
`TypeOK` and `ViewAgrees`, and `OnlyVisibleIsSent` as an action property.  That
server and client agree is not inductive, because the server learns what the client
holds from requests that may be long out of date.  `IndInv` strengthens it with

- `LoopInv`: what the client's loop carries at each of its places;
- `ServerInv`: view and snapshot are made together under one identity; the
  outstanding page is the next revision of the view; until a page has been
  acknowledged the view holds the snapshot; what a page inserts exists;
- `ClientInv`: cursors, manifests, entries and pages, held or in transit, know no
  view that has not been made, and of earlier views nothing is claimed.  No cursor is
  above the outstanding page (`KnownCursor`), staged entries are those of the snapshot
  (`KnownEntries`), and a page in transit is the outstanding one or was acknowledged
  meanwhile by an older request, in which case applying it gives what the view
  already holds (`KnownPage`).

An install is of a stage with as many entries as the manifest counts: entries of the
snapshot, as many as it has, are the snapshot.  For `OnlyVisibleIsSent`,
`OnlyServerAnswers` shows which steps answer and `SentVisible` that a repeated page or
snapshot has passed its checks against the policy and entities of now, while derived
changes insert only what can be read.  The one assumption added to the module for
the proof is `NoneAssumption`: the absence of a record is told from every record.

`ResidencyInv` of `SpaceResidency`, for any spaces, callers and workers, any numbers of
slots and permits with no more workers than permits, and any number of calls,
interruptions and failures: always `InUseIsOpen` and `LeasesAreCounted`
(`RuntimesInUseStayOpen`), `OneTransition`, `WithinCapacity` and `EveryWakeupIsOwed`.
These five are defined beside their proofs; TLC found them, and `ResidencyInv`, true
of the instance of `space_residency`.  None of them is inductive: an entry is read by a
fiber that may long have gone elsewhere, so the invariant says of each point of a call
what must be true of the space it is at.

- `FibersInv`: at which points which calls may be, and where they go on after waiting.
- `SpacesInv`, of each space (`SpaceInv`): leases are as many as the fibers that use the
  runtime, and those use it while it is active (`CountInv`, `HolderInv`); an entry is in
  transition exactly while one fiber opens or closes it (`TransitionInv`); the scope
  that is open follows from the activation and the place of that fiber (`ScopeInv`); a
  page read, which takes no lease, keeps a closing fiber where it is (`ReaderInv`); a
  foreground runtime has its slot from before it is built (`SlotInv`).
- `PermitsInv`, `ResidentsInv`: open background scopes are within the permits;
  residents occur once, only residents have slots, and no more than there are.
- `AwaitsInv`: what a waiting fiber saw when it decided to wait is still so.  A step
  changes it only when it also wakes those who wait (`Signalled`, `Completed`).

The steps are of three kinds, with a lemma each: those that take and give back nothing
(`QuietStep`), those that change who is at one space and leave its runtime
(`StirringStep`), and those that change a runtime or a slot and wake the others
(`WokenStep`).

Two calls that race for the last slot are the hard case (`EnsureCapacity`): the victim
is looked for in the order of use (`LeastRecentlyUsed`, whose choice exists by well
founded induction on positions), its reservation is dropped, and its entry is marked
before any other fiber can look.  `EveryWakeupIsOwed` says that somebody else has still
to move; that whoever it is can move is left to `NothingStranded`.

**`BrowserReplicaProofs`**, for any tabs and builds, whatever the applications call
and however often tabs close, show and hide: always `OnlyTheLeaderWrites`,
`OncePerCall`, `CacheIsWarned`, and `OneReplica` (two handlers that run are on one
tab's replica).  The only assumption besides those about the calls is that `None`
names neither a tab nor a call.  `IndInv`:

- `LockInv`: the queue of the leader lock has each waiting tab once, and only its
  first works;
- `TermInv`: handlers run, and a leave cleans up, only on a replica that a term
  has lent (leading, draining or fenced);
- `ChannelInv`: the end of a stream is its last message, and there is one answer;
- `AnswerInv`: an answer on its way is the answer to the call as it is now, of the
  host it went to; without this a late answer could end the retry of its call;
- `CallInv`: effects are what has been recorded under the mutation's id, and a
  publication has more than one only after its tab closed;
- `StreamInv`: a stream is served by an active term, its messages come from where
  the tab is subscribed, and one that has ended says so unless its tab closed;
- `MemoryInv`: what a proxy remembers, or will when an answer arrives, it remembers
  under a stream; once the space is gone a warning is under way on it.

**`WakeAndWindowProofs`** has two independent invariants.

`IndInv` of `OfflineWake`, for any clients, processes and watches and any number of
writes, crashes, failures, lapses and changes of membership: always
`PushIsForTheOffline`, `FreshWorkHasFreshIdentity`, and `NothingForgotten`
(`WorkIsKept`): a write that a member has neither been told of nor acknowledged is
ahead of the expansion of the space, or a wake that is yet to be delivered covers it.
That is the safety half of `EveryWriteIsHeardOf`.  Its parts:

- `Bounds`, `Identities`: nothing is ahead of the high water of the space, nor an
  identity of the last one made;
- `SpaceClaimed`, `WakeClaimed`: a claim by a process that runs is what its worker is
  doing, with the identity the wake still has, and the wake is still to be told of.
  This is why recording a delivery, which checks the claim, records that identity;
- `PresenceInv`, `Offline`: a ready watch is in the database under a lease that lives,
  unless the lease once ran out, and is not there while a claim of its client's wake
  lives.  The claim checks the presence and the registration checks the claim, each in
  one statement, so neither has to know of the other's process;
- `Owed`, `Found`: what is owed is after what was acknowledged or told; recipients
  found before an expansion include everyone owed something it covers, and an outcome
  found before it is recorded holds of everything up to the write it was claimed for.

`IndexInv` of `WindowIndex`, for any keys, partitions, releases, processes, mutations and
sizes of windows, pages and log suffixes, if releases go forward (`~RollingBack`) and
restore nothing (`NeverRestored`): always `DeltaIsExact` and `WindowIsShown`.
It strengthens them with

- `CatalogInv`: the catalog is that of the last release installed, a later release
  that already runs has the same indexes, and what is filled is maintained by the
  process that serves;
- `ScriptInv`: a script that can still be applied was rendered against this catalog,
  for a later release;
- `TableInv`: a table that is filled has the entities, and an index of the view is
  filled or `Retired` for good;
- `ShownInv`: what the client will hold once what is in flight has arrived is right
  (`UpToDate`) in every partition no change in the log has touched since, and for every
  key that has not changed.

Windows are not counted.  Whether a key is in its window depends on the content of its
partition alone (`SameWindow`), and both the code and the model rederive a partition
that a change touched; so it is enough that every partition that differs has been
touched.  `NeverRestored` is used twice, when the space moves to another catalog and
when an index goes: with a restored index the two contents differ in partitions that
nothing in the log names.

**`LiveSyncProofs`** has three independent invariants.

`SessionInv` of `RpcSession`, for any callers, releases of the server and number of
troubles: always `RejectedByChangeOnly`.  Its parts are `Shared` (a version agreed over
the connection that lives is one the release behind it serves), `AnswersAgree` (an
answer on the wire was given by the release its connection reaches), `SecondAttempt`
(a second attempt goes with another version than the first or over another
connection) and `Explained` (a call rejected in the end carried a version agreed on
over another connection than its last, and its second attempt another version or
connection than the first).

`WatchInv` of `LiveWatch`, for any watches, keys, number of commits and interval: always
`RevokedIsClosed` and `CommitsReachTheWatch`.  The first needs time: `Clock` and
`Leases` say that what has passed since a watch was last found readable and what is
left of that success never add up to more than three half intervals, lookups in
flight included.  The second is in `WatchInv` itself; what it needs is `Visibility`:
a watch is owed only commits of its key, what it evaluates was made, and what it
found hidden it may indeed not see.

`ChannelInv` of `EphemeralChannel`, for any clients, profiles, states, publications,
disturbances and capacity of the queues: always `ViewTracksHub` and `UpdatesHold`.

- `Numbered`: a queue holds the last messages of the hub with consecutive revisions,
  and an empty one has nothing left to bring.  A queue that slides therefore drops
  the oldest, and what it drops is either already applied or leaves a gap at its head.
- `FollowInv`: what a session shows (before its stream starts, the snapshot it will
  start from), once the messages still missing are applied, is what the hub has; or
  none of them is the next one, and the first delivery ends the session.  Messages
  are not applied one by one for this: for each member and each state the last
  message about it decides (`Brings`), which needs no induction over the queue.
- `ProfileInv`: every profile that can still reach the roster (the one a join will
  use, the one in an update on its way, the one applied but not answered) is one the
  application may expect.  It holds because a session does not join while an update
  is under way (`MayJoin`), so an update belongs to the session that is live.

**`LocalStoreProofs`**, for any mutations, handlers, limits, sizes of batches and
pages, and any number of writes, failures, crashes, policies and lapses of receipts:
always `NothingMissed`, and `ImplementsOutbox`; and, unless storage cuts short the
rebuild of an installed snapshot, `VisibleIsReplay` and `WritesStay`.  `OutboxInv`:

- `CommitInv`, `DecisionInv`: an identity is committed once, and decisions are a prefix
  of the commits in that order;
- `PendingInv`, `SettlementInv`: rows are in local order, name the mutation committed
  there and have not been reported; what is reported was committed;
- `WireInv`, `ReceiptInv`: a claimed row names its commit, and an answer on the wire or
  a receipt tells the decision or `Expired`.  A batch may be sent, and answered, again;
- `SettlingInv`: what the gate is about to delete still has its receipt.  The deletion
  is another transaction than the projection before it, so the receipt found then must
  not be pruned between them; pruning takes only receipts that are settled;
- `RecordInv`: each of the last `RetainedMutationIds` identities committed is pending, in
  a receipt or retired, so the duplicate checks of `Mutate` find it.  An application
  that repeats an older identity is outside what the store promises, and the model;
- `MarkInv`: a settlement is in its receipt or behind the mark of its name and the mark
  of all names, the two `ReadSettlements` looks at.

`DeleteStep` is the centre: the rows that leave `pending` are those being settled, in
their order; each is reported once, with a decision its receipt tells.  `Selected`, the
rows with certain identities, is a recursive function over the sequence; that it has a
value and keeps order and members (`SelectionExists`, `SelectedRows`) is proved through
the least index at which it would fail (`MinExists`), an instance of the well-founded
theorem the provers can use.  Projections, rebuilds, pages and policies change nothing
the outbox is told by (`ReadStep`, `EnvironmentStep`), so what is visible is no part of
this invariant.

What is visible has an invariant of its own, `VisibleInv`, over `OutboxInv`.  Pages,
deletions and rebuilds take rows out of the middle of a fold of handlers, so replay is
first given a closed form (`ReplayIs`): of the rows that count, one is *live* when its
handler needs no entity, or a canonical one is there, or an earlier row makes one
(`Live`); an entity shows its canonical writes and its live rows (`Shown`), and a row
has changed something just when it is live.  Rows that are not live may leave unnoticed
(`Dropping`), later ones see what earlier ones made (`Adding`).  Then:

- `ProjectionInv`: for some set of ready mutations, those that were ready when the
  projection was last made, what is visible agrees with the rows that are not in it
  (`Overlaid`), except for entities that are dirty or fenced; of a fenced one only what
  was written since the fence is visible (`SinceFence`).  While a generation is built,
  the same holds of its content and the rows it has passed (`Replaying`).  The set is
  what makes this inductive: a receipt or a page makes rows ready long before the
  projection learns of it;
- `RefusedFirst`: a row that changed nothing comes before all that is visible of its
  entity, whatever has become of the canonical entities since.  With it a projection that
  finds nothing to recompute (`MatchesReplay`) may be left as it is (`ShortcutVisible`);
- `LeftOut`: what the gate is about to delete was left out of the projection or changed
  nothing, so deleting it shows nothing (`DeleteVisible`);
- `CopyInv`, `WritesInv`, `ContentInv`, `PageInv`: a generation holds of each entity what
  is canonical or nothing until all is copied; a row remembers at most its own entity;
  what pages, answers and manifests carry is well typed;
- `OperationInv`: a rebuild is either carried on by the operation in the gate, which keeps
  pages out, or it is that of a client without a view, which has nothing canonical to
  copy (`Withdrawn`).  This is what the hypothesis `"install" \notin Fragile` is for:
  when storage cuts the rebuild of an installed snapshot, a page may change canonical
  entities already copied (see *Observations*), and `VisibleIsReplay` fails.

`WritesStay` says why a visible write may go away.  Its reasons are what the client was
told and shown (the decision, the fence, its cursor and its canonical entities, the row
that says its handler refused), not what the server has or allows at that moment: a
policy may be withdrawn at the pull and restored before the page is projected.  A write
goes away only in the last step of a projection (`VisibleMoves`), and there
(`ProjectReason`) it was committed (`OriginInv`, for what is written anywhere), so it is
settled or pending (`CoverInv`).  Settled, it was rejected or the cursor has passed its
decision (`ResolvedInv`), and `ReadyResolved` says the same of a row the projection left
out: a receipt is ready by its own date, or as expired by the installed snapshot's, and
`DateInv` says that no receipt or answer is dated before the decision it tells of,
whatever was repeated or had lapsed.  Otherwise the row was replayed, and `VisibleInv`
says what it made.

Every conjunct of these invariants was first checked by TLC as an invariant of the
listed instances, those of `WindowIndex` also with two other layouts of releases.

**Only model-checked.**  Liveness (`BackpressureClears`, `Converges`,
`EverySettled`, ...) needs `ENABLED` of fair actions, which the prover does not
handle.  `NothingStranded` of `SpaceResidency` is not true of all constants: with
as many workers as permits, or after failures that leak more slots than the
instance allows, callers stay stranded (see *Observations*), so it remains a
statement about limits like those of the run; what is true for all constants is
`WakeupsAreOwed`.

## Findings

`replication_scope_restored`: a scope is narrowed and restored before the
narrowing has been delivered whole.  `applyAcknowledgedPage` of a page that is not
the last of its series changes the view's entities and leaves its scope digest, so
the restored scope looks like the one the view has, and the log suffix, in which
nothing happened, is compared instead of everything.  The retracted entities stay
missing until written again or until read authorization is invalidated.
README.md:364-365 promises the full comparison for scope changes, README.md:334
that widening backfills.  The passing runs therefore change between scopes that
are all different.

## Observations

Met while modelling, checked by hand or with other bounds, and not among the runs.

- *Server store.*  A request for compaction that arrives after the last test for a
  rerun (ServerStore.ts:2041) and before the space is taken off the running set
  starts nothing; `missed` records it, `RestsBelowHighWater` excludes it, the
  periodic sweep bounds its effect.
- *Local store.*  A rebuild that storage cuts between two batches keeps its target
  and cursor (LocalStore.ts:1857).  If the process lives, a page may change
  canonical entities and leave retractions before the next operation resumes the
  rebuild (2073-2095, 1848-1866): an entity copied before the page stays visible
  behind its fence (README.md:398-399).
- *Reconciler.*  A wake that joins a settled request during a sync writes no
  generation (Reconciler.ts:116-122), and the following turn finds nothing to do
  (431): the change is not pulled until the next wake (docs/sync.md:287).
- *Schema evolution.*  With `Overtakes = TRUE`: the driver reads progress
  (SchemaEvolution.ts:1700) and row (1702) apart, and `beginPromotion` (1486-1493)
  can match after another promotion ended; the schema goes back to the old one
  (docs/durability.md:96: forward only).  SchemaEvolution.ts:1004 carries a row with
  any receipt without replay, also while its receipt is not yet covered
  (docs/durability.md:66-68).  docs/sync.md:314 says a space in the middle of a
  promotion returns StaleSchema; old processes get InvalidConfiguration (1782)
  and concurrent new ones SchemaGenerationConflict.
- *Server indexes.*  An index that is removed and restored, also by a rollback,
  comes back empty of what happened meanwhile (serverIndex.ts:293-312, 513-517); a
  client that did not pull in between keeps an entity that slid out of its window
  (scopedReplication.ts:1081-1092, 1218-1225; README.md:341-342).  With
  `RollingBack = TRUE` an old release that serves again does not maintain the
  tables the new one filled.
- *Space residency.*  With as many workers as permits, a background runtime kept for
  a foreground caller that is interrupted (SqlReplica.ts:895-898, 988) holds its
  permit while the worker waits for another (547-552), README.md:277-279.  A leave
  while a call waits for a slot (1009) is not noticed afterwards, README.md:267.  A
  background build that fails drops `entry.foreground` (1081) of a waiting caller,
  whose slot then leaks (1104-1107).  `deactivate` gives the reservation back before
  the scope has closed (909-913), so live runtimes can exceed the limit
  (README.md:276).
- *Offline wakes.*  A COMMIT whose answer is lost in `registerWatch`
  (offlineWake.ts:697-724) leaves a presence row nobody removes.  After a push of
  unknown outcome later writes merge under the same identity (322-325).  A process
  that renews its lease between another's two deletes (575-594) stays without rows.
- *Ephemeral channel.*  When a lease expires and the heartbeat's refusal arrives
  before the end of the stream, the session fails for good and does not join again.
- *Live watches.*  The bound on a revoked watch is one interval and a half;
  docs/architecture.md:206-207 says the interval.
- *Browser.*  After a handover the new owner's map of consumers is empty, and one
  tab's acknowledgement (replicaHost.ts:369-375) may pass another's stream that has
  yet to reconnect.

## Not modelled

Application handlers and queries (user code over SQL), codecs and canonical
encodings (pure data), byte limits and digests, key lineage and migration faults,
quarantine and its resubmission, the group commit queue of `LocalStore`, the
in-memory scheduler of several spaces and the cluster workflow of reconciliation,
joining a space again, the runner of base migrations, the lists of the priority
lock, connection lane and queues (every module takes them as atomic), settlement
streams across tabs, the Expo adapter, React bindings and test fixtures.

## Plan

The modules are written.  Next:

1. `SpaceResidency`: under which limits `NothingStranded` follows from `WakeupsAreOwed`.
