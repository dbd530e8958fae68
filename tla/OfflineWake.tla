---------------------------- MODULE OfflineWake ----------------------------
(***************************************************************************)
(* Offline wake delivery in one space: the dispatchers, presence leases    *)
(* and heartbeats of packages/local-sql/src/internal/offlineWake.ts, with  *)
(* the admission that enqueues and the pull that acknowledges.             *)
(*                                                                         *)
(* An accepted write raises the space's high water.  A dispatcher claims   *)
(* the space, asks who its recipients are and expands the write into one   *)
(* durable wake per client; then it claims a wake and hands it to the      *)
(* application's delivery hook.  A client with a live watch is not pushed  *)
(* to: its presence row hangs on the lease of the server process that      *)
(* holds the watch.  Processes share nothing but the database.             *)
(*                                                                         *)
(* Times are left out: coalescing windows, back-offs and next_attempt_at   *)
(* only delay a claim, and a lease ends when it may.  Each transaction and *)
(* each statement outside one is a step.  A registration whose COMMIT      *)
(* fails is one that did not happen.                                       *)
(***************************************************************************)
EXTENDS Naturals

CONSTANTS
  Clients,         \* clients of the space
  Runtimes,        \* server processes, one life each
  Watches,         \* watch streams that clients may open
  None,            \* no row, no claim
  MaxWrites,       \* bound on accepted writes
  MaxDisturbances  \* bound on crashes, failures, lapses and membership changes

ASSUME OfflineWakeAssumption ==
  /\ None \notin Runtimes \cup Clients
  /\ MaxWrites \in Nat /\ MaxDisturbances \in Nat

VARIABLES
  space,         \* the row of effect_local_server_offline_wake_spaces
  wakes,         \* effect_local_server_offline_wakes, by client
  acknowledged,  \* the acknowledgement fence, by client
  presence,      \* watch_presence: the watches with a row
  lease,         \* watch_runtimes: each process's lease, or "absent"
  up,            \* the processes that run
  watch,         \* the watch streams
  dirty,         \* presenceDirty of each process
  beat,          \* where its heartbeat is
  worker,        \* where its dispatcher is
  ids,           \* wake identities made: those of a client differ
  members,       \* the application's membership of the space
  owed,          \* history: the last write each member is still to hear of, or 0
  recorded,      \* history: each client's identities recorded as delivered
  lapsed,        \* history: watches whose lease ran out while they were ready
  disturbances   \* history: what the bound counts

tables == <<space, wakes, acknowledged, presence, lease>>
processes == <<up, watch, dirty, beat, worker>>
history == <<owed, recorded, lapsed>>
vars == <<tables, processes, ids, members, history, disturbances>>

Disturb == disturbances < MaxDisturbances /\ disturbances' = disturbances + 1

Larger(m, n) == IF m >= n THEN m ELSE n

(***************************************************************************)
(* Claims: a token and a lease, in the row.                                *)
(***************************************************************************)
Claims == [by : Runtimes, live : BOOLEAN]

WakeRows == [id : Nat, high : Nat, notified : Nat, generation : Nat, claim : Claims \cup {None}]

\* the absence of a row or of a claim is told from every one of them
ASSUME NoneAssumption == None \notin Claims \cup WakeRows

Claim(r) == [by |-> r, live |-> TRUE]
Live(claim) == claim # None /\ claim.live
HeldBy(claim, r) == claim # None /\ claim.by = r

Idle == [at |-> "idle"]
At(r, step) == r \in up /\ worker[r].at = step
Goto(r, state) == worker' = [worker EXCEPT ![r] = state]
Move(r, step) == Goto(r, [worker[r] EXCEPT !.at = step])

\* a claim of a worker that is still about it ends only by a disturbance
Engaged(claim) == claim.by \in up /\ worker[claim.by].at # "idle"

SpaceClaimEnds ==
  /\ Live(space.claim)
  /\ IF Engaged(space.claim) THEN Disturb ELSE UNCHANGED disturbances
  /\ space' = [space EXCEPT !.claim.live = FALSE]
  /\ UNCHANGED <<wakes, acknowledged, presence, lease, processes, ids, members, history>>

WakeClaimEnds(c) ==
  /\ wakes[c] # None /\ Live(wakes[c].claim)
  /\ IF Engaged(wakes[c].claim) THEN Disturb ELSE UNCHANGED disturbances
  /\ wakes' = [wakes EXCEPT ![c].claim.live = FALSE]
  /\ UNCHANGED <<space, acknowledged, presence, lease, processes, ids, members, history>>

(***************************************************************************)
(* enqueue, in the transaction that accepts a write.                       *)
(***************************************************************************)
Enqueue ==
  /\ space.high < MaxWrites
  /\ space' = [space EXCEPT !.high = @ + 1]
  /\ owed' = [c \in Clients |-> IF c \in members THEN space.high + 1 ELSE owed[c]]
  /\ UNCHANGED <<wakes, acknowledged, presence, lease, processes, ids, members, recorded,
                 lapsed, disturbances>>

(***************************************************************************)
(* pull: what the client has of an acknowledged page is not pushed.        *)
(***************************************************************************)
Pull(c) ==
  \E delivered \in acknowledged[c] + 1 .. space.high :
    /\ acknowledged' = [acknowledged EXCEPT ![c] = delivered]
    /\ wakes' = IF wakes[c] # None /\ wakes[c].high <= delivered
                THEN [wakes EXCEPT ![c] = None] ELSE wakes
    /\ owed' = IF owed[c] <= delivered THEN [owed EXCEPT ![c] = 0] ELSE owed
    /\ UNCHANGED <<space, presence, lease, processes, ids, members, recorded, lapsed,
                   disturbances>>

(***************************************************************************)
(* claimSpaces and expand: the recipients are asked for outside of a       *)
(* transaction, and written if the claim is still held.                    *)
(***************************************************************************)
ClaimSpace(r) ==
  /\ At(r, "idle")
  /\ space.high > space.expanded /\ ~Live(space.claim)
  /\ space' = [space EXCEPT !.claim = Claim(r)]
  /\ Goto(r, [at |-> "resolve", high |-> space.high, generation |-> space.generation])
  /\ UNCHANGED <<wakes, acknowledged, presence, lease, up, watch, dirty, beat, ids, members,
                 history, disturbances>>

Resolve(r) ==
  /\ At(r, "resolve")
  /\ \/ /\ Goto(r, [at |-> "expand", high |-> worker[r].high,
                    generation |-> worker[r].generation + 1, recipients |-> members])
        /\ UNCHANGED disturbances
     \/ /\ Disturb /\ Move(r, "releaseSpace")
  /\ UNCHANGED <<tables, up, watch, dirty, beat, ids, members, history>>

\* Plausible bug: the identity of a wake is kept whatever became of it.
KeepsIdentity(wake) == TRUE

\* an unnotified wake keeps its identity
KeepsId(wake) == wake.notified < wake.high

Expanded(c, work) ==
  LET id == ids + 1
  IN IF c \in work.recipients /\ acknowledged[c] < work.high
     THEN IF wakes[c] = None
          THEN [id |-> id, high |-> work.high, notified |-> 0,
                generation |-> work.generation, claim |-> None]
          ELSE [wakes[c] EXCEPT !.id = IF KeepsId(wakes[c]) THEN @ ELSE id,
                                !.high = Larger(@, work.high),
                                !.generation = work.generation]
     ELSE wakes[c]

Expand(r) ==
  LET work == worker[r]
      retained(wake) == IF wake # None /\ wake.generation < work.generation
                        THEN None ELSE wake
  IN /\ At(r, "expand")
     /\ \/ /\ HeldBy(space.claim, r)
           /\ wakes' = [c \in Clients |-> retained(Expanded(c, work))]
           /\ space' = [space EXCEPT !.expanded = Larger(@, work.high),
                                     !.generation = work.generation, !.claim = None]
           /\ ids' = IF \E c \in Clients : wakes'[c] # None /\ wakes'[c].id > ids
                     THEN ids + 1 ELSE ids
           /\ Goto(r, Idle) /\ UNCHANGED disturbances
        \/ /\ ~HeldBy(space.claim, r)
           /\ Goto(r, Idle) /\ UNCHANGED <<space, wakes, ids, disturbances>>
        \/ /\ Disturb /\ Move(r, "releaseSpace") /\ UNCHANGED <<space, wakes, ids>>
     /\ UNCHANGED <<acknowledged, presence, lease, up, watch, dirty, beat, members, history>>

ReleaseSpace(r) ==
  /\ At(r, "releaseSpace")
  /\ space' = IF HeldBy(space.claim, r) THEN [space EXCEPT !.claim = None] ELSE space
  /\ Goto(r, Idle)
  /\ UNCHANGED <<wakes, acknowledged, presence, lease, up, watch, dirty, beat, ids, members,
                 history, disturbances>>

(***************************************************************************)
(* claimClients: a wake of a client that no live lease holds online.       *)
(***************************************************************************)
Present(c) == \E w \in presence : watch[w].client = c /\ lease[watch[w].runtime] = "live"

ClaimWake(r) ==
  \E c \in Clients :
    /\ At(r, "idle")
    /\ wakes[c] # None /\ wakes[c].high > wakes[c].notified
    /\ ~Live(wakes[c].claim) /\ ~Present(c)
    /\ wakes' = [wakes EXCEPT ![c].claim = Claim(r)]
    /\ Goto(r, [at |-> "check", client |-> c, id |-> wakes[c].id, high |-> wakes[c].high])
    /\ UNCHANGED <<space, acknowledged, presence, lease, up, watch, dirty, beat, ids,
                   members, history, disturbances>>

(***************************************************************************)
(* deliver: the presence is looked at again, the hook is called, and its   *)
(* answer is recorded under the claim.                                     *)
(***************************************************************************)
Holds(r) == LET c == worker[r].client IN wakes[c] # None /\ HeldBy(wakes[c].claim, r)

Check(r) ==
  /\ At(r, "check")
  /\ Move(r, IF Present(worker[r].client) THEN "release" ELSE "send")
  /\ UNCHANGED <<tables, up, watch, dirty, beat, ids, members, history, disturbances>>

\* the hook sends to a member; its answer may be lost, or come too late
Send(r) ==
  LET c == worker[r].client
      sends == owed' = [owed EXCEPT ![c] = 0]
  IN /\ At(r, "send")
     /\ \/ /\ c \in members /\ sends
           /\ Move(r, "delivered") /\ UNCHANGED disturbances
        \/ /\ c \notin members
           /\ Move(r, "notRecipient") /\ UNCHANGED <<owed, disturbances>>
        \/ /\ Disturb /\ Move(r, "release")
           /\ (c \in members /\ sends) \/ UNCHANGED owed
     /\ UNCHANGED <<tables, up, watch, dirty, beat, ids, members, recorded, lapsed>>

\* work that came during the delivery goes on under a new identity
Renewed(wake, high) == [wake EXCEPT !.id = IF wake.high > high THEN ids + 1 ELSE @,
                                    !.claim = None]

Told(wake, high) == [Renewed(wake, high) EXCEPT !.notified = Larger(@, high)]

RecordDelivered(r) ==
  LET c == worker[r].client
      high == worker[r].high
  IN /\ At(r, "delivered")
     /\ \/ /\ Holds(r)
           /\ wakes' = [wakes EXCEPT ![c] = Told(@, high)]
           /\ ids' = IF wakes[c].high > high THEN ids + 1 ELSE ids
           /\ recorded' = [recorded EXCEPT ![c] = @ \cup {worker[r].id}]
           /\ Goto(r, Idle) /\ UNCHANGED disturbances
        \/ /\ ~Holds(r)
           /\ Goto(r, Idle) /\ UNCHANGED <<wakes, ids, recorded, disturbances>>
        \/ /\ Disturb /\ Move(r, "release") /\ UNCHANGED <<wakes, ids, recorded>>
     /\ UNCHANGED <<space, acknowledged, presence, lease, up, watch, dirty, beat, members,
                    owed, lapsed>>

RecordNotRecipient(r) ==
  LET c == worker[r].client
      more == wakes[c].high > worker[r].high
  IN /\ At(r, "notRecipient")
     /\ \/ /\ Holds(r)
           /\ wakes' = [wakes EXCEPT ![c] = IF more THEN Renewed(@, worker[r].high) ELSE None]
           /\ ids' = IF more THEN ids + 1 ELSE ids
           /\ Goto(r, Idle) /\ UNCHANGED disturbances
        \/ /\ ~Holds(r)
           /\ Goto(r, Idle) /\ UNCHANGED <<wakes, ids, disturbances>>
        \/ /\ Disturb /\ Move(r, "release") /\ UNCHANGED <<wakes, ids>>
     /\ UNCHANGED <<space, acknowledged, presence, lease, up, watch, dirty, beat, members,
                    history>>

Release(r) ==
  LET c == worker[r].client
  IN /\ At(r, "release")
     /\ wakes' = IF Holds(r) THEN [wakes EXCEPT ![c].claim = None] ELSE wakes
     /\ Goto(r, Idle)
     /\ UNCHANGED <<space, acknowledged, presence, lease, up, watch, dirty, beat, ids,
                    members, history, disturbances>>

(***************************************************************************)
(* A watch stream: registerWatch tries until no claim is in its way, and   *)
(* its finalizer takes the row away.  Both, and a heartbeat's comparison,  *)
(* run one at a time under the process's presenceGate.                     *)
(***************************************************************************)
GateFree(r) == beat[r] # "compare"

Local(r) == {w \in Watches : watch[w].runtime = r /\ watch[w].phase \in {"ready", "closing"}}

Open(w) ==
  /\ watch[w].phase = "none"
  /\ \E c \in Clients, r \in up :
       watch' = [watch EXCEPT ![w] = [client |-> c, runtime |-> r, phase |-> "registering"]]
  /\ UNCHANGED <<tables, up, dirty, beat, worker, ids, members, history, disturbances>>

\* Plausible bug: a watch registers whatever is under way for its client.
RegistersAnyway(c) == TRUE

\* insertPresence
MayRegister(c) == ~(wakes[c] # None /\ Live(wakes[c].claim))

Register(w) ==
  LET r == watch[w].runtime
      registers == MayRegister(watch[w].client)
  IN /\ watch[w].phase = "registering" /\ r \in up /\ GateFree(r)
     /\ lease' = [lease EXCEPT ![r] = "live"]
     /\ presence' = IF registers THEN presence \cup {w} ELSE presence
     /\ watch' = IF registers THEN [watch EXCEPT ![w].phase = "ready"] ELSE watch
     /\ UNCHANGED <<space, wakes, acknowledged, up, dirty, beat, worker, ids, members,
                    history, disturbances>>

Disconnect(w) ==
  /\ watch[w].phase \in {"registering", "ready"}
  /\ watch' = [watch EXCEPT ![w].phase = IF @ = "ready" THEN "closing" ELSE "gone"]
  /\ UNCHANGED <<tables, up, dirty, beat, worker, ids, members, history, disturbances>>

\* Plausible bug: a failed cleanup is not remembered.
ForgetsFailure(r) == dirty

MarksDirty(r) == [dirty EXCEPT ![r] = TRUE]

Finalize(w) ==
  LET r == watch[w].runtime
  IN /\ watch[w].phase = "closing" /\ r \in up /\ GateFree(r)
     /\ watch' = [watch EXCEPT ![w].phase = "gone"]
     /\ lapsed' = lapsed \ {w}
     /\ \/ presence' = presence \ {w} /\ UNCHANGED <<dirty, disturbances>>
        \/ Disturb /\ dirty' = MarksDirty(r) /\ UNCHANGED presence
     /\ UNCHANGED <<space, wakes, acknowledged, lease, up, beat, worker, ids, members,
                    owed, recorded>>

(***************************************************************************)
(* heartbeat: the lease is renewed; if its row was gone, or a cleanup had  *)
(* failed, the rows are restored and compared with the watches there are.  *)
(***************************************************************************)
Renew(r) ==
  LET found == lease[r] # "absent"
  IN /\ r \in up /\ beat[r] = "idle"
     /\ lease' = IF found THEN [lease EXCEPT ![r] = "live"] ELSE lease
     /\ IF found /\ ~dirty[r] THEN UNCHANGED <<dirty, beat>>
        ELSE dirty' = [dirty EXCEPT ![r] = TRUE] /\ beat' = [beat EXCEPT ![r] = "restore"]
     /\ UNCHANGED <<space, wakes, acknowledged, presence, up, watch, worker, ids, members,
                    history, disturbances>>

Restore(r) ==
  /\ r \in up /\ beat[r] = "restore"
  /\ lease' = [lease EXCEPT ![r] = "live"]
  /\ presence' = presence \cup {w \in Local(r) : MayRegister(watch[w].client)}
  /\ beat' = [beat EXCEPT ![r] = "compare"]
  /\ UNCHANGED <<space, wakes, acknowledged, up, watch, dirty, worker, ids, members,
                 history, disturbances>>

Compare(r) ==
  /\ r \in up /\ beat[r] = "compare"
  /\ presence' = {w \in presence : watch[w].runtime = r => w \in Local(r)}
  /\ dirty' = [dirty EXCEPT ![r] = ~(Local(r) \subseteq presence)]
  /\ beat' = [beat EXCEPT ![r] = "idle"]
  /\ UNCHANGED <<space, wakes, acknowledged, lease, up, watch, worker, ids, members,
                 history, disturbances>>

BeatFails(r) ==
  /\ r \in up /\ beat[r] # "idle" /\ Disturb
  /\ beat' = [beat EXCEPT ![r] = "idle"]
  /\ UNCHANGED <<tables, up, watch, dirty, worker, ids, members, history>>

\* a running process renews in time, but for a disturbance
LeaseEnds(r) ==
  /\ lease[r] = "live"
  /\ IF r \in up THEN Disturb ELSE UNCHANGED disturbances
  /\ lease' = [lease EXCEPT ![r] = "over"]
  /\ lapsed' = lapsed \cup Local(r)
  /\ UNCHANGED <<space, wakes, acknowledged, presence, processes, ids, members, owed,
                 recorded>>

\* run starts with the rows that ended leases left
Sweep(r) ==
  LET over(w) == lease[watch[w].runtime] = "over"
      unused(s) == lease[s] = "over" /\ \A w \in presence : watch[w].runtime # s
  IN /\ At(r, "idle")
     /\ \/ /\ presence' = {w \in presence : ~over(w)} /\ UNCHANGED lease
        \/ /\ lease' = [s \in Runtimes |-> IF unused(s) THEN "absent" ELSE lease[s]]
           /\ UNCHANGED presence
     /\ UNCHANGED <<space, wakes, acknowledged, processes, ids, members, history,
                    disturbances>>

(***************************************************************************)
(* A process dies with its watches; another is left.                       *)
(***************************************************************************)
Crash(r) ==
  /\ r \in up /\ up # {r} /\ Disturb
  /\ up' = up \ {r}
  /\ watch' = [w \in Watches |->
       IF watch[w].runtime = r THEN [watch[w] EXCEPT !.phase = "gone"] ELSE watch[w]]
  /\ worker' = [worker EXCEPT ![r] = Idle] /\ beat' = [beat EXCEPT ![r] = "idle"]
  /\ dirty' = [dirty EXCEPT ![r] = FALSE]
  /\ UNCHANGED <<tables, ids, members, history>>

\* the application changes its membership; who leaves is owed nothing
ChangeMembership(c) ==
  /\ Disturb
  /\ members' = IF c \in members THEN members \ {c} ELSE members \cup {c}
  /\ owed' = [owed EXCEPT ![c] = 0]
  /\ UNCHANGED <<tables, processes, ids, recorded, lapsed>>

(***************************************************************************)
(* Processes that have started, and nothing written yet.                   *)
(***************************************************************************)
Init ==
  /\ space = [high |-> 0, expanded |-> 0, generation |-> 0, claim |-> None]
  /\ wakes = [c \in Clients |-> None] /\ acknowledged = [c \in Clients |-> 0]
  /\ presence = {} /\ lease = [r \in Runtimes |-> "live"]
  /\ up = Runtimes
  /\ watch = [w \in Watches |-> [client |-> None, runtime |-> None, phase |-> "none"]]
  /\ dirty = [r \in Runtimes |-> FALSE] /\ beat = [r \in Runtimes |-> "idle"]
  /\ worker = [r \in Runtimes |-> Idle]
  /\ ids = 0 /\ members = Clients
  /\ owed = [c \in Clients |-> 0]
  /\ recorded = [c \in Clients |-> {}] /\ lapsed = {} /\ disturbances = 0

Dispatch(r) ==
  \/ ClaimSpace(r) \/ Resolve(r) \/ Expand(r) \/ ReleaseSpace(r)
  \/ ClaimWake(r) \/ Check(r) \/ Send(r)
  \/ RecordDelivered(r) \/ RecordNotRecipient(r) \/ Release(r)

Heartbeat(r) == Renew(r) \/ Restore(r) \/ Compare(r)

Watching(w) == Open(w) \/ Register(w) \/ Disconnect(w) \/ Finalize(w)

Next ==
  \/ Enqueue \/ SpaceClaimEnds
  \/ \E r \in Runtimes :
       Dispatch(r) \/ Heartbeat(r) \/ Sweep(r) \/ BeatFails(r) \/ LeaseEnds(r) \/ Crash(r)
  \/ \E w \in Watches : Watching(w)
  \/ \E c \in Clients : Pull(c) \/ ChangeMembership(c) \/ WakeClaimEnds(c)

Spec == Init /\ [][Next]_vars

(***************************************************************************)
(* Dispatchers poll, heartbeats and finalizers run, leases end.  Nothing   *)
(* makes a client write, watch or pull.                                    *)
(***************************************************************************)
Fairness ==
  /\ WF_vars(SpaceClaimEnds) /\ \A c \in Clients : WF_vars(WakeClaimEnds(c))
  /\ \A r \in Runtimes :
       /\ WF_vars(Dispatch(r)) /\ WF_vars(Heartbeat(r)) /\ WF_vars(LeaseEnds(r))
  /\ \A w \in Watches : WF_vars(Finalize(w))

FairSpec == Spec /\ Fairness

(***************************************************************************)
(* Properties.                                                             *)
(***************************************************************************)
Online(c) == \E w \in Watches : watch[w].client = c /\ watch[w].phase = "ready"

(* No accepted write is lost to a member: a push goes out after it, or the *)
(* client acknowledges it, or watches; through crashed processes, failed   *)
(* hooks and statements, and leases that end in the middle                 *)
(* (offlineWake.ts expand, deliver, heartbeat).                            *)
Heard(c) == owed[c] = 0 \/ Online(c)

EveryWriteIsHeardOf == \A c \in Clients : []<>Heard(c)

(* A wake is under way only for a client that is not watching: as long as  *)
(* the claim is held, no ready watch of its client exists, unless the      *)
(* watch's process once missed to renew its lease (claimClients against    *)
(* insertPresence, in processes that share only the database).             *)
PushIsForTheOffline ==
  \A r \in up : worker[r].at \in {"check", "send"} /\ Holds(r) =>
    LET c == worker[r].client
    IN wakes[c].claim.live =>
         \A w \in Watches \ lapsed : ~(watch[w].client = c /\ watch[w].phase = "ready")

(* Work that is still to be told of never goes under an identity already   *)
(* recorded as delivered, which the provider would drop as a duplicate     *)
(* (the wake_id of expand, deliver).                                       *)
FreshWorkHasFreshIdentity ==
  \A c \in Clients :
    wakes[c] # None /\ wakes[c].notified < wakes[c].high => wakes[c].id \notin recorded[c]
=============================================================================
