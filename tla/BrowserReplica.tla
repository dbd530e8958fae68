--------------------------- MODULE BrowserReplica ---------------------------
(***************************************************************************)
(* The browser replica of packages/local-browser/src: the tabs of one      *)
(* origin share a database, which only the leading tab opens.              *)
(*                                                                         *)
(* internal/replicaOwner.ts makes a tab a candidate, lets it lead while it *)
(* holds the leader lock, and hands over to a visible tab.  A term lends   *)
(* its replica to the handlers of internal/replicaHost.ts; the term ends   *)
(* with a fence, and the lock is given back when the last handler is gone. *)
(* The other half of a tab, internal/replicaProxy.ts, sends the calls of   *)
(* the application to the leading tab, sends them again after a handover,  *)
(* and remembers which spaces are joined for as long as its stream of      *)
(* invalidations lasts.  internal/buildGate.ts retires the tabs of an      *)
(* older build.                                                            *)
(*                                                                         *)
(* One space.  A closed tab disappears with its locks at any moment; a     *)
(* tab that is frozen, holding its locks, is not modelled.  Messages from  *)
(* a tab to another arrive in their order.                                 *)
(***************************************************************************)
EXTENDS Naturals, Sequences, FiniteSets, SequencesExt

CONSTANTS
  Tabs,             \* documents of the origin, each opened once
  Builds,           \* what the documents may have been loaded with: fingerprints by tab
  Version,          \* the definition version of each build
  InFront,          \* the documents the user sees when they open
  Operations,       \* the calls the application of each tab makes
  None,             \* no tab, no call
  MaxMessages,      \* bound on the messages between two tabs
  MaxDisturbances   \* bound on closed tabs, visibility changes and failed starts

Calls == {"Mutate", "Publish", "Space", "Leave"}

ASSUME BrowserAssumption ==
  /\ None \notin Tabs \cup Calls /\ InFront \subseteq Tabs
  /\ Operations \in [Tabs -> SUBSET Calls]
  /\ \A b \in Builds : DOMAIN b = Tabs /\ \A t \in Tabs : Version[b[t]] \in Nat
  /\ MaxMessages \in Nat \ {0} /\ MaxDisturbances \in Nat

VARIABLES
  build,       \* the build each tab runs, which does not change
  tab,         \* each tab: unopened, open or closed
  sequence,    \* the sequence in each tab's presence lock
  superseded,  \* the tabs a newer build has retired
  shown,       \* the documents the user can see
  visible,     \* what each owner last noticed of it: the holders of the visible locks
  nudged,      \* the leading tabs that have yet to compare themselves with the visible ones
  queue,       \* the leader lock: its holder, then those who wait for it
  phase,       \* where each owner's loop is
  cleanup,     \* the leave under way in the replica of each tab
  member,      \* the database: the space is remembered
  call,        \* the call of each tab's application, in the proxy and in the handler
  subscribed,  \* the tab each proxy has its invalidations from
  hub,         \* the invalidation stream at that tab: none, idle or pending
  reading,     \* the proxies that had a first subscription
  live,        \* invalidationsLive
  joined,      \* the proxies that remember the space as joined
  channel,     \* messages on their way, by sender and recipient
  disturbances \* history: what the bound counts

ownerVars == <<build, sequence, superseded, shown, visible, nudged, queue, phase>>
spaceVars == <<cleanup, member>>
proxyVars == <<call, subscribed, reading, live, joined>>
vars == <<tab, ownerVars, spaceVars, proxyVars, hub, channel, disturbances>>

NoCall == [op |-> None]

Init ==
  /\ build \in Builds
  /\ tab = [t \in Tabs |-> "unopened"]
  /\ sequence = [t \in Tabs |-> 0]
  /\ superseded = {}
  /\ shown = InFront /\ visible = {} /\ nudged = {}
  /\ queue = <<>>
  /\ phase = [t \in Tabs |-> "waiting"]
  /\ cleanup = [t \in Tabs |-> "no"]
  /\ member = TRUE
  /\ call = [t \in Tabs |-> NoCall]
  /\ subscribed = [t \in Tabs |-> None]
  /\ hub = [t \in Tabs |-> "none"]
  /\ reading = {} /\ live = {} /\ joined = {}
  /\ channel = [t \in Tabs |-> [u \in Tabs |-> <<>>]]
  /\ disturbances = 0

Disturb == disturbances < MaxDisturbances /\ disturbances' = disturbances + 1
Calm == UNCHANGED disturbances

Open(t) == tab[t] = "open"
Peers(t) == {u \in Tabs \ {t} : build[u] = build[t]}
Listening(hosts) == {u \in hosts : phase[u] = "leading"}

(***************************************************************************)
(* buildGate.ts: outranks and evaluate.                                    *)
(***************************************************************************)
Outranks(u, t) ==
  \/ Version[build[u]] > Version[build[t]]
  \/ Version[build[u]] = Version[build[t]] /\ sequence[u] > sequence[t]

GateClosed(t) ==
  \/ t \in superseded
  \/ \E u \in Tabs : Open(u) /\ build[u] # build[t] /\ Outranks(u, t)

(* BrowserReplica.layer: the tab takes a presence lock behind those that   *)
(* are held, and its owner's loop starts.                                  *)
OpenTab(t) ==
  /\ tab[t] = "unopened"
  /\ tab' = [tab EXCEPT ![t] = "open"]
  /\ LET held == {sequence[u] : u \in {v \in Tabs : Open(v)}} \cup {0}
     IN sequence' = [sequence EXCEPT ![t] = 1 + CHOOSE m \in held : \A n \in held : n <= m]
  /\ visible' = IF t \in shown THEN visible \cup {t} ELSE visible
  /\ nudged' = IF t \in shown THEN nudged \cup Listening(Peers(t)) ELSE nudged
  /\ Calm
  /\ UNCHANGED <<build, superseded, shown, queue, phase, spaceVars, proxyVars, hub, channel>>

-----------------------------------------------------------------------------
(***************************************************************************)
(* Messages.  A host posts to a tab's inbox; the tab reads them in order.  *)
(***************************************************************************)
Posted(ch, h, t, message) == [ch EXCEPT ![h][t] = Append(@, message)]
Post(h, t, message) == channel' = Posted(channel, h, t, message)

Runs(t) == call[t].op # None /\ call[t].stage \in {"running", "stopping"}
Holders(h) == {t \in Tabs : Runs(t) /\ call[t].host = h}
Streaming(h) == {t \in Tabs : subscribed[t] = h /\ hub[t] \in {"idle", "pending"}}

(* A term is active until its fence; a request made just before the ready  *)
(* lock went arrives at a draining term.                                   *)
Active(h) == phase[h] \in {"leading", "draining"}
MayServe(t, h) == h \in Peers(t) \cup {t} /\ Active(h)

-----------------------------------------------------------------------------
(***************************************************************************)
(* The owner.                                                              *)
(***************************************************************************)
VisibleElsewhere(t) == \E u \in Peers(t) : Open(u) /\ u \in visible \ superseded
Outranked(t) == t \notin visible /\ VisibleElsewhere(t)

Candidate(t) ==
  /\ Open(t) /\ t \notin superseded /\ phase[t] = "waiting"
  /\ ~Outranked(t)
  /\ phase' = [phase EXCEPT ![t] = "queued"]
  /\ queue' = Append(queue, t)
  /\ Calm
  /\ UNCHANGED <<tab, build, sequence, superseded, shown, visible, nudged, spaceVars, proxyVars, hub, channel>>

GiveLockBack(t) ==
  /\ phase' = [phase EXCEPT ![t] = "waiting"]
  /\ queue' = RemoveFirst(queue, t)

HasLock(t) == queue # <<>> /\ Head(queue) = t

(* lead, with the lock just acquired.                                      *)
Acquire(t) ==
  /\ phase[t] = "queued" /\ HasLock(t) /\ ~GateClosed(t)
  /\ IF Outranked(t)
     THEN GiveLockBack(t)
     ELSE phase' = [phase EXCEPT ![t] = "building"] /\ UNCHANGED queue
  /\ Calm
  /\ UNCHANGED <<tab, build, sequence, superseded, shown, visible, nudged, spaceVars, proxyVars, hub, channel>>

(* The comparison awaitOutranked makes when it starts to listen.           *)
\* Plausible bug: only later announcements are compared.
ComparesLater(t) == {}
ComparesFirst(t) == {t}

(* The replica is built, the term active, the ready lock taken.            *)
Lead(t) ==
  /\ phase[t] = "building"
  /\ phase' = [phase EXCEPT ![t] = "leading"]
  /\ nudged' = (nudged \ {t}) \cup ComparesFirst(t)
  /\ Calm
  /\ UNCHANGED <<tab, build, sequence, superseded, shown, visible, queue, spaceVars, proxyVars, hub, channel>>

BuildFails(t) ==
  /\ phase[t] = "building"
  /\ Disturb
  /\ GiveLockBack(t)
  /\ UNCHANGED <<tab, build, sequence, superseded, shown, visible, nudged, spaceVars, proxyVars, hub, channel>>

(* awaitOutranked; the ready lock is given back.                           *)
Compare(t) ==
  /\ phase[t] = "leading" /\ t \in nudged
  /\ nudged' = nudged \ {t}
  /\ phase' = IF Outranked(t) THEN [phase EXCEPT ![t] = "draining"] ELSE phase
  /\ Calm
  /\ UNCHANGED <<tab, build, sequence, superseded, shown, visible, queue, spaceVars, proxyVars, hub, channel>>

(* drainingLease: the publication of an event is let finish.               *)
InterruptOnFence(op) == op # "Publish"

Fenced(h) ==
  /\ phase' = [phase EXCEPT ![h] = "fenced"]
  /\ call' = [t \in Tabs |->
       IF t \in Holders(h) /\ InterruptOnFence(call[t].op) THEN [call[t] EXCEPT !.stage = "stopping"] ELSE call[t]]
  /\ hub' = [t \in Tabs |-> IF t \in Streaming(h) THEN "none" ELSE hub[t]]
  /\ channel' = [channel EXCEPT ![h] =
       [t \in Tabs |-> IF t \in Streaming(h) THEN Append(@[t], "End") ELSE @[t]]]

Fence(h) ==
  /\ phase[h] = "draining"
  /\ Fenced(h)
  /\ Calm
  /\ UNCHANGED <<tab, build, sequence, superseded, shown, visible, nudged, queue, spaceVars,
                 subscribed, reading, live, joined>>

\* Plausible bug: the lock is given back with the interruptions under way.
NotAwaited(h) == TRUE
Drained(h) == Holders(h) = {}

(* The replica closes, with a leave that is not over, then the lock goes.  *)
Release(h) ==
  /\ phase[h] = "fenced" /\ Drained(h)
  /\ GiveLockBack(h)
  /\ cleanup' = [cleanup EXCEPT ![h] = "no"]
  /\ Calm
  /\ UNCHANGED <<tab, build, sequence, superseded, shown, visible, nudged, member, proxyVars, hub, channel>>

(* syncMarker.                                                             *)
SyncMarker(t) ==
  /\ Open(t) /\ t \notin superseded /\ (t \in shown) # (t \in visible)
  /\ visible' = IF t \in shown THEN visible \cup {t} ELSE visible \ {t}
  /\ nudged' = nudged \cup Listening(IF t \in shown THEN Peers(t) \cup {t} ELSE {t})
  /\ Calm
  /\ UNCHANGED <<tab, build, sequence, superseded, shown, queue, phase, spaceVars, proxyVars, hub, channel>>

ShowOrHide(t) ==
  /\ Open(t) /\ Disturb
  /\ shown' = IF t \in shown THEN shown \ {t} ELSE shown \cup {t}
  /\ UNCHANGED <<tab, build, sequence, superseded, visible, nudged, queue, phase, spaceVars, proxyVars, hub, channel>>

-----------------------------------------------------------------------------
(***************************************************************************)
(* What a proxy remembers: forgetMemberships, dropMemberships.  A call     *)
(* that captured an earlier epoch is no longer fresh.                      *)
(***************************************************************************)
Stale(c) == IF c.op = None THEN c ELSE [c EXCEPT !.fresh = FALSE]
Forget(t) == joined' = joined \ {t}

(* A newer build is noticed: the calls fail with BuildSuperseded, and the  *)
(* owner's loop ends.                                                      *)
Supersede(t) ==
  /\ Open(t) /\ t \notin superseded /\ GateClosed(t)
  /\ superseded' = superseded \cup {t}
  /\ Forget(t) /\ live' = live \ {t}
  /\ subscribed' = [subscribed EXCEPT ![t] = None]
  /\ LET dropped == [call EXCEPT ![t] = NoCall]
         quiet == [hub EXCEPT ![t] = "none"]
     IN IF Active(t)
        THEN /\ phase' = [phase EXCEPT ![t] = "fenced"]
             /\ call' = [u \in Tabs |->
                  IF u \in Holders(t) \ {t} /\ InterruptOnFence(call[u].op)
                  THEN [call[u] EXCEPT !.stage = "stopping"] ELSE dropped[u]]
             /\ hub' = [u \in Tabs |-> IF u \in Streaming(t) THEN "none" ELSE quiet[u]]
             /\ channel' = [channel EXCEPT ![t] =
                  [u \in Tabs |-> IF u \in Streaming(t) \ {t} THEN Append(@[u], "End") ELSE @[u]]]
             /\ UNCHANGED queue
        ELSE /\ call' = dropped /\ hub' = quiet
             /\ IF phase[t] \in {"queued", "building"}
                THEN GiveLockBack(t)
                ELSE UNCHANGED <<phase, queue>>
             /\ UNCHANGED channel
  /\ Calm
  /\ nudged' = nudged \ {t}
  /\ UNCHANGED <<tab, build, sequence, shown, visible, spaceVars, reading>>

(* The document goes away, and its locks with it.                          *)
CloseTab(t) ==
  /\ Open(t) /\ Disturb
  /\ tab' = [tab EXCEPT ![t] = "closed"]
  /\ GiveLockBack(t)
  /\ cleanup' = [cleanup EXCEPT ![t] = "no"]
  /\ call' = [u \in Tabs |->
       CASE u = t -> NoCall
         [] u # t /\ u \in Holders(t) -> [call[u] EXCEPT !.stage = "cut"]
         [] OTHER -> call[u]]
  /\ subscribed' = [subscribed EXCEPT ![t] = None]
  /\ hub' = [u \in Tabs |-> IF u = t \/ subscribed[u] = t THEN "none" ELSE hub[u]]
  /\ Forget(t) /\ live' = live \ {t}
  /\ visible' = visible \ {t} /\ shown' = shown \ {t} /\ nudged' = nudged \ {t}
  /\ sequence' = [sequence EXCEPT ![t] = 0]
  /\ channel' = [h \in Tabs |-> [channel[h] EXCEPT ![t] = <<>>]]
  /\ UNCHANGED <<build, superseded, member, reading>>

(* tabTransport.ts: the requests sent to a host fail when its runner lock  *)
(* is free.                                                                *)
\* Plausible bug: a request that was already sent waits for its answer.
NothingInFlightAt(t, h) == FALSE
InFlightAt(t, h) == call[t].op # None /\ call[t].host = h

NoticeClosed(t, h) ==
  /\ Open(t) /\ tab[h] = "closed"
  /\ subscribed[t] = h \/ InFlightAt(t, h)
  /\ channel' = [channel EXCEPT ![h][t] = <<>>]
  /\ LET lost == IF InFlightAt(t, h)
                 THEN [call[t] EXCEPT !.stage = "routing", !.host = None, !.done = FALSE, !.lost = call[t].op = "Publish"]
                 ELSE call[t]
     IN IF subscribed[t] = h
        THEN /\ subscribed' = [subscribed EXCEPT ![t] = None]
             /\ Forget(t) /\ live' = live \ {t}
             /\ call' = [call EXCEPT ![t] = Stale(lost)]
        ELSE /\ call' = [call EXCEPT ![t] = lost]
             /\ UNCHANGED <<subscribed, joined, live>>
  /\ Calm
  /\ UNCHANGED <<tab, ownerVars, spaceVars, reading, hub>>

-----------------------------------------------------------------------------
(***************************************************************************)
(* The stream of invalidations.                                            *)
(***************************************************************************)
(* replicaHost.ts: Invalidations, behind a lease of the term.  A request   *)
(* that reaches a host with no active term is interrupted and made again,  *)
(* which is as if it were still to be sent.                                *)
Subscribe(t, h) ==
  /\ Open(t) /\ t \notin superseded /\ subscribed[t] = None /\ MayServe(t, h)
  /\ Len(channel[h][t]) < MaxMessages
  /\ subscribed' = [subscribed EXCEPT ![t] = h]
  /\ hub' = [hub EXCEPT ![t] = "idle"]
  /\ Post(h, t, "Subscribed")
  /\ Calm
  /\ UNCHANGED <<tab, ownerVars, spaceVars, call, reading, live, joined>>

(* invalidationHub.ts: publish, and the batch a subscriber takes.          *)
Published(h) == [t \in Tabs |-> IF t \in Streaming(h) THEN "pending" ELSE hub[t]]

TakeBatch(t) ==
  LET h == subscribed[t] IN
  /\ hub[t] = "pending" /\ Len(channel[h][t]) < MaxMessages
  /\ hub' = [hub EXCEPT ![t] = "idle"]
  /\ Post(h, t, "Keys")
  /\ Calm
  /\ UNCHANGED <<tab, ownerVars, spaceVars, proxyVars>>

Take(h, t) == channel' = [channel EXCEPT ![h][t] = Tail(@)]
Reads(h, t, message) == Open(t) /\ channel[h][t] # <<>> /\ Head(channel[h][t]) = message

ReceiveSubscribed(t, h) ==
  /\ Reads(h, t, "Subscribed") /\ Take(h, t)
  /\ live' = live \cup {t} /\ reading' = reading \cup {t}
  /\ IF t \in reading
     THEN Forget(t) /\ call' = [call EXCEPT ![t] = Stale(@)]
     ELSE UNCHANGED <<joined, call>>
  /\ Calm
  /\ UNCHANGED <<tab, ownerVars, spaceVars, subscribed, hub>>

ReceiveKeys(t, h) ==
  /\ Reads(h, t, "Keys") /\ Take(h, t)
  /\ Forget(t) /\ call' = [call EXCEPT ![t] = Stale(@)]
  /\ Calm
  /\ UNCHANGED <<tab, ownerVars, spaceVars, subscribed, reading, live, hub>>

ReceiveEnd(t, h) ==
  /\ Reads(h, t, "End") /\ Take(h, t)
  /\ subscribed' = [subscribed EXCEPT ![t] = IF @ = h THEN None ELSE @]
  /\ Forget(t) /\ live' = live \ {t} /\ call' = [call EXCEPT ![t] = Stale(@)]
  /\ Calm
  /\ UNCHANGED <<tab, ownerVars, spaceVars, reading, hub>>

-----------------------------------------------------------------------------
(***************************************************************************)
(* A call.  The proxy mints the identity of a mutation once.               *)
(***************************************************************************)
Start(t, op) ==
  /\ Open(t) /\ t \notin superseded /\ t \in reading
  /\ call[t] = NoCall
  /\ op = "Space" => t \notin joined
  /\ call' = [call EXCEPT ![t] =
       [op |-> op, stage |-> "routing", host |-> None, fresh |-> op = "Space" /\ t \in live,
        id |-> 1, recorded |-> {}, effects |-> 0, done |-> FALSE, lost |-> FALSE]]
  /\ Calm
  /\ UNCHANGED <<tab, ownerVars, spaceVars, subscribed, reading, live, joined, hub, channel>>

(* makeFencedHandlers: a handler runs while it holds a lease of the term.  *)
Serve(t, h) ==
  /\ call[t].op # None /\ call[t].stage = "routing" /\ MayServe(t, h)
  /\ call' = [call EXCEPT ![t].stage = "running", ![t].host = h]
  /\ Calm
  /\ UNCHANGED <<tab, ownerVars, spaceVars, subscribed, reading, live, joined, hub, channel>>

Running(t, op) ==
  /\ call[t].op = op /\ call[t].stage = "running" /\ ~call[t].done

(* A mutation commits in the local store, which knows its identity if it   *)
(* was there before; a commit under way outruns an interruption.           *)
Commit(t) ==
  /\ Running(t, "Mutate") \/ (call[t].op = "Mutate" /\ call[t].stage = "stopping" /\ ~call[t].done)
  /\ call' = [call EXCEPT
       ![t].done = TRUE,
       ![t].recorded = @ \cup {call[t].id},
       ![t].effects = IF call[t].id \in call[t].recorded THEN @ ELSE @ + 1]
  /\ Calm
  /\ UNCHANGED <<tab, ownerVars, spaceVars, subscribed, reading, live, joined, hub, channel>>

(* An event is published through the leader's ephemeral client.            *)
Deliver(t) ==
  /\ Running(t, "Publish")
  /\ call' = [call EXCEPT ![t].done = TRUE, ![t].effects = IF @ < 2 THEN @ + 1 ELSE @]
  /\ Calm
  /\ UNCHANGED <<tab, ownerVars, spaceVars, subscribed, reading, live, joined, hub, channel>>

(* SqlReplica.space: the entry is there, and nobody is leaving it.         *)
LookUp(t) ==
  /\ Running(t, "Space")
  /\ call' = [call EXCEPT ![t].done = TRUE,
                          ![t].effects = IF member /\ cleanup[call[t].host] = "no" THEN 1 ELSE 0]
  /\ Calm
  /\ UNCHANGED <<tab, ownerVars, spaceVars, subscribed, reading, live, joined, hub, channel>>

(* SqlReplica.leave: the cleanup runs in the replica's scope, and outlives *)
(* the call that started it.                                               *)
LeaveSpace(t) ==
  LET h == call[t].host IN
  /\ Running(t, "Leave") /\ cleanup[h] = "no"
  /\ IF member
     THEN cleanup' = [cleanup EXCEPT ![h] = "leaving"] /\ UNCHANGED call
     ELSE call' = [call EXCEPT ![t].done = TRUE] /\ UNCHANGED cleanup
  /\ Calm
  /\ UNCHANGED <<tab, ownerVars, member, subscribed, reading, live, joined, hub, channel>>

DeleteRows(h) ==
  /\ cleanup[h] = "leaving"
  /\ cleanup' = [cleanup EXCEPT ![h] = "deleted"] /\ member' = FALSE
  /\ Calm
  /\ UNCHANGED <<tab, ownerVars, proxyVars, hub, channel>>

AnnounceLeave(h) ==
  /\ cleanup[h] = "deleted"
  /\ cleanup' = [cleanup EXCEPT ![h] = "no"]
  /\ hub' = Published(h)
  /\ call' = [t \in Tabs |->
       IF call[t].op = "Leave" /\ call[t].host = h /\ call[t].stage = "running"
       THEN [call[t] EXCEPT !.done = TRUE] ELSE call[t]]
  /\ Calm
  /\ UNCHANGED <<tab, ownerVars, member, subscribed, reading, live, joined, channel>>

Reply(t) ==
  LET h == call[t].host IN
  /\ Runs(t) /\ Len(channel[h][t]) < MaxMessages
  /\ \/ call[t].stage = "running" /\ call[t].done /\ Post(h, t, "Answer")
     \/ call[t].stage = "stopping" /\ Post(h, t, "Interrupt")
  /\ call' = [call EXCEPT ![t].stage = "replied"]
  /\ Calm
  /\ UNCHANGED <<tab, ownerVars, spaceVars, subscribed, reading, live, joined, hub>>

(* rememberJoined and forgetInvalidatedMemberships.                        *)
\* Plausible bug: the epoch is not compared.
RemembersAlways(c) == TRUE
MayRemember(c) == c.fresh

ReceiveAnswer(t, h) ==
  /\ Reads(h, t, "Answer") /\ Take(h, t)
  /\ call' = [call EXCEPT ![t] = NoCall]
  /\ joined' = CASE call[t].op = "Space" /\ call[t].effects = 1 /\ MayRemember(call[t]) -> joined \cup {t}
                 [] call[t].op = "Leave" -> joined \ {t}
                 [] OTHER -> joined
  /\ Calm
  /\ UNCHANGED <<tab, ownerVars, spaceVars, subscribed, reading, live, hub>>

(* retryHandover: the call is made again, with the identity it has.        *)
\* Plausible bug: the identity is minted for every attempt.
FreshId(c) == IF c.id = 1 THEN 2 ELSE c.id
RetriedId(c) == c.id

ReceiveInterrupt(t, h) ==
  /\ Reads(h, t, "Interrupt") /\ Take(h, t)
  /\ call' = IF call[t] = NoCall THEN call
             ELSE [call EXCEPT ![t] = [@ EXCEPT
               !.stage = "routing", !.host = None, !.done = FALSE, !.id = RetriedId(call[t])]]
  /\ Calm
  /\ UNCHANGED <<tab, ownerVars, spaceVars, subscribed, reading, live, joined, hub>>

-----------------------------------------------------------------------------
Owner(t) ==
  \/ Candidate(t) \/ Acquire(t) \/ Lead(t) \/ Compare(t) \/ Fence(t) \/ Release(t)
  \/ SyncMarker(t) \/ Supersede(t) \/ DeleteRows(t) \/ AnnounceLeave(t)

Handler(t) ==
  \/ TakeBatch(t) \/ Commit(t) \/ Deliver(t) \/ LookUp(t)
  \/ LeaveSpace(t) \/ Reply(t)

Inbox(t, h) ==
  \/ NoticeClosed(t, h)
  \/ ReceiveSubscribed(t, h) \/ ReceiveKeys(t, h) \/ ReceiveEnd(t, h)
  \/ ReceiveAnswer(t, h) \/ ReceiveInterrupt(t, h)

Application(t) == \E op \in Operations[t] : Start(t, op)
Disturbance(t) == BuildFails(t) \/ ShowOrHide(t) \/ CloseTab(t)

Next ==
  \E t \in Tabs :
    \/ OpenTab(t) \/ Owner(t) \/ Handler(t) \/ Application(t) \/ Disturbance(t)
    \/ \E h \in Tabs : Inbox(t, h) \/ Subscribe(t, h) \/ Serve(t, h)

Spec == Init /\ [][Next]_vars

(* Documents run, locks are granted and messages arrive; nothing makes a   *)
(* user open, show or close a tab, or an application call.                 *)
Fairness ==
  \A t \in Tabs :
    /\ WF_vars(Owner(t)) /\ WF_vars(Handler(t))
    /\ WF_vars(\E h \in Tabs : Subscribe(t, h))
    /\ WF_vars(\E h \in Tabs : Serve(t, h))
    /\ \A h \in Tabs : WF_vars(Inbox(t, h))

FairSpec == Spec /\ Fairness

-----------------------------------------------------------------------------
(* Only the tab that holds the leader lock works on the database: a        *)
(* handler that a fence interrupts may still commit, and is gone before    *)
(* another tab opens the database.                                         *)
OnlyTheLeaderWrites ==
  /\ \A t \in Tabs : Runs(t) /\ Open(call[t].host) => HasLock(call[t].host)
  /\ \A h \in Tabs : cleanup[h] # "no" => HasLock(h)

(* Through any number of handovers and closed tabs, a call has its effect  *)
(* once: a mutation exactly once, when it is answered; an event twice only *)
(* if the tab that was publishing it closed.                               *)
OncePerCall ==
  \A t \in Tabs : call[t].op \in {"Mutate", "Publish"} =>
    /\ call[t].effects <= 1 \/ (call[t].op = "Publish" /\ call[t].lost)
    /\ call[t].stage = "replied" /\ call[t].done /\ Open(call[t].host) => call[t].effects >= 1

(* A tab that remembers the space as joined is right, or a message that    *)
(* makes it forget is under way: the invalidation of the leave, or the end *)
(* of its stream.                                                          *)
CacheIsWarned ==
  \A t \in joined : ~member =>
    LET h == subscribed[t] IN
      \/ h # None /\ tab[h] = "closed"
      \/ h # None /\ (cleanup[h] = "deleted" \/ hub[t] = "pending")
      \/ \E u \in Tabs : \E i \in DOMAIN channel[u][t] : channel[u][t][i] \in {"Keys", "End"}

(* Every call of an open tab ends: another tab takes over, or the build of *)
(* the caller was retired.                                                 *)
EveryCallEnds == \A t \in Tabs : (call[t] # NoCall) ~> (call[t] = NoCall)

(* When the user has settled, the replica is with a tab the user can see,  *)
(* if the newest build has one.                                            *)
InSight(t) == Open(t) /\ t \in shown /\ ~GateClosed(t)
VisibleTabLeads == <>[]((\E t \in Tabs : InSight(t)) => \E t \in Tabs : InSight(t) /\ phase[t] = "leading")
=============================================================================
