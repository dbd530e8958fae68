-------------------------- MODULE EphemeralChannel --------------------------
(***************************************************************************)
(* The ephemeral channel of one space: the hub of                          *)
(* packages/local-rpc/src/EphemeralHub.ts, and the sessions of             *)
(* packages/local-rpc/src/EphemeralClient.ts that follow it.               *)
(*                                                                         *)
(* The hub keeps a roster of members, one retained state per member and    *)
(* the members' live events, all of them leased, and gives every change a  *)
(* revision.  A session joins with a value of its own, gets a snapshot and *)
(* then the changes, from a queue that slides when the session is slow.    *)
(* It joins again when its stream ends: for a missed revision, an expired  *)
(* lease, a lost connection or a hub that moved.                           *)
(*                                                                         *)
(* The hub's steps are those it takes under the gate of the space.  What   *)
(* is authorized, and the limits on bytes, keys and watchers, are not      *)
(* modelled; a lease is a member whose timer may fire.                     *)
(***************************************************************************)
EXTENDS Naturals, Sequences, FiniteSets, SequencesExt, Functions

CONSTANTS
  Clients,          \* sessions, each of a member of its own
  Values,           \* profiles
  States,           \* retained states
  First,            \* the profile a session is opened with
  None,             \* no value
  Unknown,          \* a view that waits for a snapshot
  Capacity,         \* EphemeralHub.capacity
  MaxPublications,  \* bound on publications, updates and heartbeats
  MaxDisturbances   \* bound on failures, and on sessions closed

ASSUME ChannelAssumption ==
  /\ First \in Values /\ None \notin Values \cup States
  /\ Capacity \in Nat \ {0}
  /\ MaxPublications \in Nat /\ MaxDisturbances \in Nat

NoToken == 0
NoMember == [token |-> NoToken, value |-> None]

VARIABLES
  roster,    \* the hub's members: session token and profile
  retained,  \* the hub's states
  events,    \* the members with a live event
  revision,  \* the last revision
  streams,   \* the join streams not released, by session token
  joins,     \* the tokens handed out
  client,    \* the sessions as their clients see them
  update,    \* the updateMember under way in each session
  claimed,   \* history: the profiles each application may expect to be shown
  publications, disturbances   \* history: what the bounds count

hubVars == <<roster, retained, events, revision, streams, joins>>
boundVars == <<publications, disturbances>>
channelVars == <<hubVars, client, update, claimed, boundVars>>

Content ==
  [members |-> [c \in Clients |-> roster[c].value], states |-> retained]

Publication ==
  publications < MaxPublications /\ publications' = publications + 1 /\ UNCHANGED disturbances

Disturb ==
  disturbances < MaxDisturbances /\ disturbances' = disturbances + 1 /\ UNCHANGED publications

(***************************************************************************)
(* publishDelta, of several messages in order: a full queue loses its      *)
(* oldest message.                                                         *)
(***************************************************************************)
Message(kind, c, value) == [kind |-> kind, client |-> c, value |-> value]

Slide(queue) == SubSeq(queue, 1 + (IF Len(queue) > Capacity THEN Len(queue) - Capacity ELSE 0),
                       Len(queue))

Publish(subscribed, messages) ==
  LET numbered == [i \in DOMAIN messages |->
                     [message |-> messages[i], revision |-> revision + i]]
  IN /\ revision' = revision + Len(messages)
     /\ streams' = [t \in DOMAIN subscribed |->
          [subscribed[t] EXCEPT !.queue = Slide(@ \o numbered)]]

(***************************************************************************)
(* join: a session replaces the one its member still has, whose stream     *)
(* fails and whose events are cleared.  The stream is subscribed before    *)
(* the first of its own messages.                                          *)
(***************************************************************************)
EndStream(t, how) ==
  IF t \in DOMAIN streams /\ streams[t].ended = "no"
  THEN [streams EXCEPT ![t].ended = how] ELSE streams

Join(c) ==
  LET t == joins + 1
      previous == roster[c].token
      clears == IF previous # NoToken /\ c \in events
                THEN <<Message("EventCleared", c, None)>> ELSE <<>>
      messages == Append(clears, Message("MemberUpserted", c, client[c].value))
      joined == [roster EXCEPT ![c] = [token |-> t, value |-> client[c].value]]
      before == IF previous = NoToken THEN streams ELSE EndStream(previous, "failed")
      stream == [client |-> c, queue |-> <<>>, ended |-> "no",
                 last |-> revision + Len(messages),
                 snapshot |-> [members |-> [d \in Clients |-> joined[d].value],
                               states |-> retained]]
  IN /\ client[c].phase = "joining"
     /\ joins' = t
     /\ roster' = joined
     /\ events' = events \ {c}
     /\ Publish([s \in DOMAIN streams \cup {t} |-> IF s = t THEN stream ELSE before[s]],
                messages)
     /\ client' = [client EXCEPT ![c].phase = "accepted", ![c].token = t]
     /\ UNCHANGED <<retained, update, claimed, boundVars>>

(***************************************************************************)
(* removeMember: only by the session that is current.  Its events go       *)
(* without a message; its state stays until its own time is over.          *)
(***************************************************************************)
Current(c, t) == t # NoToken /\ roster[c].token = t

\* Plausible bug: the stream of an expired member stays open.
NeverDeparts(t) == streams

\* the stream of a removed member ends normally
Departed(t) == EndStream(t, "departed")

Leave(c, subscribed) ==
  /\ roster' = [roster EXCEPT ![c] = NoMember]
  /\ events' = events \ {c}
  /\ Publish(subscribed, <<Message("MemberLeft", c, None)>>)

\* the lease is over: heartbeats stopped, or came too late
Expire(c) ==
  LET t == roster[c].token
      followed == client[c].token = t /\ client[c].phase \in {"accepted", "live"}
  IN /\ t # NoToken
     /\ IF followed THEN Disturb ELSE UNCHANGED boundVars
     /\ Leave(c, Departed(t))
     /\ UNCHANGED <<retained, joins, client, update, claimed>>

\* the stream's finalizer, once nobody reads the stream
Release(t) ==
  LET c == streams[t].client
      others == Restrict(streams, DOMAIN streams \ {t})
  IN /\ ~(client[c].token = t /\ client[c].phase \in {"accepted", "live"})
     /\ IF Current(c, t) THEN Leave(c, others)
        ELSE streams' = others /\ UNCHANGED <<roster, events, revision>>
     /\ UNCHANGED <<retained, joins, client, update, claimed, boundVars>>

\* the periodic authorization is denied
Revoke(c) ==
  /\ client[c].phase = "live" /\ Disturb
  /\ streams[client[c].token].ended = "no"
  /\ streams' = EndStream(client[c].token, "failed")
  /\ UNCHANGED <<roster, retained, events, revision, joins, client, update, claimed>>

(***************************************************************************)
(* publish, by a session that is current: a retained state or an event,    *)
(* and what ends them, a request or their time to live.                    *)
(***************************************************************************)
Publishing(c) == client[c].phase = "live" /\ Current(c, client[c].token)

SetState(c) ==
  /\ Publishing(c) /\ Publication
  /\ \E v \in States :
       /\ retained' = [retained EXCEPT ![c] = v]
       /\ Publish(streams, <<Message("StateSet", c, v)>>)
  /\ UNCHANGED <<roster, events, joins, client, update, claimed>>

RemoveState(c) ==
  /\ retained[c] # None
  /\ retained' = [retained EXCEPT ![c] = None]
  /\ Publish(streams, <<Message("StateRemoved", c, None)>>)
  /\ UNCHANGED <<roster, events, joins, client, update, claimed, boundVars>>

PublishEvent(c) ==
  /\ Publishing(c) /\ Publication
  /\ events' = events \cup {c}
  /\ Publish(streams, <<Message("Event", c, None)>>)
  /\ UNCHANGED <<roster, retained, joins, client, update, claimed>>

ClearEvent(c) ==
  /\ c \in events
  /\ events' = events \ {c}
  /\ Publish(streams, <<Message("EventCleared", c, None)>>)
  /\ UNCHANGED <<roster, retained, joins, client, update, claimed, boundVars>>

(***************************************************************************)
(* heartbeat: a renewed lease is a change of the member.  A session that   *)
(* is not the current one fails for good.                                  *)
(***************************************************************************)
Heartbeat(c) ==
  /\ client[c].phase = "live"
  /\ IF Current(c, client[c].token)
     THEN /\ Publication
          /\ Publish(streams, <<Message("MemberUpserted", c, roster[c].value)>>)
          /\ UNCHANGED client
     ELSE /\ client' = [client EXCEPT ![c].phase = "failed", ![c].token = NoToken]
          /\ UNCHANGED <<streams, revision, boundVars>>
  /\ UNCHANGED <<roster, retained, events, joins, update, claimed>>

(***************************************************************************)
(* joinAttempt holds the memberUpdates permit from before it reads the     *)
(* profile until the hub has accepted it; updateMember holds it until the  *)
(* profile it sent is recorded.                                            *)
(***************************************************************************)
Updating(c) == update[c].status \in {"sent", "applied", "refused"}

\* Plausible bug: the profile is read without the permit.
JoinsAnyTime(c) == TRUE

MayJoin(c) == ~Updating(c)

BeginJoin(c) ==
  /\ client[c].phase = "out" /\ MayJoin(c)
  /\ client' = [client EXCEPT ![c].phase = "joining", ![c].value = client[c].profile]
  /\ UNCHANGED <<hubVars, update, claimed, boundVars>>

\* SessionStarted and the snapshot arrive
Start(c) ==
  /\ client[c].phase = "accepted"
  /\ client' = [client EXCEPT ![c].phase = "live",
                              ![c].view = streams[client[c].token].snapshot]
  /\ UNCHANGED <<hubVars, update, claimed, boundVars>>

(***************************************************************************)
(* EphemeralView.reduce.                                                   *)
(***************************************************************************)
MemberKinds == {"MemberUpserted", "MemberLeft"}
StateKinds == {"StateSet", "StateRemoved"}

Reduce(view, m) ==
  CASE m.kind \in MemberKinds ->
         [view EXCEPT !.members[m.client] = m.value]
    [] m.kind \in StateKinds ->
         [view EXCEPT !.states[m.client] = m.value]
    [] OTHER -> view

(***************************************************************************)
(* The stream: messages up to the snapshot are skipped, and a missed       *)
(* revision ends it, which makes the session join again at once.           *)
(***************************************************************************)
\* Plausible bug: a missed revision is not noticed.
AlwaysContiguous(s, m) == TRUE

Contiguous(s, m) == m.revision = s.last + 1

Out(c) == [client EXCEPT ![c].phase = "out", ![c].token = NoToken]

Deliver(c) ==
  LET t == client[c].token
      s == streams[t]
      m == Head(s.queue)
  IN /\ client[c].phase = "live" /\ s.ended = "no" /\ s.queue # <<>>
     /\ \/ /\ m.revision <= s.last
           /\ streams' = [streams EXCEPT ![t].queue = Tail(@)]
           /\ UNCHANGED client
        \/ /\ m.revision > s.last /\ Contiguous(s, m)
           /\ streams' = [streams EXCEPT ![t].queue = Tail(@), ![t].last = m.revision]
           /\ client' = [client EXCEPT ![c].view = Reduce(@, m.message)]
        \/ /\ m.revision > s.last /\ ~Contiguous(s, m)
           /\ client' = Out(c) /\ UNCHANGED streams
     /\ UNCHANGED <<roster, retained, events, revision, joins, update, claimed, boundVars>>

\* the stream of an expired lease ends; that of a replaced session fails
End(c) ==
  /\ client[c].phase = "live" /\ streams[client[c].token].ended # "no"
  /\ client' = IF streams[client[c].token].ended = "departed" THEN Out(c)
               ELSE [Out(c) EXCEPT ![c].phase = "failed"]
  /\ UNCHANGED <<hubVars, update, claimed, boundVars>>

(***************************************************************************)
(* A transient failure of the attempt: the connection, the handshake       *)
(* deadline, a heartbeat without answer.  The view is emptied.             *)
(***************************************************************************)
PresentUnknown(clients, c) == [clients EXCEPT ![c].view = Unknown]

Disconnect(c) ==
  /\ client[c].phase \in {"joining", "accepted", "live"} /\ Disturb
  /\ client' = PresentUnknown(Out(c), c)
  /\ UNCHANGED <<hubVars, update, claimed>>

\* the hub of the space moves: nothing of it is kept
HubMoves ==
  /\ Disturb
  /\ roster' = [c \in Clients |-> NoMember] /\ retained' = [c \in Clients |-> None]
  /\ events' = {} /\ revision' = 0 /\ streams' = << >>
  /\ client' = [c \in Clients |->
       IF client[c].phase \in {"joining", "accepted", "live"}
       THEN PresentUnknown(Out(c), c)[c] ELSE client[c]]
  /\ update' = [c \in Clients |->
       IF update[c].status = "sent" THEN [update[c] EXCEPT !.status = "refused"]
       ELSE update[c]]
  /\ UNCHANGED <<joins, claimed>>

\* the application closes a session it is not updating
Close(c) ==
  /\ client[c].phase \notin {"failed", "closed"} /\ ~Updating(c) /\ Disturb
  /\ client' = [Out(c) EXCEPT ![c].phase = "closed"]
  /\ UNCHANGED <<hubVars, update, claimed>>

(***************************************************************************)
(* updateMember: the profile is sent for the session's token, applied by   *)
(* the hub if that is current, and recorded for later joins when the hub's *)
(* answer arrives.  Without an answer the request may still be under way,  *)
(* until it is interrupted before the next one.                            *)
(***************************************************************************)
UpdateMember(c) ==
  /\ client[c].phase = "live" /\ ~Updating(c) /\ Publication
  /\ \E v \in Values :
       /\ update' = [update EXCEPT ![c] =
                       [status |-> "sent", token |-> client[c].token, value |-> v]]
       /\ claimed' = [claimed EXCEPT ![c] = @ \cup {v}]
  /\ UNCHANGED <<hubVars, client>>

UpdateAtHub(c) ==
  LET current == Current(c, update[c].token)
      answer(status) ==
        update' = [update EXCEPT ![c].status =
                     IF update[c].status = "lost" THEN "none" ELSE status]
  IN /\ update[c].status \in {"sent", "lost"}
     /\ \/ /\ current /\ answer("applied")
           /\ roster' = [roster EXCEPT ![c].value = update[c].value]
           /\ Publish(streams, <<Message("MemberUpserted", c, update[c].value)>>)
        \/ /\ ~current /\ answer("refused")
           /\ UNCHANGED <<roster, streams, revision>>
     /\ UNCHANGED <<retained, events, joins, client, claimed, boundVars>>

UpdateAnswered(c) ==
  LET accepted == update[c].status = "applied"
  IN /\ update[c].status \in {"applied", "refused"}
     /\ update' = [update EXCEPT ![c].status = "none"]
     /\ client' = IF accepted THEN [client EXCEPT ![c].profile = update[c].value] ELSE client
     /\ claimed' = IF accepted THEN [claimed EXCEPT ![c] = {update[c].value}] ELSE claimed
     /\ UNCHANGED <<hubVars, boundVars>>

UpdateFails(c) ==
  /\ Updating(c) /\ Disturb
  /\ update' = [update EXCEPT ![c].status =
                  IF update[c].status = "sent" THEN "lost" ELSE "none"]
  /\ UNCHANGED <<hubVars, client, claimed>>

(***************************************************************************)
(* A space nobody has joined yet, and sessions just opened.                *)
(***************************************************************************)
ChannelInit ==
  /\ roster = [c \in Clients |-> NoMember] /\ retained = [c \in Clients |-> None]
  /\ events = {} /\ revision = 0 /\ streams = << >> /\ joins = NoToken
  /\ client = [c \in Clients |->
       [phase |-> "out", token |-> NoToken, profile |-> First, value |-> First,
        view |-> Unknown]]
  /\ update = [c \in Clients |-> [status |-> "none", token |-> NoToken, value |-> First]]
  /\ claimed = [c \in Clients |-> {First}]
  /\ publications = 0 /\ disturbances = 0

Session(c) == BeginJoin(c) \/ Start(c) \/ Deliver(c) \/ End(c) \/ UpdateAnswered(c)

Hub(c) == Join(c) \/ UpdateAtHub(c) \/ RemoveState(c) \/ ClearEvent(c) \/ Expire(c)

Application(c) ==
  SetState(c) \/ PublishEvent(c) \/ UpdateMember(c) \/ Heartbeat(c) \/ Close(c)

Failure(c) == Revoke(c) \/ Disconnect(c) \/ UpdateFails(c)

ChannelNext ==
  \/ \E c \in Clients : Session(c) \/ Hub(c) \/ Application(c) \/ Failure(c)
  \/ \E t \in DOMAIN streams : Release(t)
  \/ HubMoves

ChannelSpec == ChannelInit /\ [][ChannelNext]_channelVars

(***************************************************************************)
(* The client's and the hub's fibers run, and the hub notices a stream     *)
(* nobody reads.  No timer is required to fire.                            *)
(***************************************************************************)
ChannelFairness ==
  /\ \A c \in Clients :
       /\ WF_channelVars(BeginJoin(c)) /\ WF_channelVars(Join(c)) /\ WF_channelVars(Start(c))
       /\ WF_channelVars(Deliver(c)) /\ WF_channelVars(End(c))
       /\ WF_channelVars(UpdateAtHub(c)) /\ WF_channelVars(UpdateAnswered(c))
  /\ WF_channelVars(\E t \in DOMAIN streams : Release(t))

FairChannel == ChannelSpec /\ ChannelFairness

(***************************************************************************)
(* Properties.                                                             *)
(***************************************************************************)

\* what a stream has still to bring
Missing(s) == {m \in ToSet(s.queue) : m.revision > s.last}

(* The last of the messages of these kinds about d, if there are any,      *)
(* changes what is shown of d to the value the hub has.                    *)
Brings(messages, kinds, d, shown, value) ==
  LET about == {m \in messages : m.message.kind \in kinds /\ m.message.client = d}
  IN \/ about = {} /\ shown = value
     \/ \E m \in about : /\ m.message.value = value
                        /\ \A n \in about : n.revision <= m.revision

Shows(messages, view) ==
  \A d \in Clients :
    /\ Brings(messages, MemberKinds, d, view.members[d], roster[d].value)
    /\ Brings(messages, StateKinds, d, view.states[d], retained[d])

(* A joined session's view, with the messages its queue still holds, is    *)
(* exactly the hub's roster and retained states, unless the next message   *)
(* shows a gap: what slid out of the queue, was published while the        *)
(* session joined, or before its snapshot, is never missed silently        *)
(* (EphemeralHub.ts join, EphemeralView.reduce).                           *)
ViewTracksHub ==
  \A c \in Clients : client[c].phase = "live" =>
    LET s == streams[client[c].token]
    IN \/ Missing(s) # {} /\ \A m \in Missing(s) : m.revision # s.last + 1
       \/ Shows(Missing(s), client[c].view)

(* While an application knows the outcome of its last updateMember, the    *)
(* roster shows that profile and no older one, through every way a session *)
(* can join again (EphemeralClient.ts joinAttempt, updateMember).          *)
UpdatesHold ==
  \A c \in Clients :
    /\ ~Updating(c)
    /\ client[c].phase = "live" /\ Current(c, client[c].token)
    => roster[c].value \in claimed[c]

(* When failures and publications stop, every session is joined and shows  *)
(* what the hub has, or has failed; and the roster holds exactly the       *)
(* members that are joined: no expired, replaced or closed session leaves  *)
(* a ghost, and no joined one is missing.                                  *)
Converged ==
  \A c \in Clients :
    \/ /\ client[c].phase = "live" /\ Current(c, client[c].token)
       /\ client[c].view = Content
    \/ client[c].phase \in {"failed", "closed"} /\ roster[c] = NoMember

PresenceConverges == <>[]Converged
=============================================================================
