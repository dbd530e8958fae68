----------------------------- MODULE RpcSession -----------------------------
(***************************************************************************)
(* The calls of a sync client over one WebSocket, packages/local-rpc/src.  *)
(*                                                                         *)
(* internal/protocolSocket.ts keeps one connection at a time and fails the *)
(* requests of a connection with it.  ProtocolSession.ts remembers the     *)
(* protocol version that was negotiated and shares it between the calls;   *)
(* internal/protocolSession.ts sends a call whose version is rejected once *)
(* more.  SyncClient.ts bounds every call, Authentication.ts puts the      *)
(* credential on every request, SyncServer.ts checks both, and             *)
(* SpaceEntity.ts serves the call.                                         *)
(*                                                                         *)
(* Every connection may reach a server of another release, as while a      *)
(* deployment rolls.  A caller whose credential is rejected waits for      *)
(* another one, as the reconciler does, and calls again.  The content of   *)
(* requests and the result of a call that was served are left out, and so  *)
(* is the assertion of the principal that the server's front sends along,  *)
(* which outlives the call.  The messages of one call keep their order.    *)
(***************************************************************************)
EXTENDS Naturals, Sequences, FiniteSets, SequencesExt

CONSTANTS
  Callers,         \* those who make one call each
  Journeys,        \* what they may call: functions from callers to operations
  Supported,       \* the protocol versions of the client
  Releases,        \* the releases of the server: sets of protocol versions
  Hides,           \* retryTransientErrors: a failed dial is kept from idle callers
  Nobody,          \* no caller, no version
  MaxTroubles      \* bound on lost connections, failed dials, and changes of credentials

Operations == {"Submit", "Bootstrap", "Watch"}

ASSUME SessionAssumption ==
  /\ Nobody \notin Callers \cup {"rejected"}
  /\ \A j \in Journeys : j \in [Callers -> Operations]
  /\ Supported \in SUBSET (Nat \ {0}) /\ IsFiniteSet(Supported)
  /\ \A r \in Releases : r \in SUBSET (Nat \ {0}) /\ IsFiniteSet(r) /\ r /= {}
  /\ Hides \in BOOLEAN /\ MaxTroubles \in Nat

VARIABLES
  socket,      \* the connection: its number, the release it reaches, and whether it works
  refusing,    \* currentError: requests fail before they are sent
  routes,      \* requestClientMap: the callers with a request under way
  request,     \* the request of each caller on its way to the server
  reply,       \* the answer on its way back
  call,        \* each call, as its caller sees it
  gate,        \* the semaphore of the session: its holder, then those who wait
  selected,    \* the version the session remembers; history: the connection it was agreed on
  admission,   \* the callers whose submissions wait for the space or hold it, in order
  page,        \* the caller whose bootstrap page the space prepares
  credential,  \* the generation of the credential the provider has
  revoked,     \* the generations the authenticator no longer accepts
  troubles     \* history: what the bound counts

wireVars == <<socket, refusing, routes, request, reply>>
clientVars == <<call, gate, selected>>
entityVars == <<admission, page>>
sessionVars ==
  <<wireVars, clientVars, entityVars, credential, revoked, troubles>>

NoVersion == [version |-> Nobody, on |-> 0]
NoMessage == [kind |-> "none"]

\* retry: the version was rejected once.  History: the rejected version and the
\* connections of the rejections.
NewCall(op) ==
  [op |-> op, phase |-> "idle", version |-> NoVersion, retry |-> FALSE,
   generation |-> 0, outcome |-> Nobody, rejected |-> NoVersion, last |-> 0]

SessionInit ==
  /\ \E j \in Journeys : call = [c \in Callers |-> NewCall(j[c])]
  /\ socket = [state |-> "down", number |-> 0, release |-> {}]
  /\ refusing = FALSE /\ routes = {}
  /\ request = [c \in Callers |-> NoMessage]
  /\ reply = [c \in Callers |-> NoMessage]
  /\ gate = <<>> /\ selected = NoVersion
  /\ admission = <<>> /\ page = Nobody
  /\ credential = 0 /\ revoked = {}
  /\ troubles = 0

----------------------------------------------------------------------------
(***************************************************************************)
(* Requests (protocolSocket.ts).                                           *)
(***************************************************************************)
\* send: refused while the last connection's error stands; written at once on
\* a connection, or when there is one.
Sends(c, kind, version) ==
  /\ routes' = routes \cup {c}
  /\ request' = [request EXCEPT ![c] =
       [kind |-> kind, version |-> version, generation |-> credential]]
  /\ reply' = [reply EXCEPT ![c] = NoMessage]

SendsNothing == UNCHANGED <<routes, request, reply>>

\* The requests of some callers are over: their routes and messages go.
Forgets(cs) ==
  /\ routes' = routes \ cs
  /\ request' = [c \in Callers |-> IF c \in cs THEN NoMessage ELSE request[c]]
  /\ reply' = [c \in Callers |-> IF c \in cs THEN NoMessage ELSE reply[c]]

Ended(k, outcome) == [k EXCEPT !.phase = "done", !.outcome = outcome]

\* A failed request fails its call; a watch that was open ends with it.
Failed(cs, outcome) ==
  [c \in Callers |-> IF c \in cs THEN Ended(call[c], outcome) ELSE call[c]]

\* The interruption reaches the server, which gives up what it did for the call.
\* A submission that holds the space finishes its transaction first.
Abandons(cs) ==
  /\ admission' =
       SelectSeq(admission, LAMBDA e : e.caller \notin cs \/ e.holds)
  /\ page' = IF page \in cs THEN Nobody ELSE page

\* failCurrentSocket, and what it means for the calls of the connection.
FailsCurrentSocket ==
  /\ refusing' = TRUE
  /\ call' = Failed(routes, "unavailable")
  /\ gate' = SelectSeq(gate, LAMBDA c : c \notin routes)
  /\ Forgets(routes)
  /\ Abandons(routes)
  /\ UNCHANGED selected

----------------------------------------------------------------------------
(***************************************************************************)
(* The connection.                                                         *)
(***************************************************************************)
Troubled == troubles < MaxTroubles /\ troubles' = troubles + 1

Connects ==
  /\ socket.state = "down"
  /\ \E r \in Releases :
       socket' = [state |-> "up", number |-> socket.number + 1, release |-> r]
  /\ refusing' = FALSE
  /\ UNCHANGED <<routes, request, reply, clientVars, entityVars, credential,
                 revoked, troubles>>

\* A dial that fails is nobody's business while no request waits for it.
DialFails ==
  /\ socket.state = "down"
  /\ Troubled
  /\ IF Hides /\ routes = {}
     THEN UNCHANGED <<refusing, routes, request, reply, clientVars, entityVars>>
     ELSE FailsCurrentSocket
  /\ UNCHANGED <<socket, credential, revoked>>

Breaks ==
  /\ socket' = [socket EXCEPT !.state = "down", !.release = {}]
  /\ FailsCurrentSocket
  /\ UNCHANGED <<credential, revoked>>

ConnectionIsLost == socket.state = "up" /\ Troubled /\ Breaks

\* The server is gone and nothing says so.
PeerVanishes ==
  /\ socket.state = "up"
  /\ Troubled
  /\ socket' = [socket EXCEPT !.state = "silent"]
  /\ request' = [c \in Callers |-> NoMessage]
  /\ reply' = [c \in Callers |-> NoMessage]
  /\ Abandons(Callers)
  /\ UNCHANGED <<refusing, routes, clientVars, credential, revoked>>

\* makePinger: a ping without an answer ends the connection.
PingTimesOut == socket.state = "silent" /\ Breaks /\ UNCHANGED troubles

----------------------------------------------------------------------------
(***************************************************************************)
(* The version (ProtocolSession.ts).                                       *)
(***************************************************************************)
Enters(c, phase) ==
  /\ call' = [call EXCEPT ![c].phase = phase]
  /\ gate' = Append(gate, c)

Begin(c) ==
  /\ call[c].phase = "idle"
  /\ Enters(c, "version")
  /\ UNCHANGED <<wireVars, selected, entityVars, credential, revoked, troubles>>

\* A call goes out with a version: the route is taken or the call fails.
Goes(c, v) ==
  IF refusing
  THEN /\ call' = [call EXCEPT ![c] = Ended([@ EXCEPT !.version = v], "unavailable")]
       /\ SendsNothing
  ELSE /\ call' = [call EXCEPT ![c].phase = "sent", ![c].version = v]
       /\ Sends(c, call[c].op, v.version)

\* rejected: the version is forgotten, unless another call has agreed on a new one.
\* Plausible bug: the version that was rejected is still remembered.
Keeps(c) == selected

Cached(c) ==
  IF call[c].phase = "again" /\ selected.version = call[c].version.version
  THEN NoVersion ELSE selected

Holds(c) == gate /= <<>> /\ Head(gate) = c

\* version and rejected, under the gate: a remembered version is used at once.
UsesVersion(c) ==
  /\ Holds(c) /\ call[c].phase \in {"version", "again"}
  /\ Cached(c) /= NoVersion
  /\ gate' = Tail(gate)
  /\ Goes(c, Cached(c))
  /\ UNCHANGED <<socket, refusing, selected, entityVars, credential, revoked, troubles>>

\* negotiateUnlocked: otherwise the gate is held until the server has answered.
Negotiates(c) ==
  /\ Holds(c) /\ call[c].phase \in {"version", "again"}
  /\ Cached(c) = NoVersion
  /\ selected' = NoVersion
  /\ IF refusing
     THEN /\ call' = [call EXCEPT ![c] = Ended(@, "unavailable")]
          /\ gate' = Tail(gate)
          /\ SendsNothing
     ELSE /\ call' = [call EXCEPT ![c].phase = "negotiating"]
          /\ Sends(c, "Negotiate", Nobody)
          /\ UNCHANGED gate
  /\ UNCHANGED <<socket, refusing, entityVars, credential, revoked, troubles>>

Agreed(c) ==
  /\ call[c].phase = "negotiating" /\ reply[c].kind = "version"
  /\ LET v == [version |-> reply[c].version, on |-> socket.number] IN
       selected' = v /\ Goes(c, v)
  /\ gate' = Tail(gate)
  /\ UNCHANGED entityVars

\* sessionAcquisitionTimeout bounds the wait for the gate and the negotiation,
\* rpcTimeout the call; a watch is bounded until it is open.
TimesOut(c) ==
  /\ call[c].phase \in {"version", "again", "negotiating", "sent"}
  /\ call' = Failed({c}, "timeout")
  /\ gate' = SelectSeq(gate, LAMBDA d : d /= c)
  /\ Forgets({c})
  /\ Abandons({c})
  /\ UNCHANGED <<socket, refusing, selected, credential, revoked, troubles>>

----------------------------------------------------------------------------
(***************************************************************************)
(* The server: the front (SyncServer.ts, Authentication.ts).               *)
(***************************************************************************)
Answer(c, kind, version) ==
  [kind |-> kind, version |-> version, generation |-> request[c].generation]

Takes(c) == request' = [request EXCEPT ![c] = NoMessage]

Replies(c, kind) ==
  /\ Takes(c)
  /\ reply' = [reply EXCEPT ![c] = Answer(c, kind, Nobody)]

Common == Supported \cap socket.release

\* authenticate; the rejection names the generation that came with the request.
\* Plausible bug: the rejection does not say which credential it is about, and the
\* caller takes it for the one the provider has by now.
AnyGeneration(c) == credential

RejectedGeneration(c) == reply[c].generation

\* The five ways a request ends in front of the space.
Fronts(c) ==
  /\ \/ /\ request[c].generation \in revoked
        /\ Replies(c, "credential")
     \/ /\ request[c].generation \notin revoked
        /\ request[c].kind = "Negotiate"
        /\ Takes(c)
        /\ \/ /\ Common = {}
              /\ reply' = [reply EXCEPT ![c] = Answer(c, "upgrade", Nobody)]
           \/ \E v \in Common :
                /\ \A u \in Common : u <= v
                /\ reply' = [reply EXCEPT ![c] = Answer(c, "version", v)]
     \/ /\ request[c].generation \notin revoked
        /\ request[c].kind /= "Negotiate"
        /\ request[c].version \notin socket.release
        /\ Replies(c, "rejected")
  /\ UNCHANGED entityVars

----------------------------------------------------------------------------
(***************************************************************************)
(* The server: the space (SpaceEntity.ts).                                 *)
(***************************************************************************)
Passes(c) ==
  /\ request[c].kind \in Operations
  /\ request[c].generation \notin revoked
  /\ request[c].version \in socket.release

\* SubmitBatch and Discard wait for the space, one after the other.
Queues(c) ==
  /\ request[c].kind = "Submit"
  /\ Takes(c)
  /\ admission' = Append(admission, [caller |-> c, holds |-> FALSE])
  /\ UNCHANGED <<reply, page>>

\* Bootstrap: a page is prepared if none is; otherwise the call is refused.
Prepares(c) ==
  /\ request[c].kind = "Bootstrap"
  /\ IF page = Nobody
     THEN Takes(c) /\ page' = c /\ UNCHANGED reply
     ELSE Replies(c, "capacity") /\ UNCHANGED page
  /\ UNCHANGED admission

Watched(c) ==
  /\ request[c].kind = "Watch"
  /\ Replies(c, "open")
  /\ UNCHANGED entityVars

Receives(c) ==
  /\ socket.state = "up"
  /\ request[c] /= NoMessage
  /\ \/ Fronts(c)
     \/ Passes(c) /\ (Queues(c) \/ Prepares(c) \/ Watched(c))
  /\ UNCHANGED <<socket, refusing, routes, clientVars, credential, revoked, troubles>>

Admits ==
  /\ admission /= <<>> /\ ~Head(admission).holds
  /\ admission' = [admission EXCEPT ![1].holds = TRUE]
  /\ UNCHANGED <<wireVars, clientVars, page, credential, revoked, troubles>>

\* mapClient: what the space answers, or that its runner could not take the call.
Outcomes == {"ok", "unavailable"}

Served(c, outcome) ==
  IF c \in routes /\ call[c].phase = "sent" /\ socket.state = "up" /\ request[c] = NoMessage
  THEN reply' = [reply EXCEPT ![c] =
         [kind |-> outcome, version |-> Nobody, generation |-> 0]]
  ELSE UNCHANGED reply

Admitted ==
  /\ admission /= <<>> /\ Head(admission).holds
  /\ admission' = Tail(admission)
  /\ \E outcome \in Outcomes : Served(Head(admission).caller, outcome)
  /\ UNCHANGED <<socket, refusing, routes, request, clientVars, page, credential,
                 revoked, troubles>>

Prepared ==
  /\ page /= Nobody
  /\ page' = Nobody
  /\ \E outcome \in Outcomes : Served(page, outcome)
  /\ UNCHANGED <<socket, refusing, routes, request, clientVars, admission, credential,
                 revoked, troubles>>

----------------------------------------------------------------------------
(***************************************************************************)
(* The answers at the client (internal/protocolSession.ts, SyncClient.ts). *)
(***************************************************************************)
\* run, runStream: the first rejection is answered with another attempt.
RejectedOnce(c) ==
  /\ ~call[c].retry
  /\ call' = [call EXCEPT
       ![c].phase = "again", ![c].retry = TRUE,
       ![c].rejected = [version |-> call[c].version.version, on |-> socket.number]]
  /\ gate' = Append(gate, c)

RejectedAgain(c) ==
  /\ call[c].retry
  /\ call' = [call EXCEPT ![c] = Ended([@ EXCEPT !.last = socket.number], "rejected")]
  /\ UNCHANGED gate

\* The reconciler waits for a credential other than the rejected one.
Pauses(c) ==
  /\ call' = [call EXCEPT
       ![c].phase = "paused", ![c].generation = RejectedGeneration(c), ![c].retry = FALSE]
  /\ gate' = SelectSeq(gate, LAMBDA d : d /= c)

Fails(c) ==
  /\ call' = Failed({c}, reply[c].kind)
  /\ gate' = SelectSeq(gate, LAMBDA d : d /= c)

\* The stream of a watch keeps its route; its answers are the wakes.
Opens(c) ==
  /\ call' = [call EXCEPT ![c].phase = "watching"]
  /\ reply' = [reply EXCEPT ![c] = NoMessage]
  /\ UNCHANGED <<routes, request, gate>>

Delivered(c) ==
  \/ Agreed(c)
  \/ /\ \/ reply[c].kind = "rejected" /\ (RejectedOnce(c) \/ RejectedAgain(c))
        \/ reply[c].kind = "credential" /\ Pauses(c)
        \/ reply[c].kind \in {"ok", "unavailable", "capacity", "upgrade"} /\ Fails(c)
     /\ Forgets({c})
     /\ UNCHANGED <<selected, entityVars>>
  \/ reply[c].kind = "open" /\ Opens(c) /\ UNCHANGED <<selected, entityVars>>

Delivers(c) ==
  /\ socket.state = "up"
  /\ Delivered(c)
  /\ UNCHANGED <<socket, refusing, credential, revoked, troubles>>

----------------------------------------------------------------------------
(***************************************************************************)
(* Credentials (Authentication.ts).                                        *)
(***************************************************************************)
CredentialChanges ==
  /\ Troubled
  /\ credential' = credential + 1
  /\ UNCHANGED <<wireVars, clientVars, entityVars, revoked>>

Revokes ==
  /\ credential \notin revoked
  /\ Troubled
  /\ revoked' = 0 .. credential
  /\ UNCHANGED <<wireVars, clientVars, entityVars, credential>>

\* awaitChange: there is a credential of another generation.
Resumes(c) ==
  /\ call[c].phase = "paused"
  /\ credential /= call[c].generation
  /\ Enters(c, "version")
  /\ UNCHANGED <<wireVars, selected, entityVars, credential, revoked, troubles>>

----------------------------------------------------------------------------
SessionNext ==
  \/ Connects \/ DialFails \/ ConnectionIsLost \/ PeerVanishes \/ PingTimesOut
  \/ \E c \in Callers :
       \/ Begin(c) \/ UsesVersion(c) \/ Negotiates(c) \/ TimesOut(c)
       \/ Receives(c) \/ Delivers(c) \/ Resumes(c)
  \/ Admits \/ Admitted \/ Prepared
  \/ CredentialChanges \/ Revokes

SessionSpec == SessionInit /\ [][SessionNext]_sessionVars

\* The socket dials again and pings, messages arrive, the fibers of the client and
\* the server run and their timers fire.  Nobody has to call or to refresh a
\* credential.
SessionFairness ==
  /\ WF_sessionVars(Connects) /\ WF_sessionVars(PingTimesOut)
  /\ WF_sessionVars(Admits) /\ WF_sessionVars(Admitted) /\ WF_sessionVars(Prepared)
  /\ \A c \in Callers :
       /\ WF_sessionVars(UsesVersion(c)) /\ WF_sessionVars(Negotiates(c))
       /\ WF_sessionVars(TimesOut(c)) /\ WF_sessionVars(Receives(c))
       /\ WF_sessionVars(Delivers(c)) /\ WF_sessionVars(Resumes(c))

----------------------------------------------------------------------------
(***************************************************************************)
(* A call fails because of its version only where nothing could be agreed  *)
(* on: its second version was agreed on over another connection than the   *)
(* one that rejected it, and it was either another version than the first  *)
(* or the connection changed between the two rejections.  So no deployment *)
(* that has settled can halt a space, although the calls share the         *)
(* remembered version and one of them may be in flight while another       *)
(* renews it.  (docs/sync.md: clears the cached selection, negotiates      *)
(* against the new peer, and retries once.)                                *)
(***************************************************************************)
RejectedByChangeOnly ==
  \A c \in Callers :
    call[c].outcome = "rejected" =>
      /\ call[c].version.on /= call[c].last
      /\ \/ call[c].version.version /= call[c].rejected.version
         \/ call[c].rejected.on /= call[c].last

(***************************************************************************)
(* Once the troubles are over no call is stuck: it has ended, or it is a   *)
(* watch on a connection that works, or its credential was rejected and    *)
(* the provider has no accepted one.  A watch, which no timeout bounds, is  *)
(* over when its server is, although nothing arrives to say so; and no     *)
(* caller waits while the provider has a credential that is accepted, one  *)
(* that came while the old one was being rejected included.                *)
(***************************************************************************)
Settled(c) ==
  \/ call[c].phase \in {"idle", "done"}
  \/ call[c].phase = "watching" /\ socket.state = "up"
  \/ call[c].phase = "paused" /\ credential \in revoked

EveryCallSettles == \A c \in Callers : <>[]Settled(c)
==============================================================================
