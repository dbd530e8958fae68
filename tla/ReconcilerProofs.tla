--------------------------- MODULE ReconcilerProofs ---------------------------
(***************************************************************************)
(* Proofs about Reconciler for every number of callers and workers, every  *)
(* set of failures and any number of registrations.                        *)
(***************************************************************************)
EXTENDS Reconciler, TLAPS

USE ConstantsAssumption

(***************************************************************************)
(* Type correctness, with the values of the records spelled out.           *)
(***************************************************************************)
Anyone == Registrations \cup {0}

Spaces == [queued : BOOLEAN, running : BOOLEAN, retrying : BOOLEAN, halted : BOOLEAN,
           gate : BOOLEAN, authenticationEpoch : Nat, dirtyEpoch : Nat]

Shared == [by : Enqueuers \cup {None}, written : BOOLEAN]

CallStates == [pc : {"idle", "run", "write", "joined", "admit"}, of : Anyone,
               on : Enqueuers \cup {None}]

TurnStates ==
  [pc : {"idle", "observe", "read", "sync", "syncing", "synced", "complete", "confirm",
         "report"},
   of : Anyone, epoch : Nat, target : Nat, seen : Nat, asked : Nat,
   kind : AllKinds \cup {None}, owner : BOOLEAN]

WatchStates ==
  [pc : {"off", "start", "open", "enqueue", "report", "delay", "resync", "stopped"},
   epoch : Nat, kind : AllKinds \cup {None}, owner : BOOLEAN]

Reports ==
  [status : {"Connecting", "Online", "Offline", "Failed", "NeedsAuthentication"},
   failed : BOOLEAN, generation : Nat]

Counts ==
  /\ requested \in Nat /\ completed \in Nat /\ promised \in Nat /\ covered \in Nat
  /\ left \in [stimuli : Nat, failures : Nat]

TypeInv ==
  /\ Counts
  /\ epochs \in 0 .. MaxRegistrations /\ registered \in 0 .. epochs
  /\ space \in Spaces
  /\ pending \in [Registrations -> Shared]
  /\ queue \in Seq(Registrations)
  /\ call \in [Enqueuers -> CallStates]
  /\ turn \in [Syncers -> TurnStates]
  /\ watch \in WatchStates
  /\ timers \in [retry : BOOLEAN, wait : BOOLEAN]
  /\ report \in Reports

(* What runs, waits or is timed belongs to a registration.                 *)
Belonging ==
  /\ \A e \in Enqueuers : call[e].pc # "idle" => call[e].of \in Registrations
  /\ registered = 0 => /\ \A s \in Syncers : turn[s].pc = "idle"
                       /\ watch.pc = "off"
                       /\ ~ timers.retry /\ ~ timers.wait

(***************************************************************************)
(* What is asked for before a sync begins, and what that sync covers.      *)
(***************************************************************************)
Bounded ==
  \A s \in Syncers :
    /\ turn[s].pc = "sync" => turn[s].target <= requested
    /\ turn[s].pc = "syncing" =>
         turn[s].target <= turn[s].asked /\ covered <= turn[s].asked /\ turn[s].asked <= requested
    /\ turn[s].pc \in {"synced", "complete"} => turn[s].target <= covered

\* layerOnePass's semaphore: one synchronization at a time.
OneSync ==
  \A s, t \in Syncers :
    turn[s].pc \in {"syncing", "synced"} /\ turn[t].pc \in {"syncing", "synced"} => s = t

Ordered == completed <= covered /\ covered <= requested

IndInv == TypeInv /\ Belonging /\ Bounded /\ OneSync /\ Ordered

(***************************************************************************)
(* The parts of the actions, typed.                                        *)
(***************************************************************************)
LEMMA Shape ==
  /\ IdleCall \in CallStates /\ IdleTurn \in TurnStates /\ NewSpace \in Spaces
  /\ NewReport \in Reports /\ NoWatch \in WatchStates /\ NoRequest \in Shared
  /\ NoTimers \in [retry : BOOLEAN, wait : BOOLEAN]
  /\ "watch" \in Enqueuers /\ "retry" \in Enqueuers /\ "wait" \in Enqueuers
  /\ "register" \in Enqueuers /\ Callers \subseteq Enqueuers
  /\ Callers \subseteq Syncers /\ Workers \subseteq Syncers
  /\ Registrations \subseteq Nat /\ Kinds \subseteq AllKinds
BY DEF IdleCall, IdleTurn, NewSpace, NewReport, NoWatch, NoRequest, NoTimers, CallStates,
       TurnStates, Spaces, Reports, WatchStates, Shared, Anyone, Enqueuers, Syncers,
       Registrations

LEMMA RequestsType ==
  ASSUME TypeInv, Belonging, NEW e \in Enqueuers, NEW g \in Registrations, Requests(e, g)
  PROVE  /\ call' \in [Enqueuers -> CallStates] /\ pending' \in [Registrations -> Shared]
         /\ \A f \in Enqueuers : call'[f].pc # "idle" => call'[f].of \in Registrations
<1>1. pending[g] \in Shared /\ call \in [Enqueuers -> CallStates]
      /\ pending \in [Registrations -> Shared]
  BY DEF TypeInv
<1> DEFINE shared == pending[g]
           step == CASE shared.by = None -> "write" [] shared.written -> "admit"
                     [] OTHER -> "joined"
<1>2. PICK pc \in {"write", "admit", "joined"}, on \in Enqueuers \cup {None} :
        call' = [call EXCEPT ![e] = [pc |-> pc, of |-> g, on |-> on]]
  <2>1. step \in {"write", "admit", "joined"}
    OBVIOUS
  <2>2. (IF step = "joined" THEN shared.by ELSE None) \in Enqueuers \cup {None}
    BY <1>1 DEF Shared
  <2>3. QED
    BY <2>1, <2>2 DEF Requests
<1>3. [pc |-> "write", of |-> g, on |-> None] \in CallStates
      /\ \A at \in {"write", "admit", "joined"}, f \in Enqueuers \cup {None} :
           [pc |-> at, of |-> g, on |-> f] \in CallStates
  BY DEF CallStates, Anyone
<1>4. call' \in [Enqueuers -> CallStates]
      /\ \A f \in Enqueuers : call'[f].pc # "idle" => call'[f].of \in Registrations
  BY <1>1, <1>2, <1>3 DEF Belonging
<1>5. [by |-> e, written |-> FALSE] \in Shared
  BY DEF Shared
<1>6. pending' \in [Registrations -> Shared]
  BY <1>1, <1>5 DEF Requests
<1>7. QED
  BY <1>4, <1>6

LEMMA SettledType ==
  ASSUME TypeInv, Belonging, NEW e \in Enqueuers, NEW written \in BOOLEAN
  PROVE  /\ Settled(e, written) \in [Enqueuers -> CallStates]
         /\ \A f \in Enqueuers : Settled(e, written)[f].pc # "idle" =>
               Settled(e, written)[f].of \in Registrations
<1>1. ASSUME NEW f \in Enqueuers
      PROVE  /\ Settled(e, written)[f] \in CallStates
             /\ Settled(e, written)[f].pc # "idle" => Settled(e, written)[f].of \in Registrations
  <2>1. call[f] \in CallStates
    BY DEF TypeInv
  <2>2. CASE Settled(e, written)[f] = call[f]
    BY <2>1, <2>2 DEF Belonging
  <2>3. ASSUME NEW pc \in {"admit", "run"}, call[f].pc = "joined",
               Settled(e, written)[f] = [call[f] EXCEPT !.pc = pc, !.on = None]
        PROVE  /\ Settled(e, written)[f] \in CallStates
               /\ Settled(e, written)[f].of \in Registrations
    BY <2>1, <2>3 DEF CallStates, Belonging
  <2>4. QED
    BY <2>2, <2>3 DEF Settled
<1>2. Settled(e, written) = [f \in Enqueuers |-> Settled(e, written)[f]]
  BY DEF Settled
<1>3. QED
  BY <1>1, <1>2

LEMMA WithdrawnType ==
  ASSUME TypeInv, NEW e \in Enqueuers
  PROVE  Withdrawn(e) \in [Registrations -> Shared]
BY Shape DEF TypeInv, Withdrawn

LEMMA ReportType ==
  ASSUME TypeInv, NEW k, NEW preserve, NEW observed
  PROVE  ReportFailure(k, preserve, observed) \in Reports
<1>1. FailureStatus(k) \in {"NeedsAuthentication", "Offline", "Failed"}
  BY DEF FailureStatus
<1>2. [report EXCEPT !.status = FailureStatus(k), !.failed = TRUE] \in Reports /\ report \in Reports
  BY <1>1 DEF TypeInv, Reports
<1>3. QED
  BY <1>2 DEF ReportFailure

LEMMA PolicyType ==
  ASSUME TypeInv, NEW k
  PROVE  AfterFailure(k) \in Spaces /\ CloseGate(k) \in Spaces /\ Transient(k) \in BOOLEAN
         /\ ClosesGate(k) \in BOOLEAN
<1>1. space \in Spaces /\ Transient(k) \in BOOLEAN /\ ClosesGate(k) \in BOOLEAN
  BY DEF TypeInv, ClosesGate, Transient, Spaces
<1>2. AfterFailure(k) \in Spaces
  BY <1>1 DEF AfterFailure, Spaces
<1>3. /\ [space EXCEPT !.halted = TRUE] \in Spaces
      /\ [space EXCEPT !.gate = TRUE, !.authenticationEpoch = @ + 1] \in Spaces
  <2>1. space.authenticationEpoch + 1 \in Nat
    BY <1>1 DEF Spaces
  <2> DEFINE n == space.authenticationEpoch + 1
  <2> HIDE DEF n
  <2>2. [space EXCEPT !.gate = TRUE, !.authenticationEpoch = n] \in Spaces
    BY <1>1, <2>1 DEF Spaces, n
  <2>3. QED
    BY <1>1, <2>2 DEF Spaces, n
<1>4. CloseGate(k) \in Spaces
  BY <1>1, <1>3 DEF CloseGate
<1>5. QED
  BY <1>1, <1>2, <1>4

(* finishTurn, with the state it ends on.                                  *)
LEMMA FinishType ==
  ASSUME TypeInv, NEW w \in Syncers, NEW state \in Spaces, registered # 0, Finish(w, state)
  PROVE  space' \in Spaces /\ queue' \in Seq(Registrations) /\ turn' \in [Syncers -> TurnStates]
         /\ registered \in Registrations
<1>1. registered \in Registrations /\ queue \in Seq(Registrations)
  BY DEF TypeInv, Registrations
<1>2. space' \in Spaces
  BY DEF Finish, Spaces
<1>3. queue' \in Seq(Registrations)
  BY <1>1 DEF Finish
<1>4. turn' \in [Syncers -> TurnStates]
  BY Shape DEF Finish, TypeInv
<1>5. QED
  BY <1>1, <1>2, <1>3, <1>4

(***************************************************************************)
(* Every action keeps the types.                                           *)
(***************************************************************************)
LEMMA EnqueueTypes ==
  ASSUME TypeInv, Belonging, NEW e \in Enqueuers, Enqueues(e)
  PROVE  TypeInv' /\ Belonging'
<1>1. CASE RunAgain(e)
  <2>1. call[e].of \in Registrations
    BY <1>1 DEF RunAgain, Belonging
  <2>2. QED
    BY <1>1, <2>1, RequestsType DEF RunAgain, TypeInv, Belonging, Counts, durable, history
<1>2. CASE Write(e)
  <2>1. requested' \in Nat
    BY <1>2 DEF Write, TypeInv, Counts
  <2>2. call' \in [Enqueuers -> CallStates]
        /\ \A f \in Enqueuers : call'[f].pc # "idle" => call'[f].of \in Registrations
    <3>1. Settled(e, TRUE)[e] = call[e]
      BY <1>2 DEF Write, Settled
    <3>2. [call[e] EXCEPT !.pc = "admit"] \in CallStates
          /\ [call[e] EXCEPT !.pc = "admit"].of = call[e].of /\ call[e].of \in Registrations
      BY <1>2 DEF Write, TypeInv, CallStates, Belonging
    <3>3. call' = [Settled(e, TRUE) EXCEPT ![e] = [call[e] EXCEPT !.pc = "admit"]]
      BY <1>2, <3>1, SettledType DEF Write
    <3>4. QED
      BY <3>2, <3>3, SettledType
  <2>3. pending' \in [Registrations -> Shared]
    <3>1. \A g \in Registrations : pending[g] \in Shared
      BY DEF TypeInv
    <3> DEFINE g == call[e].of
               v == pending[g].written \/ pending[g].by = e
    <3>2. pending' = [pending EXCEPT ![g] = [pending[g] EXCEPT !.written = v]]
      BY <1>2 DEF Write
    <3>3. g \in Registrations
      BY <1>2 DEF Write, Belonging
    <3>4. v \in BOOLEAN
      OBVIOUS
    <3> HIDE DEF v
    <3>5. [pending[g] EXCEPT !.written = v] \in Shared
      <4>1. pending[g] \in Shared
        BY <3>1, <3>3
      <4>2. QED
        BY <3>4, <4>1 DEF Shared
    <3>6. QED
      BY <3>2, <3>5 DEF TypeInv
  <2>4. QED
    BY <1>2, <2>1, <2>2, <2>3 DEF Write, TypeInv, Counts, Belonging, history
<1>3. CASE Admit(e)
  <2>1. call' \in [Enqueuers -> CallStates]
        /\ \A f \in Enqueuers : call'[f].pc # "idle" => call'[f].of \in Registrations
    BY <1>3, Shape DEF Admit, TypeInv, Belonging, IdleCall
  <2>2. space' \in Spaces /\ queue' \in Seq(Registrations) /\ promised' \in Nat
    <3>1. CASE call[e].of = registered
      <4>1. registered \in Registrations
        BY <1>3, <3>1 DEF Admit, Belonging
      <4>2. space.dirtyEpoch + 1 \in Nat /\ space \in Spaces
        BY DEF TypeInv, Spaces
      <4>3. Admission \in Spaces
        BY <4>2 DEF Admission, Spaces
      <4>4. space' = Admission /\ queue' = Offered(space') /\ promised' = requested
        BY <1>3, <3>1 DEF Admit
      <4>5. queue' \in Seq(Registrations)
        BY <4>1, <4>4 DEF Offered, TypeInv
      <4>6. QED
        BY <4>3, <4>4, <4>5 DEF TypeInv, Counts
    <3>2. CASE call[e].of # registered
      BY <1>3, <3>2 DEF Admit, TypeInv, Counts
    <3>3. QED
      BY <3>1, <3>2
  <2>3. watch' \in WatchStates /\ (watch'.pc = "off" <=> watch.pc = "off")
    BY <1>3 DEF Admit, TypeInv, WatchStates
  <2>4. QED
    BY <1>3, <2>1, <2>2, <2>3 DEF Admit, TypeInv, Counts, Belonging, durable
<1>4. QED
  BY <1>1, <1>2, <1>3 DEF Enqueues

LEMMA UnregisteredTypes ==
  ASSUME TypeInv, Belonging, Unregistered, left' \in [stimuli : Nat, failures : Nat],
         call' \in [Enqueuers -> CallStates],
         \A f \in Enqueuers : call'[f].pc # "idle" => call'[f].of \in Registrations,
         pending' \in [Registrations -> Shared], queue' \in Seq(Registrations)
  PROVE  TypeInv' /\ Belonging'
<1>1. registered' = 0 /\ 0 \in 0 .. epochs /\ epochs' = epochs
  BY DEF Unregistered, TypeInv
<1>2. Counts'
  BY DEF Unregistered, TypeInv, Counts, durable
<1>3. TypeInv'
  BY <1>1, <1>2, Shape DEF Unregistered, TypeInv
<1>4. Belonging'
  BY DEF Unregistered, Belonging, IdleTurn, NoWatch, NoTimers
<1>5. QED
  BY <1>3, <1>4

LEMMA RegistrationTypes ==
  ASSUME TypeInv, Belonging, Register \/ Unregister \/ Restart
  PROVE  TypeInv' /\ Belonging'
<1>1. CASE Unregister
  <2>1. call' \in [Enqueuers -> CallStates]
        /\ \A f \in Enqueuers : call'[f].pc # "idle" => call'[f].of \in Registrations
    BY <1>1, Shape, SettledType DEF Unregister, IdleCall
  <2>2. pending' \in [Registrations -> Shared]
    BY <1>1, Shape, WithdrawnType DEF Unregister
  <2>3. QED
    BY <1>1, <2>1, <2>2, UnregisteredTypes DEF Unregister, TypeInv, Counts
<1>2. CASE Restart
  <2>1. call' \in [Enqueuers -> CallStates] /\ pending' \in [Registrations -> Shared]
        /\ queue' \in Seq(Registrations)
        /\ \A f \in Enqueuers : call'[f].pc = "idle"
    BY <1>2, Shape DEF Restart, IdleCall
  <2>2. QED
    BY <1>2, <2>1, UnregisteredTypes DEF Restart, TypeInv, Counts
<1>3. CASE Register
  <2>1. epochs' \in Registrations /\ epochs' \in 0 .. MaxRegistrations
        /\ registered' \in 0 .. epochs' /\ registered' # 0
    BY <1>3 DEF Register, TypeInv, Registrations
  <2>2. PICK g \in Registrations : g = epochs' /\ Requests("register", g)
    BY <1>3, <2>1 DEF Register
  <2>3. call' \in [Enqueuers -> CallStates] /\ pending' \in [Registrations -> Shared]
        /\ \A f \in Enqueuers : call'[f].pc # "idle" => call'[f].of \in Registrations
    BY <2>2, Shape, RequestsType
  <2>4. watch' \in WatchStates
    BY <1>3, Shape DEF Register, WatchStates
  <2>5. Counts' /\ space' \in Spaces /\ report' \in Reports
    BY <1>3, Shape DEF Register, TypeInv, Counts, durable, history
  <2>6. TypeInv'
    BY <1>3, <2>1, <2>3, <2>4, <2>5 DEF Register, TypeInv
  <2>7. QED
    BY <2>1, <2>3, <2>6 DEF Belonging
<1>4. QED
  BY <1>1, <1>2, <1>3

LEMMA LeftTypes ==
  ASSUME TypeInv
  PROVE  /\ left.stimuli > 0 =>
              [left EXCEPT !.stimuli = @ - 1] \in [stimuli : Nat, failures : Nat]
         /\ left.failures > 0 =>
              [left EXCEPT !.failures = @ - 1] \in [stimuli : Nat, failures : Nat]
<1> DEFINE m == left.stimuli - 1
           n == left.failures - 1
<1>1. left \in [stimuli : Nat, failures : Nat] /\ left.stimuli \in Nat /\ left.failures \in Nat
  BY DEF TypeInv, Counts
<1>2. (left.stimuli > 0 => m \in Nat) /\ (left.failures > 0 => n \in Nat)
  BY <1>1
<1> HIDE DEF m, n
<1>3. /\ m \in Nat => [left EXCEPT !.stimuli = m] \in [stimuli : Nat, failures : Nat]
      /\ n \in Nat => [left EXCEPT !.failures = n] \in [stimuli : Nat, failures : Nat]
  BY <1>1
<1>4. QED
  BY <1>2, <1>3 DEF m, n

LEMMA ApplicationTypes ==
  ASSUME TypeInv, Belonging, Application
  PROVE  TypeInv' /\ Belonging'
<1>1. PICK c \in Callers : Notify(c) \/ MutateAndSchedule(c) \/ SyncNow(c) \/ Interrupt(c)
  BY DEF Application
<1>2. c \in Enqueuers /\ c \in Syncers
  BY Shape
<1>3. left' \in [stimuli : Nat, failures : Nat]
  BY <1>1, LeftTypes DEF Notify, MutateAndSchedule, SyncNow, Calls, Interrupt
<1>4. ~ Interrupt(c) => registered \in Registrations
  BY <1>1 DEF Notify, MutateAndSchedule, SyncNow, Calls, TypeInv, Registrations
<1>5. CASE Notify(c)
  <2>1. PICK g \in Registrations : g = registered /\ Requests(c, g)
    BY <1>1, <1>4, <1>5 DEF Notify, Calls, TypeInv, Registrations
  <2>2. QED
    BY <1>2, <1>3, <1>5, <2>1, RequestsType DEF Notify, TypeInv, Counts, Belonging, durable, history
<1>6. CASE MutateAndSchedule(c)
  <2>1. registered \in Registrations
    BY <1>6 DEF MutateAndSchedule, Calls, TypeInv, Registrations
  <2>2. [IdleCall EXCEPT !.pc = "admit", !.of = registered] \in CallStates
        /\ [IdleCall EXCEPT !.pc = "admit", !.of = registered].of = registered
    BY <2>1 DEF IdleCall, CallStates, Anyone
  <2>3. requested' \in Nat
    BY <1>6 DEF MutateAndSchedule, TypeInv, Counts
  <2>4. QED
    BY <1>2, <1>3, <1>6, <2>1, <2>2, <2>3 DEF MutateAndSchedule, TypeInv, Counts, Belonging, history
<1>7. CASE SyncNow(c)
  <2>1. registered # 0 /\ registered \in Anyone
    BY <1>7 DEF SyncNow, Calls, TypeInv, Registrations, Anyone
  <2>2. [IdleTurn EXCEPT !.pc = "sync", !.of = registered] \in TurnStates
    BY <2>1, Shape DEF IdleTurn, TurnStates
  <2>3. QED
    BY <1>2, <1>3, <1>7, <2>1, <2>2 DEF SyncNow, TypeInv, Counts, Belonging, durable, history
<1>8. CASE Interrupt(c)
  <2>1. requested' \in Nat
    BY <1>8 DEF Interrupt, TypeInv, Counts
  <2>2. call' \in [Enqueuers -> CallStates] /\ pending' \in [Registrations -> Shared]
        /\ \A f \in Enqueuers : call'[f].pc # "idle" => call'[f].of \in Registrations
    BY <1>2, <1>8, Shape, SettledType, WithdrawnType DEF Interrupt, IdleCall
  <2>3. QED
    BY <1>3, <1>8, <2>1, <2>2 DEF Interrupt, TypeInv, Counts, Belonging, history
<1>9. QED
  BY <1>1, <1>5, <1>6, <1>7, <1>8

(* The turns: what changes is one turn, typed, and what a finish touches.  *)
LEMMA TurnFrame ==
  ASSUME TypeInv, Belonging, registered # 0, turn' \in [Syncers -> TurnStates],
         space' \in Spaces, queue' \in Seq(Registrations), Counts',
         pending' \in [Registrations -> Shared], report' \in Reports,
         timers' \in [retry : BOOLEAN, wait : BOOLEAN],
         UNCHANGED <<registered, epochs, call, watch>>
  PROVE  TypeInv' /\ Belonging'
BY DEF TypeInv, Belonging

LEMMA MovesOn ==
  ASSUME TypeInv, NEW s \in Syncers,
         NEW pc \in {"read", "sync", "syncing", "synced", "complete", "confirm", "report"}
  PROVE  /\ [turn EXCEPT ![s].pc = pc] \in [Syncers -> TurnStates]
         /\ turn[s] \in TurnStates
         /\ [turn[s] EXCEPT !.pc = pc] \in TurnStates
BY DEF TypeInv, TurnStates

LEMMA WorkTypes ==
  ASSUME TypeInv, Belonging, NEW w \in Workers, Works(w)
  PROVE  TypeInv' /\ Belonging'
<1>1. w \in Syncers /\ registered \in Nat
  BY Shape DEF TypeInv
<1>2. CASE Take(w)
  <2>1. queue' \in Seq(Registrations) /\ Head(queue) \in Registrations
    BY <1>2 DEF Take, TypeInv
  <2>2. CASE ~ (Head(queue) = registered /\ space.queued)
    BY <1>2, <2>1, <2>2 DEF Take, TypeInv, Counts, Belonging, durable, history
  <2>3. CASE Head(queue) = registered /\ space.queued
    <3>1. registered \in Anyone /\ registered # 0 /\ space.dirtyEpoch \in Nat
          /\ report.generation \in Nat
      BY <2>1, <2>3 DEF Anyone, Registrations, TypeInv, Spaces, Reports
    <3>2. [IdleTurn EXCEPT !.pc = "observe", !.of = registered, !.epoch = space.dirtyEpoch,
                           !.seen = report.generation] \in TurnStates
      BY <3>1 DEF IdleTurn, TurnStates
    <3>3. turn' \in [Syncers -> TurnStates]
      BY <1>1, <1>2, <2>3, <3>2 DEF Take, TypeInv
    <3>4. space' \in Spaces
      BY <1>2, <2>3 DEF Take, TypeInv, Spaces
    <3>5. QED
      BY <1>2, <2>1, <3>1, <3>3, <3>4, TurnFrame DEF Take, TypeInv, Counts, durable, history
  <2>4. QED
    BY <2>2, <2>3
<1>3. ASSUME turn[w].pc # "idle" PROVE registered # 0
  BY <1>1, <1>3 DEF Belonging
<1>4. CASE Observe(w)
  <2>1. pending' \in [Registrations -> Shared]
    BY <1>4, Shape DEF Observe, TypeInv
  <2>2. turn' \in [Syncers -> TurnStates]
    BY <1>1, <1>4, MovesOn DEF Observe, Goto
  <2>3. QED
    BY <1>3, <1>4, <2>1, <2>2, TurnFrame DEF Observe, At, TypeInv, Counts, durable, history
<1>5. CASE Read(w)
  <2>1. registered # 0 /\ requested \in Nat /\ space \in Spaces
    BY <1>3, <1>5 DEF Read, At, TypeInv, Counts
  <2>2. CASE completed >= requested /\ Finish(w, space)
    BY <1>1, <1>5, <2>1, <2>2, FinishType, TurnFrame DEF Read, TypeInv, Counts, durable, history
  <2>3. CASE turn' = [turn EXCEPT ![w].pc = "sync", ![w].target = requested] /\ UNCHANGED <<space, queue>>
    <3>1. [turn[w] EXCEPT !.pc = "sync", !.target = requested] \in TurnStates
      BY <1>1, <2>1 DEF TypeInv, TurnStates
    <3>2. turn' = [turn EXCEPT ![w] = [turn[w] EXCEPT !.pc = "sync", !.target = requested]]
      BY <2>3
    <3>3. turn' \in [Syncers -> TurnStates]
      BY <3>1, <3>2 DEF TypeInv
    <3>4. QED
      BY <1>5, <2>1, <2>3, <3>3, TurnFrame DEF Read, TypeInv, Counts, durable, history
  <2>4. QED
    BY <1>5, <2>2, <2>3 DEF Read
<1>6. CASE Complete(w)
  <2>1. completed' \in Nat /\ registered # 0
    BY <1>1, <1>3, <1>6 DEF Complete, At, Larger, TypeInv, Counts, TurnStates
  <2>2. CASE Finish(w, space)
    BY <1>1, <1>6, <2>1, <2>2, FinishType, TurnFrame DEF Complete, TypeInv, Counts, history
  <2>3. CASE Goto(w, "confirm") /\ UNCHANGED <<space, queue>>
    BY <1>1, <1>6, <2>1, <2>3, MovesOn, TurnFrame DEF Complete, Goto, TypeInv, Counts, history
  <2>4. QED
    BY <1>6, <2>2, <2>3 DEF Complete
<1>7. CASE Confirm(w)
  <2>1. registered # 0 /\ report' \in Reports
    BY <1>3, <1>7 DEF Confirm, At, Online, TypeInv, Reports
  <2>2. QED
    BY <1>1, <1>7, <2>1, FinishType, TurnFrame DEF Confirm, TypeInv, Counts, durable, history
<1>8. CASE TurnReports(w)
  <2>1. registered # 0 /\ turn[w] \in TurnStates
    BY <1>1, <1>3, <1>8 DEF TurnReports, At, TypeInv
  <2>2. turn[w].owner \in BOOLEAN
    BY <2>1 DEF TurnStates
  <2>3. report' \in Reports /\ timers' \in [retry : BOOLEAN, wait : BOOLEAN]
    BY <1>8, <2>2, ReportType, PolicyType DEF TurnReports, TypeInv
  <2>4. PICK state \in Spaces : Finish(w, state)
    BY <1>8, PolicyType DEF TurnReports, TypeInv
  <2>5. QED
    BY <1>1, <1>8, <2>1, <2>3, <2>4, FinishType, TurnFrame
       DEF TurnReports, TypeInv, Counts, durable, history
<1>9. QED
  BY <1>2, <1>4, <1>5, <1>6, <1>7, <1>8 DEF Works

LEMMA SyncTypes ==
  ASSUME TypeInv, Belonging, NEW s \in Syncers, Syncs(s)
  PROVE  TypeInv' /\ Belonging'
<1>1. registered # 0 /\ turn[s] \in TurnStates /\ turn[s].asked \in Nat
  BY DEF Syncs, SyncBegins, SyncSucceeds, SyncReports, At, Belonging, TypeInv, TurnStates
<1>2. AfterSync(s) \in TurnStates
  BY Shape, MovesOn DEF AfterSync
<1>3. CASE SyncBegins(s)
  <2>1. [turn[s] EXCEPT !.pc = "syncing", !.asked = requested] \in TurnStates
    BY <1>1 DEF TypeInv, Counts, TurnStates
  <2>2. turn' = [turn EXCEPT ![s] = [turn[s] EXCEPT !.pc = "syncing", !.asked = requested]]
    BY <1>3 DEF SyncBegins
  <2>3. turn' \in [Syncers -> TurnStates]
    BY <2>1, <2>2 DEF TypeInv
  <2>4. report' \in Reports
    <3>1. report.generation + 1 \in Nat
      BY DEF TypeInv, Reports
    <3>2. QED
      BY <1>3, <3>1 DEF SyncBegins, TypeInv, Reports
  <2>5. QED
    BY <1>1, <1>3, <2>3, <2>4, TurnFrame DEF SyncBegins, TypeInv, Counts, durable, history
<1>4. CASE SyncSucceeds(s)
  <2>1. turn' \in [Syncers -> TurnStates]
    BY <1>2, <1>4, MovesOn DEF SyncSucceeds, TypeInv
  <2>2. QED
    BY <1>1, <1>4, <2>1, TurnFrame DEF SyncSucceeds, TypeInv, Counts, durable
<1>5. CASE SyncReports(s)
  <2>1. turn' \in [Syncers -> TurnStates] /\ report' \in Reports
    BY <1>2, <1>5 DEF SyncReports, Online, TypeInv, Reports
  <2>2. QED
    BY <1>1, <1>5, <2>1, TurnFrame DEF SyncReports, TypeInv, Counts, durable, history
<1>6. QED
  BY <1>3, <1>4, <1>5 DEF Syncs

LEMMA ReadmitTypes ==
  ASSUME TypeInv, Belonging, NEW e \in Enqueuers, registered # 0, Readmits(e)
  PROVE  /\ call' \in [Enqueuers -> CallStates] /\ pending' \in [Registrations -> Shared]
         /\ \A f \in Enqueuers : call'[f].pc # "idle" => call'[f].of \in Registrations
<1>1. PICK g \in Registrations : g = registered /\ Requests(e, g)
  BY DEF Readmits, TypeInv, Registrations
<1>2. QED
  BY <1>1, RequestsType

LEMMA TimerTypes ==
  ASSUME TypeInv, Belonging, RetryElapses \/ CredentialChanges \/ Wake \/ WatchResyncs
  PROVE  TypeInv' /\ Belonging'
<1>1. registered # 0
  BY DEF RetryElapses, CredentialChanges, Wake, WatchResyncs, Belonging
<1>2. /\ call' \in [Enqueuers -> CallStates] /\ pending' \in [Registrations -> Shared]
      /\ \A f \in Enqueuers : call'[f].pc # "idle" => call'[f].of \in Registrations
  BY <1>1, Shape, ReadmitTypes DEF RetryElapses, CredentialChanges, Wake, WatchResyncs
<1>3. timers' \in [retry : BOOLEAN, wait : BOOLEAN] /\ space' \in Spaces
  BY DEF RetryElapses, CredentialChanges, Wake, WatchResyncs, TypeInv, Spaces
<1>4. watch' \in WatchStates /\ Counts'
  <2>1. watch \in WatchStates /\ Counts
    BY DEF TypeInv
  <2>2. watch' \in WatchStates
    <3>1. \/ watch' = watch \/ watch' = [watch EXCEPT !.pc = "enqueue"]
          \/ watch' = [watch EXCEPT !.pc = "resync"]
      BY DEF RetryElapses, CredentialChanges, Wake, WatchResyncs
    <3>2. QED
      BY ONLY <2>1, <3>1 DEF WatchStates
  <2>3. UNCHANGED <<durable, history>>
    BY DEF RetryElapses, CredentialChanges, Wake, WatchResyncs
  <2>4. left' = left \/ (left.stimuli > 0 /\ left' = [left EXCEPT !.stimuli = @ - 1])
    BY DEF RetryElapses, CredentialChanges, Wake, WatchResyncs
  <2>5. Counts'
    BY <2>1, <2>3, <2>4 DEF Counts, durable, history
  <2>6. QED
    BY <2>2, <2>5
<1>5. UNCHANGED <<registered, epochs, queue, turn, report>>
  BY DEF RetryElapses, CredentialChanges, Wake, WatchResyncs
<1>6. QED
  BY <1>1, <1>2, <1>3, <1>4, <1>5 DEF TypeInv, Belonging

(* A failure of the watch, and what is reported of it.                     *)
LEMMA WatchFailedTypes ==
  ASSUME TypeInv, NEW k \in AllKinds, WatchFailed(k)
  PROVE  watch' \in WatchStates /\ space' \in Spaces /\ (watch'.pc # "off")
<1>1. watch \in WatchStates /\ space \in Spaces /\ ClosesGate(k) \in BOOLEAN
      /\ CloseGate(k) \in Spaces
  BY PolicyType DEF TypeInv
<1>2. CASE watch' = [watch EXCEPT !.pc = "start"] /\ UNCHANGED space
  BY <1>1, <1>2 DEF WatchStates
<1>3. CASE /\ watch' = [watch EXCEPT !.pc = "report", !.kind = k, !.owner = ClosesGate(k)]
           /\ space' = CloseGate(k)
  BY <1>1, <1>3 DEF WatchStates
<1>4. QED
  BY <1>2, <1>3 DEF WatchFailed

LEMMA WatchTypes ==
  ASSUME TypeInv, Belonging, WatchOpens \/ WatchReports
  PROVE  TypeInv' /\ Belonging'
<1>1. registered # 0 /\ space.authenticationEpoch \in Nat
  BY DEF WatchOpens, WatchReports, Belonging, TypeInv, Spaces
<1>2. CASE WatchOpens
  BY <1>1, <1>2 DEF WatchOpens, NoWatch, WatchStates, TypeInv, Counts, Belonging, durable, history
<1>3. CASE WatchReports
  <2>1. report' \in Reports
    BY <1>3, ReportType DEF WatchReports
  <2>2. watch' \in WatchStates /\ timers' \in [retry : BOOLEAN, wait : BOOLEAN]
    BY <1>3 DEF WatchReports, TypeInv, WatchStates
  <2>3. QED
    BY <1>1, <1>3, <2>1, <2>2 DEF WatchReports, TypeInv, Counts, Belonging, durable, history
<1>4. QED
  BY <1>2, <1>3

LEMMA FailureTypes ==
  ASSUME TypeInv, Belonging, Failures
  PROVE  TypeInv' /\ Belonging'
<1>1. PICK k \in Kinds :
        \/ \E s \in Syncers : SyncFails(s, k)
        \/ \E w \in Workers : StorageFails(w, k)
        \/ \E e \in Enqueuers : WriteFails(e, k)
        \/ WatchFails(k)
  BY DEF Failures
<1>2. k \in AllKinds /\ left' \in [stimuli : Nat, failures : Nat]
  <2>1. Fails(k)
    <3>1. ASSUME NEW s \in Syncers, SyncFails(s, k) PROVE Fails(k)
      BY ONLY <3>1 DEF SyncFails
    <3>2. ASSUME NEW w \in Workers, StorageFails(w, k) PROVE Fails(k)
      BY ONLY <3>2 DEF StorageFails
    <3>3. ASSUME NEW e \in Enqueuers, WriteFails(e, k) PROVE Fails(k)
      BY ONLY <3>3 DEF WriteFails
    <3>4. CASE WatchFails(k)
      BY ONLY <3>4 DEF WatchFails
    <3> QED BY ONLY <1>1, <3>1, <3>2, <3>3, <3>4
  <2>2. left.failures > 0 /\ left' = [left EXCEPT !.failures = @ - 1]
    BY <2>1 DEF Fails
  <2> QED BY <2>2, Shape, LeftTypes
<1>3. ASSUME NEW s \in Syncers, SyncFails(s, k) PROVE TypeInv' /\ Belonging'
  <2>1. registered # 0 /\ report' \in Reports
    BY <1>3, ReportType DEF SyncFails, Belonging
  <2>2. space' \in Spaces /\ turn' \in [Syncers -> TurnStates]
    <3>1. CASE s \in Workers /\ TurnFailed(s, k)
      <4>1. turn[s] \in TurnStates /\ ClosesGate(k) \in BOOLEAN
        BY PolicyType DEF TypeInv
      <4>2. [turn[s] EXCEPT !.pc = "report", !.kind = k, !.owner = ClosesGate(k)] \in TurnStates
        BY <1>2, <4>1 DEF TurnStates
      <4>3. turn' = [turn EXCEPT ![s] =
                       [turn[s] EXCEPT !.pc = "report", !.kind = k, !.owner = ClosesGate(k)]]
        BY <3>1 DEF TurnFailed
      <4>4. QED
        BY <3>1, <4>2, <4>3, PolicyType DEF TurnFailed, TypeInv
    <3>2. CASE turn' = [turn EXCEPT ![s] = IdleTurn] /\ UNCHANGED space
      BY <3>2, Shape DEF TypeInv
    <3>3. QED
      BY <1>3, <3>1, <3>2 DEF SyncFails
  <2>3. QED
    BY <1>2, <1>3, <2>1, <2>2, TurnFrame DEF SyncFails, TypeInv, Counts, durable, history
<1>4. ASSUME NEW w \in Workers, StorageFails(w, k) PROVE TypeInv' /\ Belonging'
  <2>1. w \in Syncers /\ registered # 0 /\ turn[w] \in TurnStates /\ report.generation \in Nat
    BY <1>4, Shape DEF StorageFails, Belonging, TypeInv, Reports
  <2> DEFINE seen == IF At(w, "read") THEN turn[w].seen ELSE report.generation
  <2>2. seen \in Nat
    BY <2>1 DEF TurnStates
  <2>3. turn' = [turn EXCEPT ![w] = [turn[w] EXCEPT !.pc = "report", !.kind = k, !.seen = seen]]
    BY <1>4 DEF StorageFails
  <2> HIDE DEF seen
  <2>4. [turn[w] EXCEPT !.pc = "report", !.kind = k, !.seen = seen] \in TurnStates
    BY <1>2, <2>1, <2>2 DEF TurnStates
  <2>5. turn' \in [Syncers -> TurnStates]
    BY <2>3, <2>4 DEF TypeInv
  <2>6. QED
    BY <1>2, <1>4, <2>1, <2>5, TurnFrame DEF StorageFails, TypeInv, Counts, durable, history
<1>5. ASSUME NEW e \in Enqueuers, WriteFails(e, k) PROVE TypeInv' /\ Belonging'
  <2> DEFINE rest == [Settled(e, FALSE) EXCEPT ![e] = IdleCall]
  <2>1. /\ rest \in [Enqueuers -> CallStates]
        /\ \A f \in Enqueuers : rest[f].pc # "idle" => rest[f].of \in Registrations
    BY Shape, SettledType DEF IdleCall
  <2>2. Withdrawn(e) \in [Registrations -> Shared]
    BY WithdrawnType
  <2>3. call[e].of \in Registrations /\ UNCHANGED queue
    BY <1>5 DEF WriteFails, Belonging
  <2> HIDE DEF rest
  <2>4. CASE /\ Unregistered /\ call' = [rest EXCEPT !["watch"] = IdleCall]
             /\ pending' = [Withdrawn(e) EXCEPT ![registered] = NoRequest]
    <3>1. /\ call' \in [Enqueuers -> CallStates]
          /\ \A f \in Enqueuers : call'[f].pc # "idle" => call'[f].of \in Registrations
      BY <2>1, <2>4, Shape DEF IdleCall
    <3>2. pending' \in [Registrations -> Shared] /\ queue' \in Seq(Registrations)
      BY <2>2, <2>3, <2>4, Shape DEF TypeInv
    <3>3. QED
      BY <1>2, <2>4, <3>1, <3>2, UnregisteredTypes
  <2>5. CASE /\ call' = rest /\ pending' = Withdrawn(e)
             /\ UNCHANGED <<durable, registered, epochs, space, turn, watch, timers, report,
                            history>>
    BY <1>2, <2>1, <2>2, <2>3, <2>5 DEF TypeInv, Counts, Belonging, durable, history
  <2>6. CASE /\ call' = rest /\ pending' = Withdrawn(e) /\ watch.pc = "enqueue" /\ WatchFailed(k)
             /\ UNCHANGED <<durable, registered, epochs, turn, timers, report, history>>
    BY <1>2, <2>1, <2>2, <2>3, <2>6, WatchFailedTypes
       DEF TypeInv, Counts, Belonging, durable, history
  <2>7. CASE /\ call' = rest /\ pending' = Withdrawn(e) /\ call[e].of = registered
             /\ watch' = IF e = "watch" THEN [watch EXCEPT !.pc = "start"] ELSE watch
             /\ ReadmissionFailed(k)
             /\ UNCHANGED <<durable, registered, epochs, turn, history>>
    <3>1. watch' \in WatchStates /\ registered # 0
      <4>1. watch \in WatchStates
        BY DEF TypeInv
      <4>2. [watch EXCEPT !.pc = "start"] \in WatchStates
        BY ONLY <4>1 DEF WatchStates
      <4>3. registered # 0
        BY <2>3, <2>7 DEF Registrations
      <4>4. QED
        BY <2>7, <4>1, <4>2, <4>3
    <3>2. report' \in Reports /\ space' \in Spaces
          /\ timers' \in [retry : BOOLEAN, wait : BOOLEAN]
      BY <2>7, ReportType, PolicyType DEF ReadmissionFailed, TypeInv
    <3>3. QED
      BY <1>2, <2>1, <2>2, <2>3, <2>7, <3>1, <3>2 DEF TypeInv, Counts, Belonging, durable, history
  <2>8. QED
    BY <1>5, <2>4, <2>5, <2>6, <2>7 DEF WriteFails, rest
<1>6. CASE WatchFails(k)
  <2>1. watch' \in WatchStates /\ space' \in Spaces /\ registered # 0
    BY <1>2, <1>6, WatchFailedTypes DEF WatchFails, Belonging
  <2>2. QED
    BY <1>2, <1>6, <2>1 DEF WatchFails, TypeInv, Counts, Belonging, durable, history
<1>7. QED
  BY <1>1, <1>3, <1>4, <1>5, <1>6

LEMMA NextTypes ==
  ASSUME TypeInv, Belonging, [Next]_vars
  PROVE  TypeInv' /\ Belonging'
<1>1. CASE UNCHANGED vars
  BY <1>1 DEF vars, TypeInv, Counts, Belonging, durable
<1>2. CASE Watches
  BY <1>2, WatchTypes, TimerTypes DEF Watches
<1>3. QED
  BY <1>1, <1>2, EnqueueTypes, WorkTypes, SyncTypes, TimerTypes, FailureTypes,
     ApplicationTypes, RegistrationTypes DEF Next

(***************************************************************************)
(* Every action keeps what a sync covers.                                  *)
(***************************************************************************)
Covering == Bounded /\ OneSync /\ Ordered

(* Turns that change in nothing that matters here.                         *)
LEMMA CoverKept ==
  ASSUME TypeInv, Covering, requested' \in Nat, requested' >= requested,
         UNCHANGED <<completed, covered>>,
         \A s \in Syncers : \/ turn'[s] = turn[s]
                           \/ turn'[s].pc \notin {"sync", "syncing", "synced", "complete"}
  PROVE  Covering'
<1>1. \A s \in Syncers : turn[s].target \in Nat /\ turn[s].asked \in Nat
  BY DEF TypeInv, TurnStates
<1>2. Bounded'
  <2> SUFFICES ASSUME NEW s \in Syncers,
                      turn'[s].pc \in {"sync", "syncing", "synced", "complete"}
               PROVE  /\ turn[s].pc = "sync" => turn[s].target <= requested'
                      /\ turn[s].pc = "syncing" =>
                           /\ turn[s].target <= turn[s].asked /\ covered <= turn[s].asked
                           /\ turn[s].asked <= requested'
                      /\ turn[s].pc \in {"synced", "complete"} => turn[s].target <= covered
    BY DEF Bounded
  <2>1. /\ turn[s].pc = "sync" => turn[s].target <= requested
        /\ turn[s].pc = "syncing" =>
             /\ turn[s].target <= turn[s].asked /\ covered <= turn[s].asked
             /\ turn[s].asked <= requested
        /\ turn[s].pc \in {"synced", "complete"} => turn[s].target <= covered
    BY DEF Covering, Bounded
  <2>2. /\ requested \in Nat /\ requested' \in Nat /\ requested' >= requested
        /\ turn[s].target \in Nat /\ turn[s].asked \in Nat
    BY <1>1 DEF TypeInv, Counts
  <2>3. QED
    BY ONLY <2>1, <2>2
<1>3. OneSync'
  BY DEF Covering, OneSync
<1>4. Ordered'
  BY DEF Covering, Ordered, TypeInv, Counts
<1>5. QED
  BY <1>2, <1>3, <1>4 DEF Covering

(* One turn moves within its synchronization.                              *)
LEMMA CoverMoves ==
  ASSUME TypeInv, TypeInv', Covering, NEW s \in Syncers, UNCHANGED requested,
         \A t \in Syncers \ {s} : turn'[t] = turn[t],
         covered' >= covered, Ordered',
         covered' # covered => turn[s].pc = "syncing",
         turn'[s].pc \in {"syncing", "synced"} =>
           turn[s].pc \in {"syncing", "synced"} \/ ~ GateHeld,
         turn'[s].pc = "sync" => turn'[s].target <= requested,
         turn'[s].pc = "syncing" =>
           /\ turn'[s].target <= turn'[s].asked
           /\ covered' <= turn'[s].asked /\ turn'[s].asked <= requested,
         turn'[s].pc \in {"synced", "complete"} => turn'[s].target <= covered'
  PROVE  Covering'
<1>1. \A t \in Syncers : turn[t].target \in Nat /\ turn[t].asked \in Nat
  BY DEF TypeInv, TurnStates
<1>2. covered \in Nat /\ covered' \in Nat
  BY DEF TypeInv, Counts
<1>3. OneSync'
  BY DEF Covering, OneSync, GateHeld
<1>4. Bounded'
  <2> SUFFICES ASSUME NEW t \in Syncers \ {s}
               PROVE  /\ turn[t].pc = "sync" => turn[t].target <= requested
                      /\ turn[t].pc = "syncing" =>
                           /\ turn[t].target <= turn[t].asked
                           /\ covered' <= turn[t].asked /\ turn[t].asked <= requested
                      /\ turn[t].pc \in {"synced", "complete"} => turn[t].target <= covered'
    BY DEF Bounded
  <2>1. turn[t].pc = "syncing" => covered' = covered
    BY DEF Covering, OneSync
  <2>2. QED
    BY <1>1, <1>2, <2>1 DEF Covering, Bounded
<1>5. QED
  BY <1>3, <1>4 DEF Covering

LEMMA NextCovers ==
  ASSUME TypeInv, TypeInv', Covering, [Next]_vars
  PROVE  Covering'
<1>1. /\ requested \in Nat /\ covered \in Nat /\ completed \in Nat
      /\ \A s \in Syncers : turn[s] \in TurnStates /\ turn[s].target \in Nat /\ turn[s].asked \in Nat
      /\ turn \in [Syncers -> TurnStates]
  BY DEF TypeInv, Counts, TurnStates
<1>2. IdleTurn.pc = "idle" /\ IdleTurn.target = 0
  BY DEF IdleTurn
<1>3. ASSUME NEW e \in Enqueuers, Enqueues(e) PROVE Covering'
  <2>1. requested' \in {requested, requested + 1} /\ UNCHANGED <<completed, turn, covered>>
    BY <1>3 DEF Enqueues, RunAgain, Write, Admit, durable, history
  <2>2. QED
    BY <1>1, <2>1, CoverKept
<1>4. ASSUME NEW w \in Workers, Take(w) \/ Observe(w) \/ Confirm(w) \/ TurnReports(w)
      PROVE  Covering'
  <2>1. w \in Syncers /\ UNCHANGED <<durable, covered>>
    BY <1>4, Shape DEF Take, Observe, Confirm, TurnReports, durable, history
  <2>2. \A s \in Syncers : s # w => turn'[s] = turn[s]
    BY <1>1, <1>4 DEF Take, Observe, Confirm, TurnReports, Finish, Goto
  <2>3. turn'[w] = turn[w] \/ turn'[w].pc \in {"observe", "read", "idle"}
    <3>1. CASE Take(w)
      BY <1>1, <2>1, <3>1 DEF Take, IdleTurn
    <3>2. CASE Observe(w)
      BY <1>1, <2>1, <3>2 DEF Observe, Goto, TurnStates
    <3>3. CASE Confirm(w) \/ TurnReports(w)
      BY <1>1, <1>2, <2>1, <3>3 DEF Confirm, TurnReports, Finish
    <3>4. QED
      BY <1>4, <3>1, <3>2, <3>3
  <2>4. QED
    BY <1>1, <2>1, <2>2, <2>3, CoverKept DEF durable
<1>5. ASSUME NEW w \in Workers, Read(w) PROVE Covering'
  <2>1. w \in Syncers /\ UNCHANGED <<durable, history>>
    BY <1>5, Shape DEF Read
  <2>2. /\ \A t \in Syncers \ {w} : turn'[t] = turn[t]
        /\ \/ turn'[w].pc = "idle"
           \/ turn'[w].pc = "sync" /\ turn'[w].target = requested
    <3>1. CASE Finish(w, space)
      <4>1. turn' = [turn EXCEPT ![w] = IdleTurn]
        BY <3>1 DEF Finish
      <4>2. QED
        BY <1>1, <1>2, <2>1, <4>1
    <3>2. CASE turn' = [turn EXCEPT ![w].pc = "sync", ![w].target = requested]
      <4>1. turn' = [turn EXCEPT ![w] = [turn[w] EXCEPT !.pc = "sync", !.target = requested]]
        BY <3>2
      <4>2. turn'[w] = [turn[w] EXCEPT !.pc = "sync", !.target = requested]
            /\ \A t \in Syncers \ {w} : turn'[t] = turn[t]
        BY <1>1, <2>1, <4>1
      <4>3. QED
        BY <1>1, <2>1, <4>2 DEF TurnStates
    <3>3. QED
      BY <1>5, <3>1, <3>2 DEF Read
  <2>3. QED
    BY <1>1, <2>1, <2>2, CoverMoves DEF durable, history, Covering, Ordered
<1>6. ASSUME NEW w \in Workers, Complete(w) PROVE Covering'
  <2>1. w \in Syncers /\ turn[w].pc = "complete" /\ UNCHANGED <<requested, covered>>
    BY <1>6, Shape DEF Complete, At, history
  <2>2. turn[w].target <= covered
    BY <2>1 DEF Covering, Bounded
  <2>3. completed' <= covered
    BY <1>1, <1>6, <2>2 DEF Complete, Larger, Covering, Ordered
  <2>4. /\ \A t \in Syncers \ {w} : turn'[t] = turn[t]
        /\ turn'[w].pc \in {"idle", "confirm"}
    BY <1>1, <1>2, <1>6, <2>1 DEF Complete, Goto, Finish, TurnStates
  <2>5. Ordered'
    BY <2>1, <2>3 DEF Covering, Ordered
  <2>6. QED
    BY <1>1, <2>1, <2>4, <2>5, CoverMoves
<1>7. ASSUME NEW s \in Syncers, SyncBegins(s) PROVE Covering'
  <2>1. /\ UNCHANGED <<durable, history>> /\ turn[s].pc = "sync" /\ ~ GateHeld
        /\ \A t \in Syncers \ {s} : turn'[t] = turn[t]
        /\ turn'[s].pc = "syncing" /\ turn'[s].asked = requested
        /\ turn'[s].target = turn[s].target
    BY <1>1, <1>7 DEF SyncBegins, At, TurnStates
  <2>2. turn[s].target <= requested /\ covered <= requested
    BY <2>1 DEF Covering, Bounded, Ordered
  <2>3. QED
    BY <1>1, <2>1, <2>2, CoverMoves DEF durable, history, Covering, Ordered
<1>8. ASSUME NEW s \in Syncers, SyncSucceeds(s) PROVE Covering'
  <2>1. /\ UNCHANGED durable /\ turn[s].pc = "syncing" /\ covered' = turn[s].asked
        /\ \A t \in Syncers \ {s} : turn'[t] = turn[t]
        /\ turn'[s].pc \in {"synced", "complete", "idle"}
        /\ turn'[s].target = turn[s].target \/ turn'[s].pc = "idle"
    BY <1>1, <1>2, <1>8 DEF SyncSucceeds, AfterSync, At, TurnStates
  <2>2. turn[s].target <= turn[s].asked /\ covered <= turn[s].asked /\ turn[s].asked <= requested
    BY <2>1 DEF Covering, Bounded
  <2>3. Ordered'
    BY <1>1, <2>1, <2>2 DEF durable, Covering, Ordered
  <2>4. QED
    BY <1>1, <2>1, <2>2, <2>3, CoverMoves DEF durable
<1>9. ASSUME NEW s \in Syncers, SyncReports(s) PROVE Covering'
  <2>1. /\ UNCHANGED <<durable, history>> /\ turn[s].pc = "synced"
        /\ \A t \in Syncers \ {s} : turn'[t] = turn[t]
        /\ turn'[s].pc \in {"complete", "idle"}
        /\ turn'[s].target = turn[s].target \/ turn'[s].pc = "idle"
    BY <1>1, <1>2, <1>9 DEF SyncReports, AfterSync, At, TurnStates
  <2>2. turn[s].target <= covered
    BY <2>1 DEF Covering, Bounded
  <2>3. QED
    BY <1>1, <2>1, <2>2, CoverMoves DEF durable, history, Covering, Ordered
<1>10. CASE Watches \/ Wake \/ RetryElapses \/ CredentialChanges
  <2>1. UNCHANGED <<durable, turn, covered>>
    BY <1>10 DEF Watches, WatchOpens, WatchReports, WatchResyncs, Wake, RetryElapses,
       CredentialChanges, history
  <2>2. QED
    BY <1>1, <2>1, CoverKept DEF durable
<1>11. CASE Register \/ Unregister \/ Restart
  <2>1. UNCHANGED <<durable, covered>>
        /\ (UNCHANGED turn \/ \A s \in Syncers : turn'[s] = IdleTurn)
    BY <1>11 DEF Register, Unregister, Restart, Unregistered, history
  <2>2. QED
    BY <1>1, <1>2, <2>1, CoverKept DEF durable
<1>12. CASE Application
  <2>1. PICK c \in Callers : Notify(c) \/ MutateAndSchedule(c) \/ SyncNow(c) \/ Interrupt(c)
    BY <1>12 DEF Application
  <2>2. CASE Notify(c) \/ MutateAndSchedule(c) \/ Interrupt(c)
    <3>1. requested' \in {requested, requested + 1} /\ UNCHANGED <<completed, turn, covered>>
      BY <2>2 DEF Notify, MutateAndSchedule, Interrupt, durable, history
    <3>2. QED
      BY <1>1, <3>1, CoverKept
  <2>3. CASE SyncNow(c)
    <3>1. /\ c \in Syncers /\ UNCHANGED <<durable, history>>
          /\ \A t \in Syncers \ {c} : turn'[t] = turn[t]
          /\ turn'[c].pc = "sync" /\ turn'[c].target = 0
      BY <1>1, <2>3, Shape DEF SyncNow, IdleTurn
    <3>2. QED
      BY <1>1, <3>1, CoverMoves DEF durable, history, Covering, Ordered
  <2>4. QED
    BY <2>1, <2>2, <2>3
<1>13. CASE Failures
  <2>1. UNCHANGED <<durable, covered>>
    BY <1>13 DEF Failures, SyncFails, StorageFails, WriteFails, WatchFails, Unregistered, history
  <2>2. \A s \in Syncers : \/ turn'[s] = turn[s]
                           \/ turn'[s].pc \notin {"sync", "syncing", "synced", "complete"}
    <3>1. PICK k \in Kinds :
            \/ \E s \in Syncers : SyncFails(s, k)
            \/ \E w \in Workers : StorageFails(w, k)
            \/ \E e \in Enqueuers : WriteFails(e, k)
            \/ WatchFails(k)
      BY <1>13 DEF Failures
    <3>2. ASSUME NEW w \in Syncers, SyncFails(w, k) \/ StorageFails(w, k)
          PROVE  /\ \A s \in Syncers : s # w => turn'[s] = turn[s]
                 /\ turn'[w].pc \in {"idle", "report"}
      <4>1. CASE turn' = [turn EXCEPT ![w] = IdleTurn]
        BY <1>1, <1>2, <4>1
      <4>2. CASE \E owner : turn' = [turn EXCEPT ![w].pc = "report", ![w].kind = k, ![w].owner = owner]
        BY <1>1, <4>2 DEF TurnStates
      <4>3. CASE \E seen : turn' = [turn EXCEPT ![w].pc = "report", ![w].kind = k, ![w].seen = seen]
        BY <1>1, <4>3 DEF TurnStates
      <4>4. QED
        BY <3>2, <4>1, <4>2, <4>3 DEF SyncFails, TurnFailed, StorageFails
    <3>3. ASSUME NEW e \in Enqueuers, WriteFails(e, k)
          PROVE  UNCHANGED turn \/ \A s \in Syncers : turn'[s] = IdleTurn
      BY <3>3 DEF WriteFails, Unregistered
    <3>4. CASE WatchFails(k)
      BY <3>4 DEF WatchFails
    <3>5. QED
      BY <1>2, <3>1, <3>2, <3>3, <3>4, Shape
  <2>3. QED
    BY <1>1, <2>1, <2>2, CoverKept DEF durable
<1>14. CASE UNCHANGED vars
  BY <1>1, <1>14, CoverKept DEF vars, durable
<1>15. QED
  BY <1>3, <1>4, <1>5, <1>6, <1>7, <1>8, <1>9, <1>10, <1>11, <1>12, <1>13, <1>14
     DEF Next, Works, Syncs

(***************************************************************************)
(* The theorems.                                                           *)
(***************************************************************************)
THEOREM Invariance == Spec => []IndInv
<1>1. Init => IndInv
  <2> SUFFICES ASSUME Init PROVE IndInv
    OBVIOUS
  <2>1. TypeInv
    <3>1. Counts /\ queue \in Seq(Registrations)
      BY DEF Init, Counts
    <3>2. QED
      BY <3>1, Shape DEF Init, TypeInv
  <2>2. Belonging
    BY DEF Init, Belonging, IdleCall, IdleTurn, NoWatch, NoTimers
  <2>3. Bounded /\ OneSync /\ Ordered
    BY DEF Init, Bounded, OneSync, Ordered, IdleTurn
  <2>4. QED
    BY <2>1, <2>2, <2>3 DEF IndInv
<1>2. IndInv /\ [Next]_vars => IndInv'
  BY NextTypes, NextCovers DEF IndInv, Covering
<1>3. QED
  BY <1>1, <1>2, PTL DEF Spec

(* Every variable keeps its type, for any number of callers and workers.   *)
THEOREM TypeCorrect == Spec => []TypeOK
<1>1. IndInv => TypeOK
  BY DEF IndInv, TypeInv, TypeOK, Counts, Spaces, Shared, CallStates, TurnStates,
         WatchStates, Reports
<1>2. QED
  BY <1>1, Invariance, PTL

(* Two synchronizations of the space never overlap.                        *)
THEOREM Exclusion == Spec => []OneSync
<1>1. IndInv => OneSync
  BY DEF IndInv
<1>2. QED
  BY <1>1, Invariance, PTL

(* However callers, workers, failures and restarts interleave, only a sync *)
(* that began after a request was made ever completes it.                  *)
THEOREM CompletionCorrect == Spec => []CompletedWasCovered
<1>1. IndInv => CompletedWasCovered
  BY DEF IndInv, Ordered, CompletedWasCovered
<1>2. QED
  BY <1>1, Invariance, PTL
=============================================================================
