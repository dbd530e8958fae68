------------------------------- MODULE Reconciler -------------------------------
(***************************************************************************)
(* The in-memory reconciliation manager of a client, for one space:        *)
(*                                                                         *)
(*   packages/local-sql/src/Reconciler.ts   makeManager, layerOnePass      *)
(*   packages/local-sql/src/LocalStore.ts   the two durable generations    *)
(*   packages/local-sql/src/internal/transport.ts, completion.ts           *)
(*                                                                         *)
(* A request for reconciliation is a durable number, requested; a turn     *)
(* that reconciled everything asked before it began raises completed.      *)
(* Between the two stand a queue of turns, a few workers, a retry timer, a *)
(* gate that a rejected credential closes, a watch of the server and any   *)
(* number of callers, all of them fibers that interleave at every wait.    *)
(* What a turn sends and receives is the matter of LocalStore and          *)
(* ScopedReplication: here a sync succeeds or fails with a class of error. *)
(***************************************************************************)
EXTENDS Naturals, Sequences, FiniteSets

CONSTANTS
    Callers,           \* fibers of the application that call notify, sync or mutate
    Workers,           \* the manager's worker fibers (options.concurrency)
    Kinds,             \* the classes of failure that may happen in a run
    MaxRegistrations,  \* bound: registrations of the space, restarts included
    MaxStimuli,        \* bound: calls of the application and wakes from the server
    MaxFailures        \* bound: failures of storage, of syncs and of the watch

AllKinds == {"Unreachable", "Retryable", "Credential", "Unidentified", "Terminal", "Denied"}

ASSUME ConstantsAssumption ==
    /\ Callers \cap Workers = {}
    /\ Kinds \subseteq AllKinds
    /\ {MaxRegistrations, MaxStimuli, MaxFailures} \subseteq Nat

Registrations == 1 .. MaxRegistrations
None == "none"

\* Fibers that enqueue the space, and those that hold a synchronization.
Enqueuers == Callers \cup {"watch", "retry", "wait", "register"}
Syncers == Callers \cup Workers

VARIABLES
    requested,    \* requested_generation of the space, in the local store
    completed,    \* completed_generation
    registered,   \* the registration the manager holds for the space, 0 when none
    epochs,       \* registrations made so far
    space,        \* the ManagedState of that registration
    pending,      \* per registration: the shared request that newcomers join
    queue,        \* the queue of turns
    call,         \* per enqueuer: where it is in enqueue
    turn,         \* per syncer: where it is in its turn or in its sync
    watch,        \* the watch fiber
    timers,       \* the fibers asleep in retries and in authenticationWaiters
    report,       \* the one-pass reconciliation's status, and what guards it
    left          \* what remains of the bounds

VARIABLES promised,   \* history: generations asked for when a call was last admitted
          covered     \* history: generations asked before some successful sync began

durable == <<requested, completed>>
fibers == <<call, turn, watch, timers>>
history == <<promised, covered>>
vars == <<requested, completed, registered, epochs, space, pending, queue, call, turn,
          watch, timers, report, left, promised, covered>>

---------------------------------------------------------------------------
(* The classification of failures: failureClasses, capacityClasses.        *)

\* A failure that is retried after a delay.
Transient(k) == k \in {"Unreachable", "Retryable"}

\* CredentialRejected: with the generation of the credential it can be waited on.
Rejected(k) == k \in {"Credential", "Unidentified"}

\* Plausible bug: the status names the class of the failure.
FailureClass(k) == IF Rejected(k) THEN "NeedsAuthentication" ELSE k

\* failureStatus
FailureStatus(k) ==
    CASE Rejected(k) -> "NeedsAuthentication"
      [] k = "Unreachable" -> "Offline"
      [] OTHER -> "Failed"

---------------------------------------------------------------------------
IdleCall == [pc |-> "idle", of |-> 0, on |-> None]
IdleTurn == [pc |-> "idle", of |-> 0, epoch |-> 0, target |-> 0, seen |-> 0, asked |-> 0,
             kind |-> None, owner |-> FALSE]
NewSpace == [queued |-> FALSE, running |-> FALSE, retrying |-> FALSE, halted |-> FALSE,
             gate |-> FALSE, authenticationEpoch |-> 0, dirtyEpoch |-> 0]
NewReport == [status |-> "Connecting", failed |-> FALSE, generation |-> 0]
NoWatch == [pc |-> "off", epoch |-> 0, kind |-> None, owner |-> FALSE]
NoTimers == [retry |-> FALSE, wait |-> FALSE]
NoRequest == [by |-> None, written |-> FALSE]

Init ==
    /\ requested = 0 /\ completed = 0
    /\ registered = 0 /\ epochs = 0
    /\ space = NewSpace
    /\ pending = [g \in Registrations |-> NoRequest]
    /\ queue = << >>
    /\ call = [e \in Enqueuers |-> IdleCall]
    /\ turn = [s \in Syncers |-> IdleTurn]
    /\ watch = NoWatch
    /\ timers = NoTimers
    /\ report = NewReport
    /\ left = [stimuli |-> MaxStimuli, failures |-> MaxFailures]
    /\ promised = 0 /\ covered = 0

\* The gate semaphore of layerOnePass is held; a sync is in its catch-ups.
Syncing == \E s \in Syncers : turn[s].pc = "syncing"
GateHeld == \E s \in Syncers : turn[s].pc \in {"syncing", "synced"}

Larger(m, n) == IF m < n THEN n ELSE m

Fails(k) ==
    /\ k \in Kinds
    /\ left.failures > 0
    /\ left' = [left EXCEPT !.failures = @ - 1]

---------------------------------------------------------------------------
(* reportFailure: what becomes of the status. A report about an earlier    *)
(* sync than the last is dropped; a demand for credentials is not covered  *)
(* by another failure of the same sync; the watch does not report Offline  *)
(* while connecting or syncing.                                            *)

ReportFailure(k, preserveConnecting, observed) ==
    LET next == FailureStatus(k)
        dropped == \/ report.generation > observed
                   \/ /\ next /= "NeedsAuthentication"
                      /\ \/ report.status = "NeedsAuthentication" /\ report.failed
                         \/ /\ preserveConnecting
                            /\ next = "Offline"
                            /\ report.status = "Connecting" \/ Syncing
    IN IF dropped THEN report ELSE [report EXCEPT !.status = next, !.failed = TRUE]

\* handleFailure's policy, on the state of the space: retry, wait at the gate or halt.
AfterFailure(k) ==
    [space EXCEPT !.retrying = @ \/ Transient(k),
                  !.halted = @ \/ ~Transient(k)]

ClosesGate(k) == k = "Credential" /\ ~space.gate

\* admitCredentialPause: the first to find its credential rejected closes the gate.
CloseGate(k) ==
    CASE k = "Unidentified" -> [space EXCEPT !.halted = TRUE]
      [] ClosesGate(k) ->
            [space EXCEPT !.gate = TRUE, !.authenticationEpoch = @ + 1]
      [] OTHER -> space

---------------------------------------------------------------------------
(* enqueue: write a request, or join the one being written, then admit.    *)

\* makeReconciliationRequests.run: fiber e joins the shared request of registration g,
\* has nothing to wait for if that one is written, or becomes the owner of a new one.
Requests(e, g) ==
    LET shared == pending[g]
        pc == CASE shared.by = None -> "write" [] shared.written -> "admit" [] OTHER -> "joined"
    IN /\ call' = [call EXCEPT ![e] =
             [pc |-> pc, of |-> g, on |-> IF pc = "joined" THEN shared.by ELSE None]]
       /\ pending' = IF pc = "write"
                     THEN [pending EXCEPT ![g] = [by |-> e, written |-> FALSE]] ELSE pending

\* A fiber whose shared request failed runs again.
RunAgain(e) ==
    /\ call[e].pc = "run"
    /\ Requests(e, call[e].of)
    /\ UNCHANGED <<durable, registered, epochs, space, queue, turn, watch, timers, report, left,
                   history>>

\* The calls once fiber e's request is over: those that joined it admit or run again.
Settled(e, written) ==
    [f \in Enqueuers |->
        IF call[f].pc = "joined" /\ call[f].on = e /\ call[e].pc = "write"
        THEN [call[f] EXCEPT !.pc = IF written THEN "admit" ELSE "run", !.on = None]
        ELSE call[f]]

\* LocalStore.requestReconciliation: a written request stays to be joined until a turn
\* observes it, unless one did before it was written.
Write(e) ==
    LET g == call[e].of IN
    /\ call[e].pc = "write"
    /\ requested' = requested + 1
    /\ call' = [Settled(e, TRUE) EXCEPT ![e].pc = "admit"]
    /\ pending' = [pending EXCEPT ![g].written = @ \/ pending[g].by = e]
    /\ UNCHANGED <<completed, registered, epochs, space, queue, turn, watch, timers, report,
                   left, history>>

\* What pending becomes when e's request fails: cleared if it is still the shared one.
Withdrawn(e) ==
    [g \in Registrations |->
        IF call[e].pc = "write" /\ call[e].of = g /\ pending[g] = [by |-> e, written |-> FALSE]
        THEN NoRequest ELSE pending[g]]

Admission ==
    [space EXCEPT !.dirtyEpoch = @ + 1, !.halted = FALSE,
                  !.queued = @ \/ ~(space.running \/ space.retrying \/ space.gate)]

Offered(after) ==
    IF after.queued /\ ~space.queued THEN Append(queue, registered) ELSE queue

\* admit, the last step of enqueue: the registration must still be the manager's.
Admit(e) ==
    /\ call[e].pc = "admit"
    /\ call' = [call EXCEPT ![e] = IdleCall]
    /\ IF call[e].of = registered
       THEN /\ space' = Admission
            /\ queue' = Offered(space')
            /\ promised' = requested
       ELSE UNCHANGED <<space, queue, promised>>
    /\ watch' = IF e = "watch" /\ watch.pc \in {"enqueue", "resync"}
                THEN [watch EXCEPT !.pc = IF @ = "enqueue" THEN "open" ELSE "start"] ELSE watch
    /\ UNCHANGED <<durable, registered, epochs, pending, turn, timers, report, left, covered>>

---------------------------------------------------------------------------
(* unregister, a restart of the process, and register.                     *)

\* unregister removes the fibers of the registration; a call under way finds it gone.
Unregistered ==
    /\ registered' = 0
    /\ space' = NewSpace
    /\ turn' = [s \in Syncers |-> IdleTurn]
    /\ watch' = NoWatch
    /\ timers' = NoTimers
    /\ report' = NewReport
    /\ UNCHANGED <<durable, epochs, promised, covered>>

Unregister ==
    /\ registered /= 0
    /\ call["register"].pc = "idle"
    /\ Unregistered
    /\ call' = [Settled("watch", FALSE) EXCEPT !["watch"] = IdleCall]
    /\ pending' = Withdrawn("watch")
    /\ UNCHANGED <<queue, left>>

\* The process dies: only the two generations are left.
Restart ==
    /\ registered /= 0
    /\ Unregistered
    /\ call' = [e \in Enqueuers |-> IdleCall]
    /\ pending' = [g \in Registrations |-> NoRequest]
    /\ queue' = << >>
    /\ UNCHANGED left

\* register: a fresh state, a watch of its own, and a first request.
Register ==
    /\ registered = 0
    /\ epochs < MaxRegistrations
    /\ call["register"].pc = "idle"
    /\ call["watch"].pc = "idle"
    /\ epochs' = epochs + 1
    /\ registered' = epochs'
    /\ space' = NewSpace
    /\ report' = NewReport
    /\ watch' = [NoWatch EXCEPT !.pc = "start"]
    /\ Requests("register", epochs')
    /\ UNCHANGED <<durable, queue, turn, timers, left, history>>

---------------------------------------------------------------------------
(* The application: notify, mutate and schedule, sync.                     *)

Calls(c) ==
    /\ registered /= 0
    /\ call[c].pc = "idle" /\ turn[c].pc = "idle"
    /\ left.stimuli > 0
    /\ left' = [left EXCEPT !.stimuli = @ - 1]

Notify(c) ==
    /\ Calls(c)
    /\ Requests(c, registered)
    /\ UNCHANGED <<durable, registered, epochs, space, queue, turn, watch, timers, report,
                   history>>

\* A mutation commits its own request with its row, then schedules the space.
MutateAndSchedule(c) ==
    /\ Calls(c)
    /\ requested' = requested + 1
    /\ call' = [call EXCEPT ![c] = [IdleCall EXCEPT !.pc = "admit", !.of = registered]]
    /\ UNCHANGED <<completed, registered, epochs, space, pending, queue, turn, watch, timers,
                   report, history>>

\* Manager.sync: a synchronization that is no turn.
SyncNow(c) ==
    /\ Calls(c)
    /\ turn' = [turn EXCEPT ![c] = [IdleTurn EXCEPT !.pc = "sync", !.of = registered]]
    /\ UNCHANGED <<durable, registered, epochs, space, pending, queue, call, watch, timers,
                   report, history>>

\* A caller is interrupted before it admits; its own request may be written all the same.
Interrupt(c) ==
    /\ call[c].pc \in {"run", "write", "joined"}
    /\ left.failures > 0
    /\ left' = [left EXCEPT !.failures = @ - 1]
    /\ call' = [Settled(c, FALSE) EXCEPT ![c] = IdleCall]
    /\ pending' = Withdrawn(c)
    /\ requested' \in {requested} \cup IF call[c].pc = "write" THEN {requested + 1} ELSE {}
    /\ UNCHANGED <<completed, registered, epochs, space, queue, turn, watch, timers, report,
                   history>>

---------------------------------------------------------------------------
(* A turn: runTurn and finishTurn, and the sync it shares with callers.    *)

At(s, pc) == turn[s].pc = pc
Goto(s, pc) == turn' = [turn EXCEPT ![s].pc = pc]

\* worker and selectWork: an entry of a registration that is gone is skipped.
Take(w) ==
    /\ At(w, "idle")
    /\ queue /= << >>
    /\ queue' = Tail(queue)
    /\ IF Head(queue) = registered /\ space.queued
       THEN /\ space' = [space EXCEPT !.queued = FALSE, !.running = TRUE]
            /\ turn' = [turn EXCEPT ![w] =
                   [IdleTurn EXCEPT !.pc = "observe", !.of = registered,
                                    !.epoch = space.dirtyEpoch, !.seen = report.generation]]
       ELSE UNCHANGED <<space, turn>>
    /\ UNCHANGED <<durable, registered, epochs, pending, call, watch, timers, report, left,
                   history>>

\* requests.observe: whoever asks from here on writes a request of its own.
Observe(w) ==
    /\ At(w, "observe")
    /\ pending' = [pending EXCEPT ![turn[w].of] = NoRequest]
    /\ Goto(w, "read")
    /\ UNCHANGED <<durable, registered, epochs, space, queue, call, watch, timers, report, left,
                   history>>

\* finishTurn: the space is queued again if it was admitted meanwhile.
Finish(w, state) ==
    LET again == /\ state.dirtyEpoch > turn[w].epoch
                 /\ ~(state.queued \/ state.retrying \/ state.halted \/ state.gate)
    IN /\ space' = [state EXCEPT !.running = FALSE, !.queued = @ \/ again]
       /\ queue' = IF again THEN Append(queue, registered) ELSE queue
       /\ turn' = [turn EXCEPT ![w] = IdleTurn]

\* The generations are read; with nothing asked for since the last turn, it is over.
Read(w) ==
    /\ At(w, "read")
    /\ \/ /\ completed >= requested
          /\ Finish(w, space)
       \/ /\ completed < requested
          /\ turn' = [turn EXCEPT ![w].pc = "sync", ![w].target = requested]
          /\ UNCHANGED <<space, queue>>
    /\ UNCHANGED <<durable, registered, epochs, pending, call, watch, timers, report, left,
                   history>>

\* layerOnePass.sync takes the semaphore.
SyncBegins(s) ==
    /\ At(s, "sync")
    /\ ~GateHeld
    /\ turn' = [turn EXCEPT ![s].pc = "syncing", ![s].asked = requested]
    /\ report' = [report EXCEPT !.generation = @ + 1, !.failed = FALSE]
    /\ UNCHANGED <<durable, registered, epochs, space, pending, queue, call, watch, timers,
                   left, history>>

\* What follows a sync: the turn completes its generation, a caller has its answer.
AfterSync(s) == IF s \in Workers THEN [turn[s] EXCEPT !.pc = "complete"] ELSE IdleTurn

\* succeeded, first half: without a failure since the sync began, progress is read.
SyncSucceeds(s) ==
    /\ At(s, "syncing")
    /\ turn' = [turn EXCEPT ![s] = IF report.failed THEN AfterSync(s)
                                   ELSE [turn[s] EXCEPT !.pc = "synced"]]
    /\ covered' = turn[s].asked
    /\ UNCHANGED <<durable, registered, epochs, space, pending, queue, call, watch, timers,
                   report, left, promised>>

Online == [report EXCEPT !.status = "Online"]

\* succeeded, second half: the status is Online, whatever was reported meanwhile.
SyncReports(s) ==
    /\ At(s, "synced")
    /\ report' = Online
    /\ turn' = [turn EXCEPT ![s] = AfterSync(s)]
    /\ UNCHANGED <<durable, registered, epochs, space, pending, queue, call, watch, timers,
                   left, history>>

\* handleFailure, for a turn: the gate first, the report and the policy next.
TurnFailed(w, k) ==
    /\ space' = CloseGate(k)
    /\ turn' = [turn EXCEPT ![w].pc = "report", ![w].kind = k, ![w].owner = ClosesGate(k)]

SyncFails(s, k) ==
    /\ turn[s].pc \in {"syncing", "synced"}
    /\ Fails(k)
    /\ report' = ReportFailure(k, FALSE, report.generation)
    /\ IF s \in Workers THEN TurnFailed(s, k)
       ELSE turn' = [turn EXCEPT ![s] = IdleTurn] /\ UNCHANGED space
    /\ UNCHANGED <<durable, registered, epochs, pending, queue, call, watch, timers, history>>

\* Plausible bug: the generation is read again when the sync is over.
CompleteWhatIsAsked(w) ==
    /\ At(w, "complete")
    /\ completed' = requested
    /\ IF report.failed THEN Finish(w, space) ELSE Goto(w, "confirm") /\ UNCHANGED <<space, queue>>
    /\ UNCHANGED <<requested, registered, epochs, pending, call, watch, timers, report, left,
                   history>>

\* completeReconciliation of the generation read before the sync, and succeeded again.
Complete(w) ==
    /\ At(w, "complete")
    /\ completed' = Larger(completed, turn[w].target)
    /\ IF report.failed THEN Finish(w, space) ELSE Goto(w, "confirm") /\ UNCHANGED <<space, queue>>
    /\ UNCHANGED <<requested, registered, epochs, pending, call, watch, timers, report, left,
                   history>>

Confirm(w) ==
    /\ At(w, "confirm")
    /\ report' = Online
    /\ Finish(w, space)
    /\ UNCHANGED <<durable, registered, epochs, pending, call, watch, timers, left, history>>

\* The local store fails a turn that reads or completes the generations.
StorageFails(w, k) ==
    /\ turn[w].pc \in {"read", "complete", "confirm"}
    /\ k \in {"Retryable", "Terminal"}
    /\ Fails(k)
    /\ space' = space
    /\ turn' = [turn EXCEPT ![w].pc = "report", ![w].kind = k,
                            ![w].seen = IF At(w, "read") THEN @ ELSE report.generation]
    /\ UNCHANGED <<durable, registered, epochs, pending, queue, call, watch, timers, report,
                   history>>

\* handleFailure's report and policy, and the end of the turn.
TurnReports(w) ==
    LET k == turn[w].kind IN
    /\ At(w, "report")
    /\ report' = ReportFailure(k, FALSE, turn[w].seen)
    /\ Finish(w, IF Rejected(k) THEN space ELSE AfterFailure(k))
    /\ timers' = [timers EXCEPT !.retry = @ \/ Transient(k), !.wait = @ \/ turn[w].owner]
    /\ UNCHANGED <<durable, registered, epochs, pending, call, watch, left, history>>

---------------------------------------------------------------------------
(* The timers: finishRetry and finishWait readmit the space.               *)

Readmits(e) == Requests(e, registered)

\* Plausible bug: the retry only lets the space be admitted, for a caller will come.
RetryElapsesIdly ==
    /\ timers.retry
    /\ timers' = [timers EXCEPT !.retry = FALSE]
    /\ space' = [space EXCEPT !.retrying = FALSE]
    /\ UNCHANGED <<durable, registered, epochs, pending, queue, call, turn, watch, report, left,
                   history>>

\* finishRetry, after the delay or as soon as the transport is back.
RetryElapses ==
    /\ timers.retry
    /\ call["retry"].pc = "idle"
    /\ timers' = [timers EXCEPT !.retry = FALSE]
    /\ space' = [space EXCEPT !.retrying = FALSE]
    /\ Readmits("retry")
    /\ UNCHANGED <<durable, registered, epochs, queue, turn, watch, report, left,
                   history>>

\* finishWait: the provider published another credential.
CredentialChanges ==
    /\ timers.wait
    /\ call["wait"].pc = "idle"
    /\ timers' = [timers EXCEPT !.wait = FALSE]
    /\ space' = [space EXCEPT !.gate = FALSE]
    /\ Readmits("wait")
    /\ UNCHANGED <<durable, registered, epochs, queue, turn, watch, report, left,
                   history>>

---------------------------------------------------------------------------
(* The watch of the server.                                                *)

WatchOpens ==
    /\ watch.pc = "start"
    /\ ~space.gate
    /\ watch' = [NoWatch EXCEPT !.pc = "open", !.epoch = space.authenticationEpoch]
    /\ UNCHANGED <<durable, registered, epochs, space, pending, queue, call, turn, timers,
                   report, left, history>>

\* A wake from the server, or the one that greets a new watch.
Wake ==
    /\ watch.pc = "open"
    /\ call["watch"].pc = "idle"
    /\ left.stimuli > 0
    /\ left' = [left EXCEPT !.stimuli = @ - 1]
    /\ watch' = [watch EXCEPT !.pc = "enqueue"]
    /\ Readmits("watch")
    /\ UNCHANGED <<durable, registered, epochs, space, queue, turn, timers, report,
                   history>>

\* onFailure: a failure older than the last pause, or during one, only opens again.
WatchFailed(k) ==
    IF \/ watch.epoch /= space.authenticationEpoch
       \/ space.gate /\ ~Rejected(k)
    THEN watch' = [watch EXCEPT !.pc = "start"] /\ UNCHANGED space
    ELSE /\ watch' = [watch EXCEPT !.pc = "report", !.kind = k, !.owner = ClosesGate(k)]
         /\ space' = CloseGate(k)

WatchFails(k) ==
    /\ watch.pc = "open"
    /\ Fails(k)
    /\ WatchFailed(k)
    /\ UNCHANGED <<durable, registered, epochs, pending, queue, call, turn, timers, report,
                   history>>

\* watchFailed, then the policy: a delay, the gate, or nothing ever again. A denied
\* authorization is reported between two syncs, once the replication is revoked.
WatchReports ==
    LET k == watch.kind
        stops == ~Transient(k) /\ k /= "Credential"
    IN /\ watch.pc = "report"
       /\ k = "Denied" => ~GateHeld
       /\ report' = ReportFailure(k, TRUE, report.generation)
       /\ watch' = [watch EXCEPT !.pc = CASE stops -> "stopped" [] Transient(k) -> "delay"
                                          [] OTHER -> "start"]
       /\ timers' = [timers EXCEPT !.wait = @ \/ watch.owner]
       /\ UNCHANGED <<durable, registered, epochs, space, pending, queue, call, turn, left,
                      history>>

\* After the delay the watch readmits the space, then opens again.
WatchResyncs ==
    /\ watch.pc = "delay"
    /\ call["watch"].pc = "idle"
    /\ watch' = [watch EXCEPT !.pc = "resync"]
    /\ Readmits("watch")
    /\ UNCHANGED <<durable, registered, epochs, space, queue, turn, timers, report,
                   left, history>>

---------------------------------------------------------------------------
(* A request that cannot be written.                                       *)

\* handleFailure from readmit: reported against the present sync, then the policy.
ReadmissionFailed(k) ==
    /\ report' = ReportFailure(k, FALSE, report.generation)
    /\ space' = AfterFailure(k)
    /\ timers' = [timers EXCEPT !.retry = @ \/ Transient(k)]

\* The caller has the error, register undoes itself, the watch ends with it, and a
\* readmission is retried or halts the space.
WriteFails(e, k) ==
    LET rest == [Settled(e, FALSE) EXCEPT ![e] = IdleCall] IN
    /\ call[e].pc = "write"
    /\ k \in {"Retryable", "Terminal"}
    /\ Fails(k)
    /\ UNCHANGED queue
    /\ CASE e = "register" /\ call[e].of = registered ->
              /\ Unregistered
              /\ call' = [rest EXCEPT !["watch"] = IdleCall]
              /\ pending' = [Withdrawn(e) EXCEPT ![registered] = NoRequest]
         [] e \in Callers \/ call[e].of /= registered ->
              /\ call' = rest /\ pending' = Withdrawn(e)
              /\ UNCHANGED <<durable, registered, epochs, space, turn, watch, timers, report,
                             history>>
         [] e = "watch" /\ watch.pc = "enqueue" ->
              /\ call' = rest /\ pending' = Withdrawn(e)
              /\ WatchFailed(k)
              /\ UNCHANGED <<durable, registered, epochs, turn, timers, report, history>>
         [] OTHER ->
              /\ call' = rest /\ pending' = Withdrawn(e)
              /\ watch' = IF e = "watch" THEN [watch EXCEPT !.pc = "start"] ELSE watch
              /\ ReadmissionFailed(k)
              /\ UNCHANGED <<durable, registered, epochs, turn, history>>

---------------------------------------------------------------------------
Enqueues(e) == RunAgain(e) \/ Write(e) \/ Admit(e)

Works(w) ==
    \/ Take(w) \/ Observe(w) \/ Read(w) \/ Complete(w) \/ Confirm(w) \/ TurnReports(w)

Syncs(s) == SyncBegins(s) \/ SyncSucceeds(s) \/ SyncReports(s)

Watches == WatchOpens \/ WatchReports \/ WatchResyncs

Failures ==
    \E k \in Kinds :
        \/ \E s \in Syncers : SyncFails(s, k)
        \/ \E w \in Workers : StorageFails(w, k)
        \/ \E e \in Enqueuers : WriteFails(e, k)
        \/ WatchFails(k)

Application == \E c \in Callers : Notify(c) \/ MutateAndSchedule(c) \/ SyncNow(c) \/ Interrupt(c)

Next ==
    \/ \E e \in Enqueuers : Enqueues(e)
    \/ \E w \in Workers : Works(w)
    \/ \E s \in Syncers : Syncs(s)
    \/ Watches \/ Wake \/ RetryElapses \/ CredentialChanges
    \/ Failures \/ Application
    \/ Register \/ Unregister \/ Restart

Spec == Init /\ [][Next]_vars

\* Fibers that can go on do so, a delay ends, and a sync ends one way or the other, for
\* every call it makes has a timeout. No credential need ever change.
FairSpec ==
    /\ Spec
    /\ \A e \in Enqueuers : WF_vars(Enqueues(e))
    /\ \A w \in Workers : WF_vars(Works(w))
    /\ \A s \in Syncers : WF_vars(SyncBegins(s)) /\ WF_vars(SyncSucceeds(s) \/ SyncReports(s))
    /\ WF_vars(RetryElapses)
    /\ WF_vars(Watches)

---------------------------------------------------------------------------
(* Properties.                                                             *)

\* The variables hold what the code's values can be.
TypeOK ==
    /\ {requested, completed, promised, covered} \subseteq Nat
    /\ registered \in 0 .. epochs /\ epochs \in 0 .. MaxRegistrations
    /\ space \in [queued : BOOLEAN, running : BOOLEAN, retrying : BOOLEAN, halted : BOOLEAN,
                  gate : BOOLEAN, authenticationEpoch : Nat, dirtyEpoch : Nat]
    /\ \A g \in Registrations :
          pending[g] \in [by : Enqueuers \cup {None}, written : BOOLEAN]
    /\ queue \in Seq(Registrations)
    /\ \A e \in Enqueuers :
          call[e].pc \in {"idle", "run", "write", "joined", "admit"}
    /\ \A s \in Syncers :
          turn[s].pc \in {"idle", "observe", "read", "sync", "syncing", "synced", "complete",
                          "confirm", "report"}
    /\ watch.pc \in {"off", "start", "open", "enqueue", "report", "delay", "resync", "stopped"}
    /\ timers \in [retry : BOOLEAN, wait : BOOLEAN]
    /\ report.status \in {"Connecting", "Online", "Offline", "Failed", "NeedsAuthentication"}

\* A generation is completed only by a successful sync that began after it was asked
\* for: what a caller committed before its request was there for that sync to send. It
\* holds over restarts, so an interrupted turn is always taken up again.
CompletedWasCovered == completed <= covered

\* Admitted requests are completed in the end, if the space stays registered, is not
\* halted by a terminal failure and does not wait for a credential.
RequestsComplete ==
    (registered /= 0 /\ promised > completed) ~>
        (promised <= completed \/ space.halted \/ space.gate \/ registered = 0)
=============================================================================
