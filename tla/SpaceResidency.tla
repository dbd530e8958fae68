--------------------------- MODULE SpaceResidency ---------------------------
(***************************************************************************)
(* Which remembered spaces have a live runtime, as the replica of          *)
(* packages/local-sql/src/SqlReplica.ts (SqlReplica.layer) decides it.     *)
(*                                                                         *)
(* Foreground calls activate the space they address; at most               *)
(* foregroundActiveSpaces may be resident, and the least recently used one *)
(* that nobody uses is evicted for another.  Background workers take the   *)
(* spaces with pending mutations from a queue, open a short lived runtime  *)
(* (a semaphore bounds those), sync, and close it.  A foreground call      *)
(* replaces the background runtime of its space; a space can be            *)
(* deactivated and left at any time.                                       *)
(*                                                                         *)
(* A fiber's step is the code between two points where it may be           *)
(* suspended.  Statements that read storage do not fail here (the          *)
(* DELETE of a leave may).  A space that was left is not joined again.     *)
(***************************************************************************)
EXTENDS Integers, Sequences, FiniteSets, SequencesExt

CONSTANTS
  Spaces,           \* remembered spaces
  Callers,          \* fibers of the application
  Workers,          \* background fibers (backgroundConcurrency)
  ForegroundSlots,  \* foregroundActiveSpaces
  BackgroundSlots,  \* maximumActiveSpaces - foregroundActiveSpaces
  Kinds,            \* the calls the application makes
  Restored,         \* the spaces with pending mutations when the replica starts
  Leavable,         \* the spaces it may leave
  MaxCalls,         \* bound on calls
  MaxDisturbances,  \* bound on failures and interrupted calls
  Nobody            \* no space

Fibers == Callers \cup Workers

ASSUME CapacityAssumption ==
  /\ ForegroundSlots \in Nat \ {0} /\ BackgroundSlots \in Nat \ {0}
  /\ Cardinality(Workers) \in 1..BackgroundSlots
  /\ Callers \cap Workers = {}

ASSUME BoundsAssumption ==
  /\ Kinds \subseteq {"use", "read", "deactivate", "leave"}
  /\ Leavable \subseteq Spaces /\ Nobody \notin Spaces
  /\ Restored \subseteq Spaces /\ IsFiniteSet(Restored)
  /\ MaxCalls \in Nat /\ MaxDisturbances \in Nat

VARIABLES
  entry,      \* RememberedEntry of each space
  live,       \* the runtime scope open for a space: its kind, or "none"
  pending,    \* durable: the spaces that have pending mutations
  residents,  \* foregroundResidents: least recently used first, none twice
  foregroundAdmitted,  \* the residents that have a slot
  queue,      \* backgroundQueue (backgroundQueued is its range)
  retries,    \* spaces with a retry whose version is still current
  waits,      \* credentialWaits
  fiber,      \* what every fiber is doing
  calls, disturbances   \* history: what the bounds count

storeVars == <<live, pending>>
slotVars == <<residents, foregroundAdmitted>>
workVars == <<queue, retries, waits>>
boundVars == <<calls, disturbances>>
residencyVars == <<entry, storeVars, slotVars, workVars, fiber, boundVars>>

IdleFiber == [pc |-> "idle", call |-> "none", space |-> Nobody, target |-> Nobody,
         then |-> "idle", result |-> "ok", retired |-> FALSE, current |-> FALSE]

Remembered ==
  [joined |-> TRUE, leaving |-> FALSE, due |-> FALSE,
   activation |-> "Inactive", runtime |-> "none", foreground |-> FALSE,
   leases |-> 0, preempted |-> FALSE, failed |-> FALSE]

Foreground(f) == f \in Callers

\* a failure of storage or of the remote, or an interruption
Disturb ==
  /\ disturbances < MaxDisturbances
  /\ disturbances' = disturbances + 1
  /\ UNCHANGED calls

Active(s) == entry[s].activation = "Active" /\ entry[s].runtime # "none"
HasForegroundRuntime(s) == Active(s) /\ entry[s].runtime = "foreground"

Touch(order, s) == Append(RemoveFirst(order, s), s)

(***************************************************************************)
(* Completions.  signalCapacity wakes every fiber that waits for capacity, *)
(* and settling a transition every fiber that waits for it; a fiber woken  *)
(* by a failed transition fails with it.                                   *)
(***************************************************************************)
Signalled(fibers) ==
  [f \in Fibers |->
     IF fibers[f].pc = "awaitCapacity"
     THEN [fibers[f] EXCEPT !.pc = fibers[f].then, !.then = "idle"] ELSE fibers[f]]

Failing(r, kind) ==
  CASE r.call = "use" -> [r EXCEPT !.pc = "withdraw"]
    [] r.call = "deactivate" -> IdleFiber
    [] r.call = "leave" -> [r EXCEPT !.pc = "undo"]
    [] r.call = "turn" -> [r EXCEPT !.pc = "settle", !.result = kind]

Completed(fibers, s, kind) ==
  [f \in Fibers |->
     IF ~(fibers[f].pc = "awaitTransition" /\ fibers[f].space = s) THEN fibers[f]
     ELSE IF kind = "ok" THEN [fibers[f] EXCEPT !.pc = fibers[f].then, !.then = "idle"]
     ELSE Failing([fibers[f] EXCEPT !.then = "idle"], kind)]

Goto(f, pc) == [fiber EXCEPT ![f].pc = pc]
Await(f, what, next) == [fiber EXCEPT ![f].pc = what, ![f].then = next]
Done(f) == [fiber EXCEPT ![f] = IdleFiber]

(***************************************************************************)
(* backgroundGeneration: advancing it makes a scheduled retry and the      *)
(* turns that read the old value obsolete.                                 *)
(***************************************************************************)
Obsolete(fibers, s) ==
  [f \in Fibers |->
     IF fibers[f].space = s THEN [fibers[f] EXCEPT !.current = FALSE] ELSE fibers[f]]

(***************************************************************************)
(* enqueueBackground, from the states e of the entries and fs of the       *)
(* fibers that the rest of the step leads to.                              *)
(***************************************************************************)
Enqueue(s, e, fs) ==
  IF e[s].leaving
  THEN /\ entry' = [e EXCEPT ![s].due = TRUE]
       /\ fiber' = fs /\ UNCHANGED <<queue, retries>>
  ELSE IF s \in ToSet(queue)
  THEN entry' = e /\ fiber' = fs /\ UNCHANGED <<queue, retries>>
  ELSE /\ entry' = e /\ fiber' = Obsolete(fs, s)
       /\ queue' = Append(queue, s) /\ retries' = retries \ {s}

NoEnqueue(e, fs) == entry' = e /\ fiber' = fs /\ UNCHANGED <<queue, retries>>

EnqueueIf(condition, s, e, fs) ==
  IF condition THEN Enqueue(s, e, fs) ELSE NoEnqueue(e, fs)

\* dropForegroundReservation
DropReservation(s) ==
  /\ residents' = RemoveFirst(residents, s)
  /\ foregroundAdmitted' = foregroundAdmitted \ {s}

(***************************************************************************)
(* The application's calls.  A read of a resident runtime (a settlement    *)
(* stream's page) takes a permit of its operation gate and no lease; every *)
(* other operation activates the space and leases its runtime.             *)
(***************************************************************************)
Call(c) ==
  /\ fiber[c] = IdleFiber /\ calls < MaxCalls
  /\ c = CHOOSE d \in Callers : fiber[d] = IdleFiber
  /\ calls' = calls + 1
  /\ \E s \in Spaces, kind \in Kinds :
       LET start(call, pc) ==
             fiber' = [fiber EXCEPT ![c] =
                         [IdleFiber EXCEPT !.call = call, !.pc = pc, !.space = s,
                                      !.target = s]]
       IN /\ entry[s].joined /\ ~entry[s].leaving
          /\ \/ kind = "use" /\ start("use", "enter") /\ UNCHANGED entry
             \/ /\ kind = "read" /\ UNCHANGED entry
                /\ IF Active(s) THEN start("read", "read") ELSE start("use", "enter")
             \/ kind = "deactivate" /\ start("deactivate", "deactivate") /\ UNCHANGED entry
             \/ /\ kind = "leave" /\ s \in Leavable
                /\ start("leave", "deactivate")
                /\ entry' = [entry EXCEPT ![s].leaving = TRUE]
  /\ UNCHANGED <<storeVars, slotVars, workVars, disturbances>>

(***************************************************************************)
(* acquire: the lease on the runtime that the activation returned.         *)
(***************************************************************************)
Lease(f, e, order) ==
  LET s == fiber[f].space
  IN /\ entry' = [e EXCEPT ![s].leases = @ + 1]
     /\ residents' = IF Foreground(f) THEN Touch(order, s) ELSE order
     /\ fiber' = Goto(f, IF Foreground(f) THEN "use" ELSE "sync")

Usable(f, s) == Active(s) /\ (Foreground(f) => entry[s].runtime = "foreground")

(***************************************************************************)
(* transition, from the capacity it has to the start of a new runtime.     *)
(* The entries e and the residents were changed earlier in the same step.  *)
(***************************************************************************)
Proceed(f, e, residents0) ==
  LET s == fiber[f].space
      order == IF Foreground(f) THEN Touch(residents0, s) ELSE residents0
      begin(pc) ==
        /\ entry' = [e EXCEPT ![s].activation = "Activating", ![s].runtime = "none",
                              ![s].preempted = FALSE]
        /\ fiber' = [fiber EXCEPT ![f].pc = pc, ![f].retired = (pc = "retire")]
        /\ residents' = order
      wait(what) == fiber' = Await(f, what, "enter") /\ residents' = order
  IN \/ Usable(f, s) /\ Lease(f, e, order)
     \/ /\ Active(s) /\ ~Usable(f, s) /\ e[s].leases > 0
        /\ entry' = [e EXCEPT ![s].preempted = TRUE]
        /\ wait("awaitCapacity")
     \/ /\ e[s].activation \in {"Activating", "Deactivating"}
        /\ entry' = e
        /\ wait("awaitTransition")
     \/ /\ ~Usable(f, s) /\ (Active(s) => e[s].leases = 0)
        /\ e[s].activation \in {"Active", "Inactive"}
        /\ IF Foreground(f) /\ ~e[s].foreground
           THEN fiber' = Goto(f, "enter") /\ residents' = order /\ entry' = e
           ELSE begin(IF Active(s) THEN "retire" ELSE "open")

(***************************************************************************)
(* deactivate, once the runtime of v may be closed: the reservation goes   *)
(* and capacity is signalled before the runtime is closed.                 *)
(***************************************************************************)
StartClosing(f, v, e, order) ==
  /\ entry' = [e EXCEPT ![v].activation = "Deactivating", ![v].foreground = FALSE]
  /\ residents' = RemoveFirst(order, v)
  /\ foregroundAdmitted' = foregroundAdmitted \ {v}
  /\ fiber' = [Signalled(fiber) EXCEPT ![f].pc = "close", ![f].target = v]

(***************************************************************************)
(* ensureForegroundCapacity.  The victim is the least recently used        *)
(* resident that is active and not leased; deactivating it fails when its  *)
(* entry is no longer remembered.                                          *)
(***************************************************************************)
Others(s, order) == {r \in ToSet(order) : r # s /\ r \in foregroundAdmitted}
Evictable(r) == entry[r].activation = "Active" /\ entry[r].leases = 0
Victims(s, order) == {r \in Others(s, order) : Evictable(r)}

\* the first of the residents that is in V
LeastRecentlyUsed(V, order) ==
  order[CHOOSE i \in DOMAIN order :
          order[i] \in V /\ \A j \in DOMAIN order : order[j] \in V => i <= j]

EnsureCapacity(c, e, order) ==
  LET s == fiber[c].space
      free == \/ HasForegroundRuntime(s)
              \/ Cardinality(Others(s, order)) < ForegroundSlots
      victims == Victims(s, order)
      victim == LeastRecentlyUsed(victims, order)
  IN \/ /\ free
        /\ foregroundAdmitted' =
             foregroundAdmitted \cup (IF HasForegroundRuntime(s) THEN {} ELSE {s})
        /\ Proceed(c, e, order)
     \/ /\ ~free /\ victims # {} /\ entry[victim].joined
        /\ StartClosing(c, victim, e, order)
     \/ /\ ~free /\ victims # {} /\ ~entry[victim].joined
        /\ fiber' = Goto(c, "withdraw")
        /\ entry' = e /\ residents' = order /\ UNCHANGED foregroundAdmitted
     \/ /\ ~free /\ victims = {}
        /\ fiber' = Await(c, "awaitCapacity", "capacity")
        /\ entry' = e /\ residents' = order /\ UNCHANGED foregroundAdmitted

(***************************************************************************)
(* transition, from the top, and from the wait for capacity.               *)
(***************************************************************************)
Rejected(s) == ~entry[s].joined \/ entry[s].leaving

TurnedAway(f) ==
  LET s == fiber[f].space
  IN /\ fiber[f].pc = "enter" /\ Rejected(s)
     /\ IF Foreground(f)
        THEN fiber' = Goto(f, "withdraw") /\ UNCHANGED entry
        ELSE fiber' = Done(f) /\ entry' = [entry EXCEPT ![s].due = TRUE]
     /\ UNCHANGED <<storeVars, slotVars, workVars, boundVars>>

Enter(f) ==
  LET s == fiber[f].space
  IN /\ fiber[f].pc = "enter" /\ ~Rejected(s)
     /\ IF Foreground(f) /\ ~HasForegroundRuntime(s)
        THEN EnsureCapacity(f, [entry EXCEPT ![s].foreground = TRUE], Touch(residents, s))
        ELSE Proceed(f, entry, residents) /\ UNCHANGED foregroundAdmitted
     /\ UNCHANGED <<storeVars, workVars, boundVars>>

AwaitedCapacity(c) ==
  /\ fiber[c].pc = "capacity"
  /\ EnsureCapacity(c, entry, residents)
  /\ UNCHANGED <<storeVars, workVars, boundVars>>

(***************************************************************************)
(* The operation gate: a runtime is closed only while nobody reads it.     *)
(***************************************************************************)
Unused(s) == \A c \in Callers : ~(fiber[c].pc = "read" /\ fiber[c].space = s)

Retire(c) ==
  LET s == fiber[c].space
  IN /\ fiber[c].pc = "retire" /\ Unused(s)
     /\ live' = [live EXCEPT ![s] = "none"]
     /\ fiber' = Goto(c, "open")
     /\ UNCHANGED <<entry, pending, slotVars, workVars, boundVars>>

(***************************************************************************)
(* buildRuntime: a background runtime first takes a permit, which its      *)
(* scope holds until it is closed.                                         *)
(***************************************************************************)
Permits == BackgroundSlots - Cardinality({s \in Spaces : live[s] = "background"})

OpenScope(f) ==
  LET s == fiber[f].space
  IN /\ fiber[f].pc = "open"
     /\ Foreground(f) \/ Permits > 0
     /\ live' = [live EXCEPT ![s] = IF Foreground(f) THEN "foreground" ELSE "background"]
     /\ fiber' = Goto(f, "build")
     /\ UNCHANGED <<entry, pending, slotVars, workVars, boundVars>>

Built(f) ==
  LET s == fiber[f].space
      after == Completed(Signalled([fiber EXCEPT ![f].pc = "built", ![f].retired = FALSE]),
                         s, "ok")
  IN /\ fiber[f].pc = "build" /\ entry[s].joined
     /\ entry' = [entry EXCEPT ![s].runtime = live[s], ![s].activation = "Active"]
     /\ fiber' = IF Foreground(f) THEN Obsolete(after, s) ELSE after
     /\ retries' = IF Foreground(f) THEN retries \ {s} ELSE retries
     /\ UNCHANGED <<storeVars, slotVars, queue, waits, boundVars>>

(***************************************************************************)
(* The build fails: the membership row is gone, a fault, or the caller was *)
(* interrupted.  Waiters share a failure, and retry after an interruption. *)
(***************************************************************************)
BuildFails(f) ==
  LET s == fiber[f].space
      e == [entry EXCEPT ![s].activation = "Inactive", ![s].foreground = FALSE]
      failed(kind) ==
        Completed(Signalled([fiber EXCEPT ![f] = Failing(@, kind)]), s,
                  IF kind = "interrupted" THEN "ok" ELSE kind)
  IN /\ fiber[f].pc = "build"
     /\ \/ /\ ~entry[s].joined
           /\ EnqueueIf(fiber[f].retired, s, e, failed("terminal"))
           /\ UNCHANGED boundVars
        \/ \E kind \in {"transient", "terminal", "interrupted"} :
             /\ kind = "interrupted" => Foreground(f)
             /\ EnqueueIf(fiber[f].retired, s, e, failed(kind))
             /\ Disturb
     /\ DropReservation(s)
     /\ live' = [live EXCEPT ![s] = "none"]
     /\ UNCHANGED <<pending, waits>>

\* acquire starts over when the runtime was closed before the lease
Acquire(f) ==
  LET s == fiber[f].space
  IN /\ fiber[f].pc = "built"
     /\ IF Usable(f, s) THEN Lease(f, entry, residents)
        ELSE fiber' = Goto(f, "enter") /\ UNCHANGED <<entry, residents>>
     /\ UNCHANGED <<storeVars, foregroundAdmitted, workVars, boundVars>>

(***************************************************************************)
(* The end of an operation, which may have committed a mutation.           *)
(***************************************************************************)
Use(c) ==
  LET s == fiber[c].space
  IN /\ fiber[c].pc = "use"
     /\ entry' = [entry EXCEPT ![s].leases = @ - 1]
     /\ fiber' = Signalled(Done(c))
     /\ \/ UNCHANGED pending
        \/ entry[s].joined /\ pending' = pending \cup {s}
     /\ UNCHANGED <<live, slotVars, workVars, boundVars>>

Read(c) ==
  /\ fiber[c].pc = "read"
  /\ fiber' = Done(c)
  /\ UNCHANGED <<entry, storeVars, slotVars, workVars, boundVars>>

(***************************************************************************)
(* The end of an activation that failed: the last caller that wanted the   *)
(* space in the foreground gives its reservation back, and a background    *)
(* runtime that was kept for it goes to a worker.                          *)
(***************************************************************************)
Wanting(s) ==
  {c \in Callers : /\ fiber[c].call = "use" /\ fiber[c].space = s
                   /\ fiber[c].pc \notin {"built", "use"}}

\* Plausible bug: the reservation is dropped and capacity signalled, and the
\* background runtime that was kept is left to nobody.
ReturnToWorkerSignalOnly(s, e, fs) == NoEnqueue(e, fs)

\* releaseForegroundReservation
ReturnToWorker(s, e, fs) ==
  EnqueueIf(Active(s) /\ entry[s].runtime = "background" /\ entry[s].leases = 0,
            s, e, fs)

Withdraw(c) ==
  LET s == fiber[c].space
      kept == \/ Wanting(s) # {c}
              \/ ~entry[s].foreground
              \/ HasForegroundRuntime(s)
  IN /\ fiber[c].pc = "withdraw"
     /\ IF kept
        THEN /\ fiber' = Done(c)
             /\ UNCHANGED <<entry, slotVars, queue, retries>>
        ELSE /\ DropReservation(s)
             /\ ReturnToWorker(s, [entry EXCEPT ![s].foreground = FALSE],
                               Signalled(Done(c)))
     /\ UNCHANGED <<storeVars, waits, boundVars>>

\* the application interrupts a call that waits
Interrupt(c) ==
  /\ Disturb
  /\ fiber[c].pc \in {"awaitCapacity", "awaitTransition"}
  /\ fiber[c].call \in {"use", "deactivate"}
  /\ fiber' = [fiber EXCEPT ![c] = Failing([@ EXCEPT !.then = "idle"], "interrupted")]
  /\ UNCHANGED <<entry, storeVars, slotVars, workVars>>

(***************************************************************************)
(* deactivate, asked for by a caller: it waits for the transition under    *)
(* way, and for the leases, whose background turn it preempts.             *)
(***************************************************************************)
Deactivate(c) ==
  LET s == fiber[c].space
      next == IF fiber[c].call = "leave" THEN Goto(c, "delete") ELSE Done(c)
  IN /\ fiber[c].pc = "deactivate"
     /\ \/ /\ ~entry[s].joined
           /\ fiber' = [fiber EXCEPT ![c] = Failing(@, "terminal")]
           /\ UNCHANGED <<entry, slotVars>>
        \/ /\ entry[s].joined /\ entry[s].activation = "Inactive"
           /\ fiber' = next /\ UNCHANGED <<entry, slotVars>>
        \/ /\ entry[s].joined /\ entry[s].activation \in {"Activating", "Deactivating"}
           /\ fiber' = Await(c, "awaitTransition", "deactivate")
           /\ UNCHANGED <<entry, slotVars>>
        \/ /\ entry[s].joined /\ Active(s) /\ entry[s].leases > 0
           /\ entry' = [entry EXCEPT ![s].preempted = TRUE]
           /\ fiber' = Await(c, "awaitCapacity", "deactivate")
           /\ UNCHANGED slotVars
        \/ /\ entry[s].joined /\ Active(s) /\ entry[s].leases = 0
           /\ StartClosing(c, s, entry, residents)
     /\ UNCHANGED <<storeVars, workVars, boundVars>>

Close(f) ==
  LET v == fiber[f].target
  IN /\ fiber[f].pc = "close" /\ Unused(v)
     /\ live' = [live EXCEPT ![v] = "none"]
     /\ entry' = [entry EXCEPT ![v].activation = "Inactive", ![v].runtime = "none",
                               ![v].preempted = FALSE]
     /\ fiber' = Completed(Goto(f, "count"), v, "ok")
     /\ UNCHANGED <<pending, slotVars, workVars, boundVars>>

(***************************************************************************)
(* What closing a runtime leaves behind: a space with pending mutations    *)
(* goes to the workers, except after a failed turn, which settles itself.  *)
(***************************************************************************)
AfterClose(f) ==
  LET r == fiber[f]
  IN CASE r.call = "use" ->
              [fiber EXCEPT ![f].pc = "capacity", ![f].target = fiber[f].space]
       [] r.call = "deactivate" -> Done(f)
       [] r.call = "leave" -> Goto(f, "delete")
       [] r.call = "turn" -> IF r.result = "ok" THEN Done(f) ELSE Goto(f, "settle")

Count(f) ==
  LET v == fiber[f].target
  IN /\ fiber[f].pc = "count"
     /\ EnqueueIf(fiber[f].result = "ok" /\ v \in pending, v, entry, AfterClose(f))
     /\ UNCHANGED <<storeVars, slotVars, waits, boundVars>>

(***************************************************************************)
(* leave deletes the membership row (and every row of the space), or puts  *)
(* the entry back and makes up for the turn it turned away.                *)
(***************************************************************************)
DeleteMembership(c) ==
  LET s == fiber[c].space
  IN /\ fiber[c].pc = "delete"
     /\ entry' = [entry EXCEPT ![s].joined = FALSE]
     /\ pending' = pending \ {s}
     /\ retries' = retries \ {s} /\ waits' = waits \ {s}
     /\ fiber' = Obsolete(Done(c), s)
     /\ UNCHANGED <<live, slotVars, queue, boundVars>>

DeleteFails(c) ==
  /\ fiber[c].pc = "delete" /\ Disturb
  /\ fiber' = Goto(c, "undo")
  /\ UNCHANGED <<entry, storeVars, slotVars, workVars>>

Undo(c) ==
  LET s == fiber[c].space
  IN /\ fiber[c].pc = "undo"
     /\ EnqueueIf(entry[s].due, s,
                  [entry EXCEPT ![s].leaving = FALSE, ![s].due = FALSE], Done(c))
     /\ UNCHANGED <<storeVars, slotVars, waits, boundVars>>

(***************************************************************************)
(* backgroundTurn: a worker takes a space, opens or shares its runtime and *)
(* syncs it once.                                                          *)
(***************************************************************************)
TakeWork(w) ==
  LET s == Head(queue)
  IN /\ fiber[w] = IdleFiber /\ queue # <<>>
     /\ queue' = Tail(queue)
     /\ \/ ~entry[s].joined /\ UNCHANGED <<entry, fiber>>
        \/ /\ entry[s].joined /\ entry[s].leaving
           /\ entry' = [entry EXCEPT ![s].due = TRUE] /\ UNCHANGED fiber
        \/ /\ entry[s].joined /\ ~entry[s].leaving
           /\ fiber' = [fiber EXCEPT ![w] =
                          [IdleFiber EXCEPT !.pc = "enter", !.call = "turn", !.space = s,
                                       !.target = s, !.current = TRUE]]
           /\ UNCHANGED entry
     /\ UNCHANGED <<storeVars, slotVars, retries, waits, boundVars>>

(***************************************************************************)
(* The turn's own deactivation: not of a runtime that is foreground, or    *)
(* wanted there, or still leased.                                          *)
(***************************************************************************)
Surrendered(e, s) ==
  e[s].runtime = "foreground" \/ e[s].foreground \/ e[s].leases > 0

EndTurn(w, e, result) ==
  LET s == fiber[w].space
      woken(fs) == Signalled([fs EXCEPT ![w].result = result])
  IN IF Surrendered(e, s)
     THEN /\ entry' = e
          /\ fiber' = woken(IF result = "ok" THEN Done(w) ELSE Goto(w, "settle"))
          /\ UNCHANGED slotVars
     ELSE /\ entry' = [e EXCEPT ![s].activation = "Deactivating"]
          /\ fiber' = woken(Goto(w, "close"))
          /\ DropReservation(s)

Released(w) == [entry EXCEPT ![fiber[w].space].leases = @ - 1]

\* the sync reaches the server: everything pending is settled
Sync(w) ==
  LET s == fiber[w].space
  IN /\ fiber[w].pc = "sync"
     /\ pending' = pending \ {s}
     /\ waits' = waits \ {s} /\ retries' = retries \ {s}
     /\ EndTurn(w, [Released(w) EXCEPT ![s].failed = FALSE], "ok")
     /\ UNCHANGED <<live, queue, boundVars>>

Preempted(w) ==
  /\ fiber[w].pc = "sync" /\ entry[fiber[w].space].preempted
  /\ EndTurn(w, Released(w), "ok")
  /\ UNCHANGED <<storeVars, workVars, boundVars>>

SyncFails(w) ==
  /\ fiber[w].pc = "sync" /\ Disturb
  /\ \E kind \in {"transient", "terminal", "credential"} :
       EndTurn(w, Released(w), kind)
  /\ UNCHANGED <<storeVars, workVars>>

(***************************************************************************)
(* settleBackgroundTurnAt: a failure that is still the space's own is      *)
(* retried later, or recorded until a new credential or a commit.          *)
(***************************************************************************)
Settle(w) ==
  LET s == fiber[w].space
      obsolete == ~fiber[w].current \/ entry[s].runtime = "foreground"
      kind == fiber[w].result
  IN /\ fiber[w].pc = "settle"
     /\ \/ /\ obsolete
           /\ fiber' = Done(w) /\ UNCHANGED <<entry, retries, waits>>
        \/ /\ ~obsolete /\ kind = "transient"
           /\ entry' = [entry EXCEPT ![s].failed = FALSE]
           /\ retries' = retries \cup {s} /\ waits' = waits \ {s}
           /\ fiber' = Obsolete(Done(w), s)
        \/ /\ ~obsolete /\ kind \in {"terminal", "credential"}
           /\ entry' = [entry EXCEPT ![s].failed = TRUE]
           /\ waits' = IF kind = "credential" THEN waits \cup {s} ELSE waits \ {s}
           /\ fiber' = Done(w) /\ UNCHANGED retries
     /\ UNCHANGED <<storeVars, slotVars, queue, boundVars>>

\* retrySchedulerTurn: the delay is over, or the transport has changed
Retry(s) ==
  /\ s \in retries
  /\ retries' = retries \ {s}
  /\ \/ /\ entry[s].leaving
        /\ entry' = [entry EXCEPT ![s].due = TRUE] /\ UNCHANGED queue
     \/ /\ ~entry[s].leaving
        /\ queue' = IF s \in ToSet(queue) THEN queue ELSE Append(queue, s)
        /\ UNCHANGED entry
  /\ UNCHANGED <<storeVars, slotVars, waits, fiber, boundVars>>

\* the credential has changed
Renew(s) ==
  /\ s \in waits
  /\ waits' = waits \ {s}
  /\ Enqueue(s, entry, fiber)
  /\ UNCHANGED <<storeVars, slotVars, boundVars>>

\* the manager's turns sync a space whose runtime is foreground
ForegroundSync(s) ==
  /\ live[s] = "foreground" /\ Active(s)
  /\ s \in pending \/ entry[s].failed
  /\ pending' = pending \ {s}
  /\ entry' = [entry EXCEPT ![s].failed = FALSE]
  /\ waits' = waits \ {s} /\ retries' = retries \ {s}
  /\ fiber' = Obsolete(fiber, s)
  /\ UNCHANGED <<live, slotVars, queue, boundVars>>

(***************************************************************************)
(* The restored spaces that have pending mutations are queued.             *)
(***************************************************************************)
ResidencyInit ==
  /\ entry = [s \in Spaces |-> Remembered]
  /\ live = [s \in Spaces |-> "none"]
  /\ pending = Restored
  /\ residents = <<>> /\ foregroundAdmitted = {}
  /\ queue = SetToSeq(pending)
  /\ retries = {} /\ waits = {}
  /\ fiber = [f \in Fibers |-> IdleFiber]
  /\ calls = 0 /\ disturbances = 0

Step(f) ==
  \/ TurnedAway(f) \/ Enter(f) \/ OpenScope(f) \/ Built(f) \/ Acquire(f)
  \/ Close(f) \/ Count(f)

CallerStep(c) ==
  \/ Step(c) \/ AwaitedCapacity(c) \/ Retire(c) \/ Use(c) \/ Read(c)
  \/ Withdraw(c) \/ Deactivate(c) \/ DeleteMembership(c) \/ Undo(c)

WorkerStep(w) ==
  Step(w) \/ TakeWork(w) \/ Sync(w) \/ Preempted(w) \/ Settle(w)

Outside ==
  \/ \E c \in Callers : Call(c) \/ Interrupt(c) \/ DeleteFails(c)
  \/ \E w \in Workers : SyncFails(w)
  \/ \E f \in Fibers : BuildFails(f)

ResidencyNext ==
  \/ \E c \in Callers : CallerStep(c)
  \/ \E w \in Workers : WorkerStep(w)
  \/ \E s \in Spaces : Retry(s) \/ Renew(s) \/ ForegroundSync(s)
  \/ Outside

ResidencySpec == ResidencyInit /\ [][ResidencyNext]_residencyVars

(***************************************************************************)
(* Properties.                                                             *)
(***************************************************************************)
Blocked(f) ==
  LET r == fiber[f]
  IN \/ r.pc \in {"idle", "awaitCapacity", "awaitTransition"}
     \/ r.pc = "open" /\ ~Foreground(f) /\ Permits = 0

(* Nothing is left to happen but a new call of the application: no fiber   *)
(* can run, no timer and no credential is awaited, and no resident runtime *)
(* has anything to sync.                                                   *)
Quiescent ==
  /\ \A f \in Fibers : Blocked(f)
  /\ queue # <<>> => \A w \in Workers : fiber[w] # IdleFiber
  /\ retries = {} /\ waits = {}
  /\ \A s \in pending : ~HasForegroundRuntime(s)

(* No wakeup and no work is lost: when the replica comes to rest, every    *)
(* call has ended (none waits for capacity, a lease or a transition that   *)
(* nobody will signal), and every space that still has pending mutations   *)
(* shows a failure instead of being forgotten by the workers               *)
(* (SqlReplica.ts:719-733, 950, 981-989, 1104-1109, 1688-1712).            *)
NothingStranded ==
  Quiescent =>
    /\ \A c \in Callers : fiber[c] = IdleFiber
    /\ \A s \in pending : entry[s].failed
=============================================================================
