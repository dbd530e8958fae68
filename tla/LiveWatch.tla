------------------------------ MODULE LiveWatch ------------------------------
(***************************************************************************)
(* The watches of one space on the server: packages/local-sql/src,         *)
(* ServerStore.ts (watchAuthorized, watch, the publication of wakes),      *)
(* internal/readAuthorization.ts and internal/wakeVisibility.ts.           *)
(*                                                                         *)
(* A watch is open for as long as its read authorization is renewed.  The  *)
(* coordinator of readAuthorization.ts shares the lookups of the policy    *)
(* between the callers of one key and keeps their successes for an         *)
(* interval; a monitor refreshes the authorization of every watch and      *)
(* closes it when it cannot.  A committed mutation is published to the     *)
(* watches, and each passes it on as a wake if its client may see it,      *)
(* which equal watches find out together (wakeVisibility.ts).              *)
(*                                                                         *)
(* Time is discrete.  The interval is 2 * Half units: a lookup may take    *)
(* Half, and a refresh starts when Half is left.  Timers fire on time: the *)
(* clock waits for what is due.  The success of a lookup is known by what  *)
(* is left of it and by whether a later one has completed, which is all    *)
(* that its generation is used for.                                        *)
(***************************************************************************)
EXTENDS Naturals, Sequences, FiniteSets, SequencesExt, FiniteSetsExt

CONSTANTS
  Watchers,       \* the watches clients may open, each once
  Keys,           \* the authorization keys: space, client, scope and principal
  Half,           \* half of readAuthorizationRefreshInterval
  MaxLookups,     \* maximumConcurrentReadAuthorizations
  CacheCapacity,  \* readAuthorizationCacheCapacity
  WakeCapacity,   \* wakeCapacity
  Situations,     \* what happens to the space: who watches, and bounds on what changes
  NoCommit        \* no commit

Interval == 2 * Half

ASSUME WatchAssumption ==
  /\ {Half, MaxLookups, WakeCapacity} \subseteq Nat \ {0}
  /\ CacheCapacity \in Nat
  /\ \A s \in Situations :
       /\ s.key \in [Watchers -> Keys] /\ s.watchers \subseteq Watchers
       /\ s.pending \in Nat \ {0} /\ s.slots \in Nat \ {0}
       /\ s.turns \in Nat /\ s.commits \in Nat /\ s.clock \in BOOLEAN
       /\ NoCommit \notin 1 .. s.commits

VARIABLES
  situation,   \* what this behaviour is about
  allowed,     \* the policy: the keys that may read
  since,       \* history: how long a key has not been allowed to
  turned,      \* history: how often the policy has changed
  lookup,      \* the pending lookup of each key
  cached,      \* what is left of the completed success of each key, 0 if there is none
  recent,      \* the keys with a completed success, the oldest first
  watch,       \* each watch: its phase and the success it holds
  stream,      \* what each watch is about to send
  buffer,      \* the subscription of each watch: commits published to it
  commits,     \* the commits so far: the keys that may see each of them
  publishing,  \* commits that are still to be published
  evaluation,  \* the shared visibility evaluation of each commit and key
  canceling,   \* evaluations nobody waits for that have not ended
  owed,        \* history: visible commits since the last wake of each watch
  missed       \* history: those that slid out of the buffer or were not published

policyVars == <<allowed, since, turned>>
lookupVars == <<lookup, cached, recent>>
wakeVars == <<stream, buffer, commits, publishing, evaluation, canceling, owed, missed>>
watchVars == <<situation, policyVars, lookupVars, watch, wakeVars>>

NoLookup == [phase |-> "none", elapsed |-> 0, verdict |-> FALSE]
NoWatch == [phase |-> "idle", left |-> 0, superseded |-> FALSE]
NoStream == [signal |-> "none", commit |-> NoCommit, tick |-> FALSE, started |-> FALSE]
Commits == 1 .. situation.commits
KeyOf(w) == situation.key[w]
MaxPending == situation.pending   \* maximumPendingReadAuthorizations
MaxWatchers == situation.slots    \* maximumWatchersPerSpace

WatchInit ==
  /\ situation \in Situations
  /\ allowed = Keys /\ since = [k \in Keys |-> 0] /\ turned = 0
  /\ lookup = [k \in Keys |-> NoLookup]
  /\ cached = [k \in Keys |-> 0] /\ recent = <<>>
  /\ watch = [w \in Watchers |-> NoWatch]
  /\ stream = [w \in Watchers |-> NoStream]
  /\ buffer = [w \in Watchers |-> <<>>]
  /\ commits = <<>> /\ publishing = {}
  /\ evaluation = [m \in Commits |-> [k \in Keys |-> "none"]] /\ canceling = 0
  /\ owed = [w \in Watchers |-> {}] /\ missed = [w \in Watchers |-> {}]

----------------------------------------------------------------------------
(***************************************************************************)
(* Authorization requests (readAuthorization.ts).                          *)
(***************************************************************************)
\* A watch waits for the first authorization, for the second, or for a refresh.
Waiting == {"authorizing", "reauthorizing", "refreshing"}
Requesting == {w \in Watchers : watch[w].phase \in Waiting}
PendingKeys == {k \in Keys : lookup[k].phase /= "none"}

\* register: a completed success will do, for a refresh one that came after the
\* success that is held.
Usable(w) ==
  /\ cached[KeyOf(w)] > 0
  /\ watch[w].phase = "open" => watch[w].superseded

AtCapacity(w) ==
  \/ Cardinality(Requesting) >= MaxPending
  \/ /\ ~Usable(w) /\ KeyOf(w) \notin PendingKeys
     /\ Cardinality(PendingKeys) >= MaxPending

With(w, phase, left) == [watch[w] EXCEPT !.phase = phase, !.left = left, !.superseded = FALSE]

\* request: with the cached success, behind the pending lookup, or with a new one.
Request(w, waiting, next) ==
  LET k == KeyOf(w) IN
  /\ ~AtCapacity(w)
  /\ IF Usable(w)
     THEN /\ watch' = [watch EXCEPT ![w] = With(w, next, cached[k])]
          /\ UNCHANGED lookup
     ELSE /\ watch' = [watch EXCEPT ![w].phase = waiting]
          /\ lookup' = IF k \in PendingKeys THEN lookup
                       ELSE [lookup EXCEPT ![k] = [NoLookup EXCEPT !.phase = "queued"]]
  /\ UNCHANGED <<cached, recent>>

\* The watch is refused; a watch that was open is closed.
Refused(w) ==
  /\ AtCapacity(w)
  /\ watch' = [watch EXCEPT ![w].phase = IF @ = "open" THEN "closing" ELSE "closed"]
  /\ UNCHANGED lookupVars

\* run: under one of the permits.
Asks(k) ==
  /\ lookup[k].phase = "queued"
  /\ Cardinality({l \in Keys : lookup[l].phase \in {"asking", "answering"}}) < MaxLookups
  /\ lookup' = [lookup EXCEPT ![k].phase = "asking"]
  /\ UNCHANGED <<situation, policyVars, cached, recent, watch, wakeVars>>

\* The policy of the application is read somewhere within the lookup.
Reads(k) ==
  /\ lookup[k].phase = "asking"
  /\ lookup' = [lookup EXCEPT ![k] =
                   [@ EXCEPT !.phase = "answering", !.verdict = k \in allowed]]
  /\ UNCHANGED <<situation, policyVars, cached, recent, watch, wakeVars>>

\* Those who wait for the key go on with its success, which supersedes the others.
AfterSuccess(w) ==
  CASE watch[w].phase = "authorizing" -> With(w, "preparing", Interval)
    [] watch[w].phase = "reauthorizing" -> With(w, "joining", Interval)
    [] watch[w].phase = "refreshing" -> With(w, "open", Interval)
    [] OTHER -> [watch[w] EXCEPT !.superseded = watch[w].left > 0]

AfterFailure(w) ==
  CASE watch[w].phase \in {"authorizing", "reauthorizing"} -> [watch[w] EXCEPT !.phase = "closed"]
    [] watch[w].phase = "refreshing" -> [watch[w] EXCEPT !.phase = "closing"]
    [] OTHER -> watch[w]

Others(k) == SelectSeq(recent, LAMBDA l : l /= k)

\* pruneCompleted: the oldest successes make room.
Kept(ks) ==
  IF Len(ks) > CacheCapacity THEN SubSeq(ks, Len(ks) - CacheCapacity + 1, Len(ks)) ELSE ks

\* complete: a success is shared and kept; a failure is shared, and the success it
\* was to refresh is no longer handed out.
Succeeds(k) ==
  /\ recent' = Kept(Append(Others(k), k))
  /\ cached' = [l \in Keys |->
       CASE l \notin Range(recent') -> 0 [] l = k -> Interval [] OTHER -> cached[l]]
  /\ watch' = [w \in Watchers |-> IF KeyOf(w) = k THEN AfterSuccess(w) ELSE watch[w]]

Denied(k) ==
  /\ recent' = Others(k)
  /\ cached' = [cached EXCEPT ![k] = 0]
  /\ watch' = [w \in Watchers |-> IF KeyOf(w) = k THEN AfterFailure(w) ELSE watch[w]]

Completes(k) ==
  /\ lookup[k].phase = "answering"
  /\ lookup' = [lookup EXCEPT ![k] = NoLookup]
  /\ IF lookup[k].verdict THEN Succeeds(k) ELSE Denied(k)
  /\ UNCHANGED <<situation, policyVars, wakeVars>>

\* Plausible bug: a lookup may take as long as the authorization lasts.
WholeInterval == Interval

\* lookupTimeoutNanos
LookupLimit == Half

LookupTimesOut(k) ==
  /\ lookup[k].phase /= "none" /\ lookup[k].elapsed = LookupLimit
  /\ lookup' = [lookup EXCEPT ![k] = NoLookup]
  /\ Denied(k)
  /\ UNCHANGED <<situation, policyVars, wakeVars>>

----------------------------------------------------------------------------
(***************************************************************************)
(* Opening a watch (watchAuthorized, watch).                               *)
(***************************************************************************)
\* The key is authorized before the space is prepared, and once more by the stream.
Authorizes(w) ==
  /\ w \in situation.watchers /\ watch[w].phase = "idle"
  /\ Request(w, "authorizing", "preparing") \/ Refused(w)
  /\ UNCHANGED <<situation, policyVars, wakeVars>>

Reauthorizes(w) ==
  /\ watch[w].phase = "preparing"
  /\ Request(w, "reauthorizing", "joining") \/ Refused(w)
  /\ UNCHANGED <<situation, policyVars, wakeVars>>

\* admitWatcher: the slots of the space, taken until the scope of the watch closes.
Slots == {w \in Watchers : watch[w].phase \in {"subscribed", "open", "refreshing", "closing"}}

\* The slot and the subscription; from here on commits are published to the watch.
Joins(w) ==
  /\ watch[w].phase = "joining"
  /\ watch' = [watch EXCEPT ![w].phase =
       IF Cardinality(Slots) < MaxWatchers THEN "subscribed" ELSE "closed"]
  /\ UNCHANGED <<situation, policyVars, lookupVars, wakeVars>>

\* After registerWatch the stream starts, with a wake of its own.
Starts(w) ==
  /\ watch[w].phase = "subscribed"
  /\ watch' = [watch EXCEPT ![w].phase = "open"]
  /\ stream' = [stream EXCEPT ![w].signal = "wake"]
  /\ UNCHANGED <<situation, policyVars, lookupVars, buffer, commits, publishing,
                 evaluation, canceling, owed, missed>>

----------------------------------------------------------------------------
(***************************************************************************)
(* The monitor, and the end of a watch.                                    *)
(***************************************************************************)
Expires(w) == watch' = [watch EXCEPT ![w].phase = "closing"] /\ UNCHANGED lookupVars

\* Half of the interval before the success expires, or at once if less is left.
Refreshes(w) ==
  /\ watch[w].phase = "open" /\ watch[w].left <= Half
  /\ IF watch[w].left = 0
     THEN Expires(w)
     ELSE Request(w, "refreshing", "open") \/ Refused(w)
  /\ UNCHANGED <<situation, policyVars, wakeVars>>

\* The timeout of the refresh.
RefreshTimesOut(w) ==
  /\ watch[w].phase = "refreshing" /\ watch[w].left = 0
  /\ Expires(w)
  /\ UNCHANGED <<situation, policyVars, wakeVars>>

\* The watches that wait for an evaluation.
Awaiting(m, k) ==
  {w \in Watchers : /\ KeyOf(w) = k
                    /\ stream[w].signal = "evaluating" /\ stream[w].commit = m}

\* detach: the last to wait for an evaluation takes it out and interrupts it.
Detaches(w) ==
  LET m == stream[w].commit
      k == KeyOf(w)
      last == /\ stream[w].signal = "evaluating"
              /\ Awaiting(m, k) = {w} /\ evaluation[m][k] = "pending"
  IN /\ evaluation' = IF last THEN [evaluation EXCEPT ![m][k] = "none"] ELSE evaluation
     /\ canceling' = IF last THEN canceling + 1 ELSE canceling

Gone(ws) ==
  /\ stream' = [w \in Watchers |-> IF w \in ws THEN NoStream ELSE stream[w]]
  /\ buffer' = [w \in Watchers |-> IF w \in ws THEN <<>> ELSE buffer[w]]
  /\ owed' = [w \in Watchers |-> IF w \in ws THEN {} ELSE owed[w]]
  /\ missed' = [w \in Watchers |-> IF w \in ws THEN {} ELSE missed[w]]

\* The scope of the watch closes: after the monitor has failed the stream, even if
\* nobody reads it, or because the client has left.
Ends(w) ==
  /\ watch' = [watch EXCEPT ![w] = [NoWatch EXCEPT !.phase = "closed"]]
  /\ Detaches(w) /\ Gone({w})
  /\ UNCHANGED <<situation, policyVars, lookupVars, commits, publishing>>

Closes(w) == watch[w].phase = "closing" /\ Ends(w)
HangsUp(w) == watch[w].phase \notin {"idle", "closed"} /\ Ends(w)

----------------------------------------------------------------------------
(***************************************************************************)
(* Commits, and their publication (admit).                                 *)
(***************************************************************************)
\* Plausible bug: the subscription starts when the stream of mutations is pulled,
\* after the first wake, and not before it.
LazilySubscribed(w) == w \in Slots /\ stream[w].started

Subscribed(w) == w \in Slots

\* The watches a commit is owed to: every one that has sent its first wake, and
\* those that will.
Commit(ks) ==
  /\ Len(commits) < situation.commits
  /\ LET m == Len(commits) + 1 IN
       /\ commits' = Append(commits, ks)
       /\ publishing' = publishing \cup {m}
       /\ owed' = [w \in Watchers |->
            IF w \in Slots /\ KeyOf(w) \in ks THEN owed[w] \cup {m} ELSE owed[w]]
  /\ UNCHANGED <<situation, policyVars, lookupVars, watch, stream, buffer, evaluation,
                 canceling, missed>>

\* PubSub.sliding: the oldest makes room.
Offered(w, m) ==
  IF Len(buffer[w]) < WakeCapacity THEN Append(buffer[w], m) ELSE Append(Tail(buffer[w]), m)

SlidOut(w) == IF Len(buffer[w]) < WakeCapacity THEN {} ELSE {Head(buffer[w])}

Publishes(m) ==
  /\ m \in publishing
  /\ publishing' = publishing \ {m}
  /\ buffer' = [w \in Watchers |-> IF Subscribed(w) THEN Offered(w, m) ELSE buffer[w]]
  /\ missed' = [w \in Watchers |->
       IF Subscribed(w) THEN missed[w] \cup (SlidOut(w) \cap owed[w]) ELSE missed[w]]
  /\ UNCHANGED <<situation, policyVars, lookupVars, watch, stream, commits, evaluation,
                 canceling, owed>>

\* The caller of admit is interrupted after its commit, before the publication.
IsNotPublished(m) ==
  /\ m \in publishing
  /\ publishing' = publishing \ {m}
  /\ missed' = [w \in Watchers |-> missed[w] \cup ({m} \cap owed[w])]
  /\ UNCHANGED <<situation, policyVars, lookupVars, watch, stream, buffer, commits,
                 evaluation, canceling, owed>>

----------------------------------------------------------------------------
(***************************************************************************)
(* The stream of a watch (watch, wakeVisibility.ts).                       *)
(***************************************************************************)
Live(w) == watch[w].phase \in {"open", "refreshing"}

Signals(w, signal, m) ==
  stream' = [stream EXCEPT ![w].signal = signal, ![w].commit = m]

\* A wake is sent; the client will pull everything that is committed.
SendsWake(w) ==
  /\ Live(w) /\ stream[w].signal = "wake"
  /\ Signals(w, "sent", NoCommit)
  /\ owed' = [owed EXCEPT ![w] = {}]
  /\ missed' = [missed EXCEPT ![w] = {}]
  /\ UNCHANGED <<situation, policyVars, lookupVars, watch, buffer, commits, publishing,
                 evaluation, canceling>>

\* The client reads on; the first time this starts the mutations and the timer.
Pulls(w) ==
  /\ Live(w) /\ stream[w].signal = "sent"
  /\ stream' = [stream EXCEPT ![w].signal = "none", ![w].started = TRUE]
  /\ UNCHANGED <<situation, policyVars, lookupVars, watch, buffer, commits, publishing,
                 evaluation, canceling, owed, missed>>

\* Plausible bug: what the timer says goes through the filter of the mutations.
FilteredTick == "none"

TickSignal == "wake"

\* refreshes: the timer of the watch, once every interval.
TimerFires(w) ==
  /\ Live(w) /\ stream[w].started /\ ~stream[w].tick
  /\ stream' = [stream EXCEPT ![w].tick = TRUE]
  /\ UNCHANGED <<situation, policyVars, lookupVars, watch, buffer, commits, publishing,
                 evaluation, canceling, owed, missed>>

Idle(w) == Live(w) /\ stream[w].signal = "none" /\ stream[w].started

TakesTick(w) ==
  /\ Idle(w) /\ stream[w].tick
  /\ stream' = [stream EXCEPT ![w].signal = TickSignal, ![w].tick = FALSE]
  /\ UNCHANGED <<situation, policyVars, lookupVars, watch, buffer, commits, publishing,
                 evaluation, canceling, owed, missed>>

Evaluating ==
  Cardinality({p \in Commits \X Keys : evaluation[p[1]][p[2]] = "pending"}) + canceling

\* evaluate: behind the evaluation of an equal watch, or with one of its own if the
\* limiter has room for it; otherwise the stream fails.
TakesCommit(w) ==
  /\ Idle(w) /\ buffer[w] /= <<>>
  /\ LET m == Head(buffer[w])
         k == KeyOf(w)
     IN \/ /\ evaluation[m][k] = "visible"
           /\ Signals(w, "wake", NoCommit)
           /\ UNCHANGED <<watch, evaluation>>
        \/ /\ evaluation[m][k] = "hidden"
           /\ UNCHANGED <<watch, stream, evaluation>>
        \/ /\ evaluation[m][k] = "failed"
           /\ watch' = [watch EXCEPT ![w].phase = "closing"]
           /\ UNCHANGED <<stream, evaluation>>
        \/ /\ evaluation[m][k] = "pending"
           /\ Signals(w, "evaluating", m)
           /\ UNCHANGED <<watch, evaluation>>
        \/ /\ evaluation[m][k] = "none" /\ Evaluating < MaxPending
           /\ Signals(w, "evaluating", m)
           /\ evaluation' = [evaluation EXCEPT ![m][k] = "pending"]
           /\ UNCHANGED watch
        \/ /\ evaluation[m][k] = "none" /\ Evaluating >= MaxPending
           /\ watch' = [watch EXCEPT ![w].phase = "closing"]
           /\ UNCHANGED <<stream, evaluation>>
  /\ buffer' = [buffer EXCEPT ![w] = Tail(@)]
  /\ UNCHANGED <<situation, policyVars, lookupVars, commits, publishing, canceling, owed,
                 missed>>

\* mutationWakeVisible: what the client may see, or a failure or timeout.
Result(m, k) == IF k \in commits[m] THEN "visible" ELSE "hidden"

\* complete: every watch that waits has the result.
Evaluated(m, k) ==
  /\ evaluation[m][k] = "pending"
  /\ \E result \in {Result(m, k), "failed"} :
       /\ evaluation' = [evaluation EXCEPT ![m][k] = result]
       /\ stream' = [w \in Watchers |->
            IF w \in Awaiting(m, k)
            THEN [stream[w] EXCEPT !.commit = NoCommit,
                    !.signal = IF result = "visible" THEN "wake" ELSE "none"]
            ELSE stream[w]]
       /\ watch' = [w \in Watchers |->
            IF w \in Awaiting(m, k) /\ result = "failed"
            THEN [watch[w] EXCEPT !.phase = "closing"] ELSE watch[w]]
  /\ UNCHANGED <<situation, policyVars, lookupVars, buffer, commits, publishing, canceling,
                 owed, missed>>

Canceled ==
  /\ canceling > 0
  /\ canceling' = canceling - 1
  /\ UNCHANGED <<situation, policyVars, lookupVars, watch, stream, buffer, commits,
                 publishing, evaluation, owed, missed>>

----------------------------------------------------------------------------
(***************************************************************************)
(* The policy and the clock.                                               *)
(***************************************************************************)
Forbids(k) ==
  /\ k \in allowed /\ turned < situation.turns
  /\ allowed' = allowed \ {k} /\ turned' = turned + 1
  /\ UNCHANGED <<situation, since, lookupVars, watch, wakeVars>>

Allows(k) ==
  /\ k \notin allowed /\ turned < situation.turns
  /\ allowed' = allowed \cup {k} /\ turned' = turned + 1
  /\ since' = [since EXCEPT ![k] = 0]
  /\ UNCHANGED <<situation, lookupVars, watch, wakeVars>>

\* What a timer has to do before time goes on.
Due ==
  \/ \E w \in Watchers : watch[w].phase = "open" /\ watch[w].left <= Half
  \/ \E w \in Watchers : watch[w].phase = "refreshing" /\ watch[w].left = 0
  \/ \E k \in Keys : lookup[k].phase /= "none" /\ lookup[k].elapsed = LookupLimit

Less(n) == IF n = 0 THEN 0 ELSE n - 1

\* A success that has expired is not handed out: pruneCompleted.
Tick ==
  /\ situation.clock /\ ~Due
  /\ since' = [k \in Keys |->
       IF k \in allowed THEN 0 ELSE Min({since[k] + 1, 2 * Interval})]
  /\ lookup' = [k \in Keys |->
       IF lookup[k].phase = "none" THEN lookup[k] ELSE [lookup[k] EXCEPT !.elapsed = @ + 1]]
  /\ cached' = [k \in Keys |-> Less(cached[k])]
  /\ recent' = SelectSeq(recent, LAMBDA k : cached[k] > 1)
  /\ watch' = [w \in Watchers |-> [watch[w] EXCEPT !.left = Less(@)]]
  /\ UNCHANGED <<situation, allowed, turned, wakeVars>>

----------------------------------------------------------------------------
WatchNext ==
  \/ \E k \in Keys :
       \/ Asks(k) \/ Reads(k) \/ Completes(k) \/ LookupTimesOut(k)
       \/ Forbids(k) \/ Allows(k)
  \/ \E w \in Watchers :
       \/ Authorizes(w) \/ Reauthorizes(w) \/ Joins(w) \/ Starts(w)
       \/ Refreshes(w) \/ RefreshTimesOut(w) \/ Closes(w) \/ HangsUp(w)
       \/ SendsWake(w) \/ Pulls(w) \/ TimerFires(w) \/ TakesTick(w) \/ TakesCommit(w)
  \/ \E ks \in SUBSET Keys : Commit(ks)
  \/ \E m \in Commits :
       \/ Publishes(m) \/ IsNotPublished(m)
       \/ \E k \in Keys : Evaluated(m, k)
  \/ Canceled \/ Tick

WatchSpec == WatchInit /\ [][WatchNext]_watchVars

\* The stream of a watch: it starts, and closes when it has failed, its timer fires,
\* and the client reads it.
StreamRuns(w) ==
  \/ Starts(w) \/ Closes(w) \/ SendsWake(w) \/ Pulls(w)
  \/ TimerFires(w) \/ TakesTick(w) \/ TakesCommit(w)

\* The fibers of the server run, with the timers of the watches, and a client that
\* has a watch reads it.  Nobody has to watch or commit.
WatchFairness ==
  /\ \A w \in Watchers : WF_watchVars(StreamRuns(w))
  /\ WF_watchVars(\E m \in Commits, k \in Keys : Evaluated(m, k))

----------------------------------------------------------------------------
(***************************************************************************)
(* A watch does not outlive the permission to read by more than three      *)
(* halves of the interval, whatever the policy does and although equal     *)
(* watches share its answers: an answer may be as old as a lookup may take *)
(* when it is given, and is good for an interval from then.  (At the last  *)
(* instant the watch may be about to close.)                               *)
(***************************************************************************)
RevokedIsClosed ==
  \A w \in Watchers :
    Live(w) /\ since[KeyOf(w)] >= 3 * Half => watch[w].left = 0

(***************************************************************************)
(* What a client may see and has not been woken for is on its way to the   *)
(* watch, or it slid out of the buffer or was never published: nothing is  *)
(* committed between the wake a watch starts with and its subscription.    *)
(***************************************************************************)
CommitsReachTheWatch ==
  \A w \in Watchers : Live(w) =>
    \A m \in owed[w] \ missed[w] :
      \/ m \in publishing \/ m \in Range(buffer[w])
      \/ stream[w].signal = "wake"
      \/ stream[w].signal = "evaluating" /\ stream[w].commit = m

(***************************************************************************)
(* A watch that stays open sends a wake after every commit its client may  *)
(* see, those included that slid out of the buffer behind commits it may   *)
(* not see and those whose publication was interrupted: the timer makes up *)
(* for them.                                                               *)
(***************************************************************************)
EveryCommitIsHeard ==
  \A w \in Watchers : owed[w] /= {} ~> owed[w] = {}
==============================================================================
