--------------------------- MODULE LiveSyncProofs ---------------------------
(***************************************************************************)
(* Proofs about RpcSession, LiveWatch and EphemeralChannel: for every      *)
(* number of callers, connections, releases and troubles, for every number *)
(* of watches, keys, commits and changes of the policy, and every interval,*)
(* and for every number of clients, profiles, states and publications and  *)
(* every capacity of a queue.                                              *)
(***************************************************************************)
EXTENDS RpcSession, LiveWatch, EphemeralChannel, TLAPS

(***************************************************************************)
(* RpcSession: the values of its variables.  Only a negotiation carries no *)
(* version, and only its answer carries one.                               *)
(***************************************************************************)
Versions == Nat \cup {Nobody}
Agreements == [version : Versions, on : Nat]

Phases == {"idle", "version", "again", "negotiating", "sent", "watching", "paused", "done"}

Results == {"ok", "unavailable", "capacity", "upgrade", "timeout", "rejected"}

Calls ==
  [op : Operations, phase : Phases, version : Agreements, retry : BOOLEAN,
   generation : Nat, outcome : Results \cup {Nobody}, rejected : Agreements, last : Nat]

Requests == {NoMessage} \cup
  [kind : Operations \cup {"Negotiate"}, version : Versions, generation : Nat]

Answers ==
  {"ok", "unavailable", "capacity", "upgrade", "version", "rejected", "credential", "open"}

Responses == {NoMessage} \cup [kind : Answers, version : Versions, generation : Nat]

SessionTypeInv ==
  /\ socket \in [state : {"down", "up", "silent", "off"}, number : Nat, release : SUBSET Nat]
  /\ routes \subseteq Callers
  /\ request \in [Callers -> Requests] /\ reply \in [Callers -> Responses]
  /\ call \in [Callers -> Calls]
  /\ selected \in Agreements
  /\ credential \in Nat

(***************************************************************************)
(* What is under way for a call has a route, and is a request or an answer *)
(* but not both; a request carries the version its call was sent with.     *)
(***************************************************************************)
Routed(c) ==
  /\ c \notin routes => request[c] = NoMessage /\ reply[c] = NoMessage
  /\ request[c] = NoMessage \/ reply[c] = NoMessage
  /\ request[c].kind \in Operations =>
       call[c].phase = "sent" /\ request[c].version = call[c].version.version

(***************************************************************************)
(* A version that was agreed on over the connection there is now is in the *)
(* release that it reaches, and one that was rejected over it is not.      *)
(***************************************************************************)
Connected == socket.state # "down"

Shared(v) ==
  /\ v.on <= socket.number
  /\ Connected /\ v.on = socket.number => v.version \in socket.release

Remembered == selected = NoVersion \/ Shared(selected)

AnswersAgree(c) ==
  /\ call[c].phase = "sent" => Shared(call[c].version)
  /\ reply[c].kind = "version" => Connected /\ reply[c].version \in socket.release
  /\ reply[c].kind = "rejected" =>
       /\ Connected /\ call[c].phase = "sent"
       /\ call[c].version.version \notin socket.release

(***************************************************************************)
(* The second attempt of a call: the version it goes out with is another   *)
(* one, or the connection is.                                              *)
(***************************************************************************)
SecondAttempt(c) ==
  /\ call[c].phase \in {"idle", "version", "paused"} => ~ call[c].retry
  /\ call[c].phase = "again" =>
       call[c].retry /\ call[c].rejected.version = call[c].version.version
  /\ call[c].phase \in {"again", "negotiating"} /\ call[c].retry =>
       /\ call[c].rejected.on <= socket.number
       /\ Connected /\ call[c].rejected.on = socket.number =>
            call[c].rejected.version \notin socket.release
  /\ call[c].phase = "sent" /\ call[c].retry =>
       /\ call[c].rejected.on <= socket.number
       /\ \/ call[c].version.version # call[c].rejected.version
          \/ call[c].rejected.on # socket.number

Explained(c) ==
  call[c].outcome = "rejected" =>
    /\ call[c].phase = "done" /\ c \notin routes
    /\ call[c].version.on # call[c].last
    /\ \/ call[c].version.version # call[c].rejected.version
       \/ call[c].rejected.on # call[c].last

CallInv(c) == Routed(c) /\ AnswersAgree(c) /\ SecondAttempt(c) /\ Explained(c)

SessionInv == SessionTypeInv /\ Remembered /\ \A c \in Callers : CallInv(c)

-----------------------------------------------------------------------------
(***************************************************************************)
(* LiveWatch: the values of its variables.                                 *)
(***************************************************************************)
Lookups ==
  [phase : {"none", "queued", "asking", "answering"}, elapsed : Nat, verdict : BOOLEAN]

Watches ==
  [phase : {"idle", "authorizing", "preparing", "reauthorizing", "joining", "subscribed",
            "open", "refreshing", "closing", "closed"},
   left : Nat, superseded : BOOLEAN]

Streams ==
  [signal : {"none", "wake", "sent", "evaluating"}, commit : Nat \cup {NoCommit},
   tick : BOOLEAN, started : BOOLEAN]

LookupType ==
  /\ situation \in Situations
  /\ since \in [Keys -> Nat]
  /\ lookup \in [Keys -> Lookups] /\ cached \in [Keys -> Nat]
  /\ watch \in [Watchers -> Watches]

Made == 1 .. Len(commits)

WakeType ==
  /\ stream \in [Watchers -> Streams]
  /\ commits \in Seq(SUBSET Keys) /\ Len(commits) <= situation.commits
  /\ buffer \in [Watchers -> Seq(Made)]
  /\ publishing \subseteq Made
  /\ evaluation \in [Commits -> [Keys -> {"none", "pending", "visible", "hidden", "failed"}]]
  /\ canceling \in Nat
  /\ owed \in [Watchers -> SUBSET Made] /\ missed \in [Watchers -> SUBSET Nat]

(***************************************************************************)
(* The clock: since a key is not allowed any more, no longer than a lookup *)
(* may take can have passed when an answer says that it is, and what is    *)
(* left of a success and that time are at most three halves.               *)
(***************************************************************************)
Granted(l) == l.phase = "answering" /\ l.verdict

Clock ==
  \A k \in Keys :
    /\ k \in allowed => since[k] = 0
    /\ lookup[k].phase # "none" => lookup[k].elapsed <= Half
    /\ Granted(lookup[k]) => since[k] <= lookup[k].elapsed
    /\ cached[k] <= Interval
    /\ cached[k] > 0 => since[k] + cached[k] <= 3 * Half

Leases ==
  \A w \in Watchers :
    /\ watch[w].left <= Interval
    /\ watch[w].left > 0 => since[KeyOf(w)] + watch[w].left <= 3 * Half

(***************************************************************************)
(* What is evaluated was made, what is owed may be seen, and what was      *)
(* found hidden may not.                                                   *)
(***************************************************************************)
Visibility ==
  /\ \A w \in Watchers : \A m \in owed[w] : KeyOf(w) \in commits[m]
  /\ \A m \in Commits, k \in Keys :
       /\ evaluation[m][k] # "none" => m \in Made
       /\ evaluation[m][k] = "hidden" => k \notin commits[m]
  /\ \A w \in Watchers : stream[w].signal = "evaluating" => stream[w].commit \in Made

LookupInv == LookupType /\ Clock /\ Leases

WakeInv == WakeType /\ Visibility /\ CommitsReachTheWatch

WatchInv == LookupInv /\ WakeInv

-----------------------------------------------------------------------------
(***************************************************************************)
(* The leases of a watch.                                                  *)
(***************************************************************************)
(* The instance's constants: the interval, and the keys of a situation.    *)
LEMMA Constants ==
  /\ Half \in Nat \ {0} /\ Interval \in Nat /\ Interval = 2 * Half /\ LookupLimit = Half
  /\ WakeCapacity \in Nat \ {0}
  /\ \A s \in Situations :
       s.key \in [Watchers -> Keys] /\ s.commits \in Nat /\ NoCommit \notin 1 .. s.commits
  BY WatchAssumption DEF WatchAssumption, Interval, LookupLimit

(* Every watch has a key, which is that of its situation for good.         *)
LEMMA KeyIsKey ==
  ASSUME LookupType, NEW w \in Watchers
  PROVE  KeyOf(w) \in Keys
  BY Constants DEF LookupType, KeyOf

(* A step that only moves watches between phases, or takes their lease.    *)
LEMMA PhaseStep ==
  ASSUME LookupInv, UNCHANGED <<situation, allowed, since, lookup, cached>>,
         watch' \in [Watchers -> Watches],
         \A w \in Watchers : watch'[w].left \in {0, watch[w].left, cached[KeyOf(w)]}
  PROVE  LookupInv'
<1>1. LookupType'
  BY DEF LookupInv, LookupType
<1>2. Clock'
  BY DEF LookupInv, Clock, Granted
<1>3. ASSUME NEW w \in Watchers
      PROVE  /\ watch'[w].left <= Interval
             /\ watch'[w].left > 0 => since[KeyOf(w)] + watch'[w].left <= 3 * Half
  <2>1. KeyOf(w) \in Keys
    BY KeyIsKey DEF LookupInv
  <2>2. watch'[w].left \in {0, watch[w].left, cached[KeyOf(w)]}
    OBVIOUS
  <2> QED BY <2>1, <2>2, Constants DEF LookupInv, LookupType, Clock, Leases, Watches
<1>4. Leases'
  BY <1>3 DEF Leases, KeyOf
<1> QED BY <1>1, <1>2, <1>4 DEF LookupInv

(* A watch with other phase and lease is a watch.                          *)
LEMMA WithIsWatch ==
  ASSUME LookupType, NEW w \in Watchers, NEW left \in Nat,
         NEW phase \in {"preparing", "joining", "open"}
  PROVE  With(w, phase, left) \in Watches /\ With(w, phase, left).left = left
  BY DEF LookupType, Watches, With

LEMMA RequestStep ==
  ASSUME LookupInv, NEW w \in Watchers, UNCHANGED <<situation, allowed, since>>,
         NEW waiting \in Waiting, NEW next \in {"preparing", "joining", "open"},
         Request(w, waiting, next)
  PROVE  LookupInv'
<1> DEFINE k == KeyOf(w)
<1>1. k \in Keys /\ cached[k] \in Nat
  BY KeyIsKey DEF LookupInv, LookupType
<1>2. watch \in [Watchers -> Watches] /\ UNCHANGED cached
  BY DEF LookupInv, LookupType, Request
<1>3. CASE Usable(w)
  <2>1. watch' = [watch EXCEPT ![w] = With(w, next, cached[k])] /\ UNCHANGED lookup
    BY <1>3 DEF Request
  <2>2. With(w, next, cached[k]) \in Watches /\ With(w, next, cached[k]).left = cached[k]
    BY <1>1, WithIsWatch DEF LookupInv
  <2>3. watch' \in [Watchers -> Watches]
    BY <1>2, <2>1, <2>2
  <2>4. \A v \in Watchers : watch'[v].left \in {0, watch[v].left, cached[KeyOf(v)]}
    BY <1>2, <2>1, <2>2
  <2> QED BY <1>2, <2>1, <2>3, <2>4, PhaseStep
<1>4. CASE ~ Usable(w)
  <2>1. /\ watch' = [watch EXCEPT ![w].phase = waiting]
        /\ lookup' = IF k \in PendingKeys THEN lookup
                     ELSE [lookup EXCEPT ![k] = [NoLookup EXCEPT !.phase = "queued"]]
    BY <1>4 DEF Request
  <2>2. \A l \in Keys : lookup'[l] = lookup[l] \/
          lookup'[l] = [phase |-> "queued", elapsed |-> 0, verdict |-> FALSE]
    BY <1>1, <2>1 DEF NoLookup, LookupInv, LookupType
  <2>3. lookup' \in [Keys -> Lookups]
    BY <1>1, <2>1 DEF NoLookup, LookupInv, LookupType, Lookups
  <2>4. watch' \in [Watchers -> Watches] /\ \A v \in Watchers : watch'[v].left = watch[v].left
    BY <1>2, <2>1 DEF Watches, Waiting
  <2>5. LookupType'
    BY <1>2, <2>3, <2>4 DEF LookupInv, LookupType
  <2>6. Clock'
    BY <1>2, <2>2, Constants DEF LookupInv, Clock, Granted
  <2>7. Leases'
    BY <2>4 DEF LookupInv, Leases, KeyOf
  <2> QED BY <2>5, <2>6, <2>7 DEF LookupInv
<1> QED BY <1>3, <1>4

LEMMA RefusedStep ==
  ASSUME LookupInv, NEW w \in Watchers, UNCHANGED <<situation, allowed, since>>, Refused(w)
  PROVE  LookupInv'
<1>1. watch' \in [Watchers -> Watches] /\ \A v \in Watchers : watch'[v].left = watch[v].left
  BY DEF Refused, LookupInv, LookupType, Watches
<1> QED BY <1>1, PhaseStep DEF Refused, lookupVars

(* A lookup ends: those who wait go on with a success of the whole         *)
(* interval, if one is shared.                                             *)
LEMMA LookupEnds ==
  ASSUME LookupInv, NEW k \in Keys, UNCHANGED <<situation, allowed, since>>,
         lookup' = [lookup EXCEPT ![k] = NoLookup],
         cached' \in [Keys -> Nat], watch' \in [Watchers -> Watches],
         \A l \in Keys : \/ cached'[l] \in {0, cached[l]}
                         \/ l = k /\ cached'[l] = Interval /\ Granted(lookup[k]),
         \A w \in Watchers :
           \/ watch'[w].left \in {0, watch[w].left}
           \/ KeyOf(w) = k /\ watch'[w].left = Interval /\ Granted(lookup[k])
  PROVE  LookupInv'
<1>1. LookupType'
  BY DEF LookupInv, LookupType, Lookups, NoLookup
<1>2. Granted(lookup[k]) => since[k] + Interval <= 3 * Half
  <2>1. lookup[k].elapsed \in Nat /\ since[k] \in Nat
    BY DEF LookupInv, LookupType, Lookups
  <2>2. Granted(lookup[k]) => since[k] <= lookup[k].elapsed /\ lookup[k].elapsed <= Half
    BY DEF LookupInv, Clock, Granted
  <2> QED BY <2>1, <2>2, Constants
<1>3. Clock'
  <2> SUFFICES ASSUME NEW l \in Keys
               PROVE  /\ l \in allowed => since[l] = 0
                      /\ lookup'[l].phase # "none" => lookup'[l].elapsed <= Half
                      /\ Granted(lookup'[l]) => since[l] <= lookup'[l].elapsed
                      /\ cached'[l] <= Interval
                      /\ cached'[l] > 0 => since[l] + cached'[l] <= 3 * Half
    BY DEF Clock
  <2>1. lookup'[l] = IF l = k THEN NoLookup ELSE lookup[l]
    BY DEF LookupInv, LookupType
  <2>2. /\ l \in allowed => since[l] = 0
        /\ lookup'[l].phase # "none" => lookup'[l].elapsed <= Half
        /\ Granted(lookup'[l]) => since[l] <= lookup'[l].elapsed
    BY <2>1 DEF LookupInv, Clock, NoLookup, Granted
  <2>3. cached[l] \in Nat /\ since[l] \in Nat
    BY DEF LookupInv, LookupType
  <2>4. cached[l] <= Interval /\ (cached[l] > 0 => since[l] + cached[l] <= 3 * Half)
    BY DEF LookupInv, Clock
  <2>5. /\ cached'[l] <= Interval
        /\ cached'[l] > 0 => since[l] + cached'[l] <= 3 * Half
    BY <1>2, <2>3, <2>4, Constants
  <2> QED BY <2>2, <2>5
<1>4. Leases'
  <2> SUFFICES ASSUME NEW w \in Watchers
               PROVE  /\ watch'[w].left <= Interval
                      /\ watch'[w].left > 0 => since[KeyOf(w)] + watch'[w].left <= 3 * Half
    BY DEF Leases, KeyOf
  <2>1. watch[w].left \in Nat /\ KeyOf(w) \in Keys /\ since[KeyOf(w)] \in Nat
    BY KeyIsKey DEF LookupInv, LookupType, Watches
  <2>2. /\ watch[w].left <= Interval
        /\ watch[w].left > 0 => since[KeyOf(w)] + watch[w].left <= 3 * Half
    BY DEF LookupInv, Leases
  <2> QED BY <1>2, <2>1, <2>2, Constants
<1> QED BY <1>1, <1>3, <1>4 DEF LookupInv

(* complete and the timeout: a failure is no success of anybody.           *)
LEMMA DeniedStep ==
  ASSUME LookupInv, NEW k \in Keys, UNCHANGED <<situation, allowed, since>>,
         lookup' = [lookup EXCEPT ![k] = NoLookup], Denied(k)
  PROVE  LookupInv'
<1>1. cached' \in [Keys -> Nat] /\ \A l \in Keys : cached'[l] \in {0, cached[l]}
  BY DEF Denied, LookupInv, LookupType
<1>2. \A w \in Watchers : AfterFailure(w) \in Watches /\ AfterFailure(w).left = watch[w].left
  BY DEF AfterFailure, LookupInv, LookupType, Watches
<1>3. watch' \in [Watchers -> Watches] /\ \A w \in Watchers : watch'[w].left = watch[w].left
  BY <1>2 DEF Denied, LookupInv, LookupType
<1> QED BY <1>1, <1>3, LookupEnds

LEMMA SucceedsStep ==
  ASSUME LookupInv, NEW k \in Keys, UNCHANGED <<situation, allowed, since>>,
         lookup' = [lookup EXCEPT ![k] = NoLookup], Granted(lookup[k]), Succeeds(k)
  PROVE  LookupInv'
<1>1. /\ cached' \in [Keys -> Nat]
      /\ \A l \in Keys : cached'[l] \in {0, cached[l]} \/ (l = k /\ cached'[l] = Interval)
  BY Constants DEF Succeeds, LookupInv, LookupType
<1>2. ASSUME NEW w \in Watchers
      PROVE  AfterSuccess(w) \in Watches /\ AfterSuccess(w).left \in {watch[w].left, Interval}
  <2>1. watch[w] \in Watches /\ (watch[w].left > 0) \in BOOLEAN
    BY DEF LookupInv, LookupType
  <2>2. \A phase \in {"preparing", "joining", "open"} :
          With(w, phase, Interval) \in Watches /\ With(w, phase, Interval).left = Interval
    BY WithIsWatch, Constants DEF LookupInv
  <2>3. /\ [watch[w] EXCEPT !.superseded = watch[w].left > 0] \in Watches
        /\ [watch[w] EXCEPT !.superseded = watch[w].left > 0].left = watch[w].left
    BY <2>1 DEF Watches
  <2> QED BY <2>2, <2>3 DEF AfterSuccess
<1>3. /\ watch' \in [Watchers -> Watches]
      /\ \A w \in Watchers : watch'[w].left \in {0, watch[w].left}
                             \/ (KeyOf(w) = k /\ watch'[w].left = Interval)
  BY <1>2 DEF Succeeds, LookupInv, LookupType
<1> QED BY <1>1, <1>3, LookupEnds

(* The clock: what is left of a success shrinks as the time since the key  *)
(* was allowed grows, and no lookup goes on past its limit.                *)
LEMMA Lesser ==
  ASSUME NEW a \in Nat, NEW b \in Nat
  PROVE  Min({a, b}) \in {a, b} /\ Min({a, b}) <= a /\ Min({a, b}) <= b
<1>1. \E x \in {a, b} : \A y \in {a, b} : x <= y
  OBVIOUS
<1> QED BY <1>1 DEF Min

LEMMA TickStep ==
  ASSUME LookupInv, Tick
  PROVE  LookupInv'
<1>1. UNCHANGED <<situation, allowed>> /\ ~ Due
  BY DEF Tick
<1>2. ASSUME NEW k \in Keys
      PROVE  /\ since'[k] \in Nat /\ since'[k] <= since[k] + 1
             /\ k \in allowed => since'[k] = 0
  <2>1. since[k] \in Nat /\ since'[k] = IF k \in allowed THEN 0 ELSE Min({since[k] + 1, 2 * Interval})
    BY DEF Tick, LookupInv, LookupType
  <2> QED BY <2>1, Lesser, Constants
<1>3. /\ lookup' = [k \in Keys |-> IF lookup[k].phase = "none" THEN lookup[k]
                                   ELSE [lookup[k] EXCEPT !.elapsed = @ + 1]]
      /\ cached' = [k \in Keys |-> Less(cached[k])]
      /\ watch' = [w \in Watchers |-> [watch[w] EXCEPT !.left = Less(@)]]
      /\ DOMAIN since' = Keys /\ since' = [k \in Keys |-> since'[k]]
  BY DEF Tick
<1>4. /\ \A k \in Keys : lookup[k] \in Lookups /\ cached[k] \in Nat /\ since[k] \in Nat
      /\ \A w \in Watchers : watch[w] \in Watches
  BY DEF LookupInv, LookupType
<1>5. \A n \in Nat : Less(n) \in Nat /\ Less(n) <= n /\ (Less(n) > 0 => Less(n) + 1 = n)
  BY DEF Less
<1>6. LookupType'
  <2>1. since' \in [Keys -> Nat]
    BY <1>2, <1>3
  <2>2. lookup' \in [Keys -> Lookups]
    BY <1>3, <1>4 DEF Lookups
  <2>3. cached' \in [Keys -> Nat]
    BY <1>3, <1>4, <1>5
  <2>4. watch' \in [Watchers -> Watches]
    BY <1>3, <1>4, <1>5 DEF Watches
  <2> QED BY <1>1, <2>1, <2>2, <2>3, <2>4 DEF LookupInv, LookupType
<1>7. Clock'
  <2> SUFFICES ASSUME NEW k \in Keys
               PROVE  /\ k \in allowed => since'[k] = 0
                      /\ lookup'[k].phase # "none" => lookup'[k].elapsed <= Half
                      /\ Granted(lookup'[k]) => since'[k] <= lookup'[k].elapsed
                      /\ cached'[k] <= Interval
                      /\ cached'[k] > 0 => since'[k] + cached'[k] <= 3 * Half
    BY <1>1 DEF Clock
  <2>1. /\ lookup[k].elapsed \in Nat /\ cached[k] \in Nat /\ since[k] \in Nat
        /\ lookup[k].phase # "none" => lookup[k].elapsed <= Half
        /\ Granted(lookup[k]) => since[k] <= lookup[k].elapsed
        /\ cached[k] <= Interval
        /\ cached[k] > 0 => since[k] + cached[k] <= 3 * Half
    BY <1>4 DEF Lookups, LookupInv, Clock
  <2>2. lookup[k].phase # "none" => lookup[k].elapsed # Half
    BY <1>1, Constants DEF Due
  <2>3. /\ lookup'[k].phase = lookup[k].phase /\ lookup'[k].verdict = lookup[k].verdict
        /\ lookup[k].phase # "none" => lookup'[k].elapsed = lookup[k].elapsed + 1
    BY <1>3, <1>4 DEF Lookups
  <2>4. lookup'[k].phase # "none" => lookup'[k].elapsed <= Half
    BY <2>1, <2>2, <2>3, Constants
  <2>5. Granted(lookup'[k]) => since'[k] <= lookup'[k].elapsed
    BY <1>2, <2>1, <2>3 DEF Granted
  <2>6. cached'[k] <= Interval /\ (cached'[k] > 0 => since'[k] + cached'[k] <= 3 * Half)
    BY <1>2, <1>3, <1>5, <2>1, Constants
  <2> QED BY <1>2, <2>4, <2>5, <2>6
<1>8. Leases'
  <2> SUFFICES ASSUME NEW w \in Watchers
               PROVE  /\ watch'[w].left <= Interval
                      /\ watch'[w].left > 0 => since'[KeyOf(w)] + watch'[w].left <= 3 * Half
    BY <1>1 DEF Leases, KeyOf
  <2>1. /\ KeyOf(w) \in Keys /\ since[KeyOf(w)] \in Nat /\ watch[w].left \in Nat
        /\ watch[w].left <= Interval
        /\ watch[w].left > 0 => since[KeyOf(w)] + watch[w].left <= 3 * Half
    BY <1>4, KeyIsKey DEF LookupInv, Leases, Watches
  <2>2. watch'[w].left = Less(watch[w].left)
    BY <1>3, <1>4 DEF Watches
  <2> QED BY <1>2, <1>5, <2>1, <2>2, Constants
<1> QED BY <1>6, <1>7, <1>8 DEF LookupInv

-----------------------------------------------------------------------------
(* The steps of the requests, the policy and the clock keep the leases.    *)
LEMMA LookupStep ==
  ASSUME LookupInv, NEW k \in Keys,
         Asks(k) \/ Reads(k) \/ Completes(k) \/ LookupTimesOut(k) \/ Forbids(k) \/ Allows(k)
  PROVE  LookupInv'
<1>1. lookup[k] \in Lookups /\ since[k] \in Nat /\ cached[k] \in Nat
  BY DEF LookupInv, LookupType
<1>2. CASE Asks(k)
  <2>1. lookup' = [lookup EXCEPT ![k].phase = "asking"] /\ lookup[k].phase = "queued"
        /\ UNCHANGED <<situation, allowed, since, cached, watch>>
    BY <1>2 DEF Asks, policyVars
  <2>2. LookupType'
    BY <1>1, <2>1 DEF LookupInv, LookupType, Lookups
  <2>3. Clock'
    BY <1>1, <2>1 DEF LookupInv, LookupType, Clock, Granted, Lookups
  <2> QED BY <2>1, <2>2, <2>3 DEF LookupInv, Leases, KeyOf
<1>3. CASE Reads(k)
  <2> DEFINE answer == [lookup[k] EXCEPT !.phase = "answering", !.verdict = k \in allowed]
  <2>1. /\ lookup' = [lookup EXCEPT ![k] = answer] /\ lookup[k].phase = "asking"
        /\ UNCHANGED <<situation, allowed, since, cached, watch>>
    BY <1>3 DEF Reads, policyVars
  <2>2. LookupType'
    <3>1. answer.phase = "answering" /\ answer.elapsed = lookup[k].elapsed
      BY <1>1 DEF Lookups
    <3>2. answer \in Lookups
      <4>1. (k \in allowed) \in BOOLEAN
        OBVIOUS
      <4> QED BY <1>1, <4>1, Zenon DEF Lookups
    <3> HIDE DEF answer
    <3> QED BY <2>1, <3>2 DEF LookupInv, LookupType
  <2>3. Clock'
    <3>1. k \in allowed => since[k] <= lookup[k].elapsed
      BY <1>1 DEF LookupInv, Clock, Lookups
    <3> QED BY <1>1, <2>1, <3>1 DEF LookupInv, LookupType, Clock, Granted, Lookups
  <2> QED BY <2>1, <2>2, <2>3 DEF LookupInv, Leases, KeyOf
<1>4. CASE Completes(k)
  <2>1. /\ lookup' = [lookup EXCEPT ![k] = NoLookup]
        /\ lookup[k].phase = "answering"
        /\ IF lookup[k].verdict THEN Succeeds(k) ELSE Denied(k)
        /\ UNCHANGED <<situation, allowed, since>>
    BY <1>4 DEF Completes, policyVars
  <2>2. CASE lookup[k].verdict
    BY <2>1, <2>2, SucceedsStep DEF Granted
  <2>3. CASE ~ lookup[k].verdict
    BY <2>1, <2>3, DeniedStep
  <2> QED BY <2>2, <2>3
<1>5. CASE LookupTimesOut(k)
  BY <1>5, DeniedStep DEF LookupTimesOut, policyVars
<1>6. CASE Forbids(k)
  BY <1>6 DEF Forbids, lookupVars, LookupInv, LookupType, Clock, Leases, KeyOf, Granted
<1>7. CASE Allows(k)
  <2>1. since' = [since EXCEPT ![k] = 0] /\ allowed' = allowed \cup {k}
        /\ UNCHANGED <<situation, lookup, cached, watch>>
    BY <1>7 DEF Allows, lookupVars
  <2>2. LookupType'
    BY <2>1 DEF LookupInv, LookupType
  <2>3. since \in [Keys -> Nat]
    BY DEF LookupInv, LookupType
  <2>4. Clock'
    <3> SUFFICES ASSUME NEW l \in Keys
                 PROVE  /\ l \in allowed' => since'[l] = 0
                        /\ lookup[l].phase # "none" => lookup[l].elapsed <= Half
                        /\ Granted(lookup[l]) => since'[l] <= lookup[l].elapsed
                        /\ cached[l] <= Interval
                        /\ cached[l] > 0 => since'[l] + cached[l] <= 3 * Half
      BY <2>1 DEF Clock
    <3>1. lookup[l].elapsed \in Nat /\ cached[l] \in Nat /\ since'[l] \in {since[l], 0}
      BY <2>1, <2>3 DEF LookupInv, LookupType, Lookups
    <3> QED BY <2>1, <2>3, <3>1, Constants DEF LookupInv, Clock
  <2>5. Leases'
    <3> SUFFICES ASSUME NEW w \in Watchers
                 PROVE  /\ watch[w].left <= Interval
                        /\ watch[w].left > 0 => since'[KeyOf(w)] + watch[w].left <= 3 * Half
      BY <2>1 DEF Leases, KeyOf
    <3>1. watch[w].left \in Nat /\ since'[KeyOf(w)] \in {since[KeyOf(w)], 0}
      BY <2>1, <2>3, KeyIsKey DEF LookupInv, LookupType, Watches
    <3> QED BY <3>1, Constants DEF LookupInv, Leases
  <2> QED BY <2>2, <2>4, <2>5 DEF LookupInv
<1> QED BY <1>2, <1>3, <1>4, <1>5, <1>6, <1>7

(* Opening, refreshing and ending a watch.                                 *)
LEMMA OpeningStep ==
  ASSUME LookupInv, NEW w \in Watchers,
         \/ Authorizes(w) \/ Reauthorizes(w) \/ Joins(w) \/ Starts(w)
         \/ Refreshes(w) \/ RefreshTimesOut(w) \/ Closes(w) \/ HangsUp(w)
  PROVE  LookupInv'
<1>1. watch \in [Watchers -> Watches]
  BY DEF LookupInv, LookupType
<1>2. \A waiting \in Waiting, next \in {"preparing", "joining", "open"} :
        UNCHANGED <<situation, allowed, since>> /\ Request(w, waiting, next) => LookupInv'
  BY RequestStep
<1>3. CASE Authorizes(w)
  BY <1>2, <1>3, RefusedStep DEF Authorizes, policyVars, Waiting
<1>4. CASE Reauthorizes(w)
  BY <1>2, <1>4, RefusedStep DEF Reauthorizes, policyVars, Waiting
<1>5. CASE Joins(w) \/ Starts(w)
  <2>1. /\ \E phase \in {"subscribed", "closed", "open"} : watch' = [watch EXCEPT ![w].phase = phase]
        /\ UNCHANGED <<situation, allowed, since, lookup, cached>>
    BY <1>5 DEF Joins, Starts, policyVars, lookupVars
  <2>2. watch' \in [Watchers -> Watches] /\ \A v \in Watchers : watch'[v].left = watch[v].left
    BY <1>1, <2>1 DEF Watches
  <2> QED BY <2>1, <2>2, PhaseStep
<1>6. ASSUME Expires(w), UNCHANGED <<situation, allowed, since>>
      PROVE  LookupInv'
  <2>1. watch' \in [Watchers -> Watches] /\ \A v \in Watchers : watch'[v].left = watch[v].left
    BY <1>1, <1>6 DEF Expires, Watches
  <2> QED BY <1>6, <2>1, PhaseStep DEF Expires, lookupVars
<1>7. CASE Refreshes(w)
  BY <1>2, <1>6, <1>7, RefusedStep DEF Refreshes, policyVars, Waiting
<1>8. CASE RefreshTimesOut(w)
  BY <1>6, <1>8 DEF RefreshTimesOut, policyVars
<1>9. CASE Closes(w) \/ HangsUp(w)
  <2>1. watch' = [watch EXCEPT ![w] = [NoWatch EXCEPT !.phase = "closed"]]
        /\ UNCHANGED <<situation, allowed, since, lookup, cached>>
    BY <1>9 DEF Closes, HangsUp, Ends, policyVars, lookupVars
  <2>2. watch' \in [Watchers -> Watches] /\ \A v \in Watchers : watch'[v].left \in {0, watch[v].left}
    BY <1>1, <2>1 DEF Watches, NoWatch
  <2> QED BY <2>1, <2>2, PhaseStep
<1> QED BY <1>3, <1>4, <1>5, <1>7, <1>8, <1>9

(* The streams, commits and publications: at most a phase changes, and     *)
(* nobody gets a lease.                                                    *)
LEMMA StreamStep ==
  ASSUME LookupInv,
         \/ \E w \in Watchers :
              SendsWake(w) \/ Pulls(w) \/ TimerFires(w) \/ TakesTick(w) \/ TakesCommit(w)
         \/ \E ks \in SUBSET Keys : Commit(ks)
         \/ \E m \in Commits :
              \/ Publishes(m) \/ IsNotPublished(m)
              \/ \E k \in Keys : Evaluated(m, k)
         \/ Canceled \/ UNCHANGED watchVars
  PROVE  LookupInv'
<1>1. watch \in [Watchers -> Watches]
  BY DEF LookupInv, LookupType
<1>2. ASSUME UNCHANGED <<situation, allowed, since, lookup, cached, watch>>
      PROVE  LookupInv'
  BY <1>1, <1>2, PhaseStep
<1>3. ASSUME NEW w \in Watchers, TakesCommit(w)
      PROVE  LookupInv'
  <2>1. /\ UNCHANGED <<situation, allowed, since, lookup, cached>>
        /\ watch' = watch \/ watch' = [watch EXCEPT ![w].phase = "closing"]
    BY <1>3 DEF TakesCommit, policyVars, lookupVars
  <2>2. watch' \in [Watchers -> Watches] /\ \A v \in Watchers : watch'[v].left = watch[v].left
    BY <1>1, <2>1 DEF Watches
  <2> QED BY <2>1, <2>2, PhaseStep
<1>4. ASSUME NEW m \in Commits, NEW k \in Keys, Evaluated(m, k)
      PROVE  LookupInv'
  <2>1. /\ UNCHANGED <<situation, allowed, since, lookup, cached>>
        /\ \E ws \in SUBSET Watchers : watch' = [w \in Watchers |->
             IF w \in ws THEN [watch[w] EXCEPT !.phase = "closing"] ELSE watch[w]]
    <3>1. PICK result \in {Result(m, k), "failed"} : watch' = [w \in Watchers |->
            IF w \in Awaiting(m, k) /\ result = "failed"
            THEN [watch[w] EXCEPT !.phase = "closing"] ELSE watch[w]]
      BY <1>4 DEF Evaluated
    <3>2. CASE result = "failed"
      <4>1. watch' = [w \in Watchers |-> IF w \in Awaiting(m, k)
                        THEN [watch[w] EXCEPT !.phase = "closing"] ELSE watch[w]]
        BY <3>1, <3>2
      <4>2. Awaiting(m, k) \in SUBSET Watchers
        BY DEF Awaiting
      <4> QED BY <1>4, <4>1, <4>2 DEF Evaluated, policyVars, lookupVars
    <3>3. CASE result # "failed"
      <4>1. watch' = [w \in Watchers |-> IF w \in {}
                        THEN [watch[w] EXCEPT !.phase = "closing"] ELSE watch[w]]
        BY <3>1, <3>3
      <4>2. {} \in SUBSET Watchers
        OBVIOUS
      <4>3. \E ws \in SUBSET Watchers : watch' = [w \in Watchers |->
              IF w \in ws THEN [watch[w] EXCEPT !.phase = "closing"] ELSE watch[w]]
        BY <4>1, <4>2, Zenon
      <4> QED BY <1>4, <4>3 DEF Evaluated, policyVars, lookupVars
    <3> QED BY <3>2, <3>3
  <2>2. watch' \in [Watchers -> Watches] /\ \A v \in Watchers : watch'[v].left = watch[v].left
    BY <1>1, <2>1 DEF Watches
  <2> QED BY <2>1, <2>2, PhaseStep
<1>5. CASE UNCHANGED watchVars
  BY <1>2, <1>5 DEF watchVars, policyVars, lookupVars
<1>6. ASSUME NEW w \in Watchers, SendsWake(w) \/ Pulls(w) \/ TimerFires(w) \/ TakesTick(w)
      PROVE  LookupInv'
  BY <1>2, <1>6 DEF SendsWake, Pulls, TimerFires, TakesTick, policyVars, lookupVars
<1>7. ASSUME NEW ks \in SUBSET Keys, Commit(ks)
      PROVE  LookupInv'
  BY <1>2, <1>7 DEF Commit, policyVars, lookupVars
<1>8. ASSUME NEW m \in Commits, Publishes(m) \/ IsNotPublished(m)
      PROVE  LookupInv'
  BY <1>2, <1>8 DEF Publishes, IsNotPublished, policyVars, lookupVars
<1>9. CASE Canceled
  BY <1>2, <1>9 DEF Canceled, policyVars, lookupVars
<1> QED BY <1>3, <1>4, <1>5, <1>6, <1>7, <1>8, <1>9

(* The leases hold at first, and every step keeps them.                    *)
LEMMA LookupInductive ==
  /\ WatchInit => LookupInv
  /\ LookupInv /\ [WatchNext]_watchVars => LookupInv'
<1>1. ASSUME WatchInit PROVE LookupInv
  <2>1. LookupType
    BY <1>1 DEF WatchInit, LookupType, Lookups, Watches, NoLookup, NoWatch
  <2>2. Clock
    BY <1>1, Constants DEF WatchInit, Clock, NoLookup, Granted
  <2>3. Leases
    BY <1>1, Constants DEF WatchInit, Leases, NoWatch
  <2> QED BY <2>1, <2>2, <2>3 DEF LookupInv
<1>2. ASSUME LookupInv, [WatchNext]_watchVars PROVE LookupInv'
  <2>1. CASE UNCHANGED watchVars
    BY <1>2, <2>1, StreamStep
  <2>2. CASE WatchNext
    <3>1. ASSUME NEW k \in Keys,
                 \/ Asks(k) \/ Reads(k) \/ Completes(k) \/ LookupTimesOut(k)
                 \/ Forbids(k) \/ Allows(k)
          PROVE  LookupInv'
      BY <1>2, <3>1, LookupStep
    <3>2. ASSUME NEW w \in Watchers,
                 \/ Authorizes(w) \/ Reauthorizes(w) \/ Joins(w) \/ Starts(w)
                 \/ Refreshes(w) \/ RefreshTimesOut(w) \/ Closes(w) \/ HangsUp(w)
          PROVE  LookupInv'
      BY <1>2, <3>2, OpeningStep
    <3>3. CASE Tick
      BY <1>2, <3>3, TickStep
    <3> QED BY <1>2, <2>2, <3>1, <3>2, <3>3, StreamStep DEF WatchNext
  <2> QED BY <1>2, <2>1, <2>2
<1> QED BY <1>1, <1>2

-----------------------------------------------------------------------------
(***************************************************************************)
(* The wakes of a watch.                                                   *)
(***************************************************************************)
(* What is on its way to a watch.                                          *)
OnItsWay(w, m) ==
  \/ m \in publishing \/ m \in Range(buffer[w])
  \/ stream[w].signal = "wake"
  \/ stream[w].signal = "evaluating" /\ stream[w].commit = m

(* A step of the authorization leaves the wakes alone, and makes no watch  *)
(* live that was not.                                                      *)
LEMMA WatchOnly ==
  ASSUME WakeInv, UNCHANGED <<situation, wakeVars>>, \A w \in Watchers : Live(w)' => Live(w)
  PROVE  WakeInv'
<1>1. UNCHANGED <<stream, buffer, commits, publishing, evaluation, canceling, owed, missed>>
  BY DEF wakeVars
<1>2. WakeType'
  BY <1>1 DEF WakeInv, WakeType, Made, Commits
<1>3. Visibility'
  BY <1>1 DEF WakeInv, Visibility, Made, Commits, KeyOf
<1>4. CommitsReachTheWatch'
  BY <1>1 DEF WakeInv, CommitsReachTheWatch
<1> QED BY <1>2, <1>3, <1>4 DEF WakeInv

LEMMA RequestIsNoNews ==
  ASSUME LookupType, NEW w \in Watchers,
         NEW waiting \in Waiting, NEW next \in {"preparing", "joining", "open"},
         Request(w, waiting, next) \/ Refused(w),
         Live(w) \/ {waiting, next} \cap {"open", "refreshing"} = {}
  PROVE  \A v \in Watchers : Live(v)' => Live(v)
<1>1. watch \in [Watchers -> Watches] /\ cached[KeyOf(w)] \in Nat
  BY KeyIsKey DEF LookupType
<1>2. CASE Refused(w)
  BY <1>1, <1>2 DEF Refused, Live
<1>3. CASE Request(w, waiting, next)
  <2>1. watch' = [watch EXCEPT ![w] = With(w, next, cached[KeyOf(w)])]
        \/ watch' = [watch EXCEPT ![w].phase = waiting]
    BY <1>3 DEF Request
  <2>2. With(w, next, cached[KeyOf(w)]).phase = next
    BY <1>1 DEF With, Watches
  <2>3. watch'[w].phase \in {next, waiting} /\ \A v \in Watchers \ {w} : watch'[v] = watch[v]
    BY <1>1, <2>1, <2>2 DEF Watches
  <2> QED BY <2>3 DEF Live
<1> QED BY <1>2, <1>3

(* The wakes through the requests, the policy and the clock.               *)
LEMMA WakesWaitOut ==
  ASSUME LookupType, WakeInv,
         \/ \E k \in Keys :
              \/ Asks(k) \/ Reads(k) \/ Completes(k) \/ LookupTimesOut(k)
              \/ Forbids(k) \/ Allows(k)
         \/ \E w \in Watchers :
              \/ Authorizes(w) \/ Reauthorizes(w) \/ Joins(w)
              \/ Refreshes(w) \/ RefreshTimesOut(w)
         \/ Tick
  PROVE  WakeInv'
<1>1. watch \in [Watchers -> Watches]
  BY DEF LookupType
<1>2. ASSUME UNCHANGED <<situation, wakeVars>>, UNCHANGED watch
      PROVE  WakeInv'
  BY <1>2, WatchOnly DEF Live
<1>3. ASSUME NEW k \in Keys, Succeeds(k), UNCHANGED <<situation, wakeVars>>
      PROVE  WakeInv'
  <2>1. \A w \in Watchers : watch'[w] \in {AfterSuccess(w), watch[w]}
    BY <1>3 DEF Succeeds
  <2>2. ASSUME NEW w \in Watchers, AfterSuccess(w).phase \in {"open", "refreshing"}
        PROVE  Live(w)
    BY <1>1, <2>2 DEF AfterSuccess, Live, With, Watches
  <2> QED BY <1>3, <2>1, <2>2, WatchOnly DEF Live
<1>4. ASSUME NEW k \in Keys, Denied(k), UNCHANGED <<situation, wakeVars>>
      PROVE  WakeInv'
  <2>1. \A w \in Watchers : watch'[w] \in {AfterFailure(w), watch[w]}
    BY <1>4 DEF Denied
  <2>2. ASSUME NEW w \in Watchers, AfterFailure(w).phase \in {"open", "refreshing"}
        PROVE  Live(w)
    BY <1>1, <2>2 DEF AfterFailure, Live, Watches
  <2> QED BY <1>4, <2>1, <2>2, WatchOnly DEF Live
<1>5. ASSUME NEW k \in Keys, Asks(k) \/ Reads(k) \/ Forbids(k) \/ Allows(k)
      PROVE  WakeInv'
  BY <1>2, <1>5 DEF Asks, Reads, Forbids, Allows, lookupVars
<1>6. ASSUME NEW k \in Keys, Completes(k) \/ LookupTimesOut(k)
      PROVE  WakeInv'
  BY <1>3, <1>4, <1>6 DEF Completes, LookupTimesOut
<1>7. ASSUME NEW w \in Watchers, Authorizes(w)
      PROVE  WakeInv'
  <2>1. Request(w, "authorizing", "preparing") \/ Refused(w)
    BY <1>7 DEF Authorizes
  <2>2. \A v \in Watchers : Live(v)' => Live(v)
    BY <2>1, RequestIsNoNews DEF Waiting
  <2> QED BY <1>7, <2>2, WatchOnly DEF Authorizes
<1>8. ASSUME NEW w \in Watchers, Reauthorizes(w)
      PROVE  WakeInv'
  <2>1. Request(w, "reauthorizing", "joining") \/ Refused(w)
    BY <1>8 DEF Reauthorizes
  <2>2. \A v \in Watchers : Live(v)' => Live(v)
    BY <2>1, RequestIsNoNews DEF Waiting
  <2> QED BY <1>8, <2>2, WatchOnly DEF Reauthorizes
<1>9. ASSUME NEW w \in Watchers, Joins(w)
      PROVE  WakeInv'
  BY <1>1, <1>9, WatchOnly DEF Joins, Live
<1>10. ASSUME NEW w \in Watchers, Expires(w), UNCHANGED <<situation, wakeVars>>
       PROVE  WakeInv'
  BY <1>1, <1>10, WatchOnly DEF Expires, Live
<1>11. ASSUME NEW w \in Watchers, Refreshes(w)
       PROVE  WakeInv'
  <2>1. CASE watch[w].left = 0
    BY <1>10, <1>11, <2>1 DEF Refreshes
  <2>2. CASE watch[w].left # 0
    <3>1. (Request(w, "refreshing", "open") \/ Refused(w)) /\ Live(w)
      BY <1>11, <2>2 DEF Refreshes, Live
    <3>2. \A v \in Watchers : Live(v)' => Live(v)
      BY <3>1, RequestIsNoNews DEF Waiting
    <3> QED BY <1>11, <3>2, WatchOnly DEF Refreshes
  <2> QED BY <2>1, <2>2
<1>12. ASSUME NEW w \in Watchers, RefreshTimesOut(w)
       PROVE  WakeInv'
  BY <1>10, <1>12 DEF RefreshTimesOut
<1>13. CASE Tick
  <2>1. \A w \in Watchers : watch'[w].phase = watch[w].phase
    BY <1>1, <1>13 DEF Tick, Watches
  <2> QED BY <1>13, <2>1, WatchOnly DEF Tick, Live
<1> QED BY <1>5, <1>6, <1>7, <1>8, <1>9, <1>11, <1>12, <1>13

(* A verdict on a commit for a key leaves the others alone.                *)
Verdicts == {"none", "pending", "visible", "hidden", "failed"}

LEMMA Settles ==
  ASSUME evaluation \in [Commits -> [Keys -> Verdicts]],
         NEW v \in Verdicts, NEW m, NEW k, evaluation' = [evaluation EXCEPT ![m][k] = v]
  PROVE  /\ evaluation' \in [Commits -> [Keys -> Verdicts]]
         /\ \A n \in Commits, l \in Keys :
              evaluation'[n][l] = IF n = m /\ l = k THEN v ELSE evaluation[n][l]
<1> DEFINE row == [evaluation[m] EXCEPT ![k] = v]
<1>1. evaluation' = [evaluation EXCEPT ![m] = row]
  OBVIOUS
<1>2. m \in Commits =>
        row \in [Keys -> Verdicts] /\ \A l \in Keys : row[l] = IF l = k THEN v ELSE evaluation[m][l]
  OBVIOUS
<1> HIDE DEF row
<1>3. evaluation' \in [Commits -> [Keys -> Verdicts]]
  BY <1>1, <1>2
<1>4. \A n \in Commits : evaluation'[n] = IF n = m THEN row ELSE evaluation[n]
  BY <1>1
<1> QED BY <1>2, <1>3, <1>4

(* The stream of a watch starts, or the watch ends.                        *)
LEMMA StartsStep ==
  ASSUME LookupType, WakeInv, NEW w \in Watchers, Starts(w)
  PROVE  WakeInv'
<1>1. /\ stream' = [stream EXCEPT ![w].signal = "wake"]
      /\ watch' = [watch EXCEPT ![w].phase = "open"]
      /\ UNCHANGED <<situation, buffer, commits, publishing, evaluation, canceling, owed, missed>>
  BY DEF Starts
<1>2. stream \in [Watchers -> Streams] /\ watch \in [Watchers -> Watches]
  BY DEF LookupType, WakeInv, WakeType
<1>3. stream'[w].signal = "wake" /\ \A v \in Watchers \ {w} : stream'[v] = stream[v]
  BY <1>1, <1>2 DEF Streams
<1>4. WakeType'
  BY <1>1, <1>2 DEF WakeInv, WakeType, Made, Commits, Streams
<1>5. Visibility'
  BY <1>1, <1>3 DEF WakeInv, Visibility, Made, Commits, KeyOf
<1>6. CommitsReachTheWatch'
  <2> SUFFICES ASSUME NEW v \in Watchers, Live(v)', NEW m \in owed[v] \ missed[v]
               PROVE  OnItsWay(v, m)'
    BY <1>1 DEF CommitsReachTheWatch, OnItsWay
  <2>1. CASE v = w
    BY <1>3, <2>1 DEF OnItsWay
  <2>2. CASE v # w
    <3>1. Live(v)
      BY <1>1, <1>2, <2>2 DEF Live
    <3>2. OnItsWay(v, m)
      BY <3>1 DEF WakeInv, CommitsReachTheWatch, OnItsWay
    <3> QED BY <1>1, <1>3, <2>2, <3>2 DEF OnItsWay
  <2> QED BY <2>1, <2>2
<1> QED BY <1>4, <1>5, <1>6 DEF WakeInv

LEMMA EndsStep ==
  ASSUME LookupType, WakeInv, NEW w \in Watchers, Ends(w),
         UNCHANGED <<situation, commits, publishing>>
  PROVE  WakeInv'
<1>1. /\ stream' = [v \in Watchers |-> IF v \in {w} THEN NoStream ELSE stream[v]]
      /\ buffer' = [v \in Watchers |-> IF v \in {w} THEN <<>> ELSE buffer[v]]
      /\ owed' = [v \in Watchers |-> IF v \in {w} THEN {} ELSE owed[v]]
      /\ missed' = [v \in Watchers |-> IF v \in {w} THEN {} ELSE missed[v]]
      /\ watch' = [watch EXCEPT ![w] = [NoWatch EXCEPT !.phase = "closed"]]
  BY DEF Ends, Gone
<1>2. /\ stream \in [Watchers -> Streams] /\ watch \in [Watchers -> Watches]
      /\ buffer \in [Watchers -> Seq(Made)] /\ owed \in [Watchers -> SUBSET Made]
      /\ missed \in [Watchers -> SUBSET Nat] /\ canceling \in Nat
      /\ evaluation \in [Commits -> [Keys -> {"none", "pending", "visible", "hidden", "failed"}]]
  BY DEF LookupType, WakeInv, WakeType
<1>3. \/ evaluation' = evaluation /\ canceling' = canceling
      \/ /\ evaluation' = [evaluation EXCEPT ![stream[w].commit][KeyOf(w)] = "none"]
         /\ canceling' = canceling + 1
  BY DEF Ends, Detaches
<1>4. /\ evaluation' \in [Commits -> [Keys -> Verdicts]] /\ canceling' \in Nat
       /\ \A m \in Commits, k \in Keys : evaluation'[m][k] \in {"none", evaluation[m][k]}
  <2>1. evaluation \in [Commits -> [Keys -> Verdicts]] /\ "none" \in Verdicts
    BY <1>2 DEF Verdicts
  <2>2. CASE evaluation' = evaluation /\ canceling' = canceling
    BY <1>2, <2>1, <2>2
  <2>3. CASE /\ evaluation' = [evaluation EXCEPT ![stream[w].commit][KeyOf(w)] = "none"]
             /\ canceling' = canceling + 1
    <3>1. evaluation' = [evaluation EXCEPT ![stream[w].commit][KeyOf(w)] = "none"]
      BY <2>3
    <3>2. /\ evaluation' \in [Commits -> [Keys -> Verdicts]]
          /\ \A n \in Commits, l \in Keys : evaluation'[n][l] =
               IF n = stream[w].commit /\ l = KeyOf(w) THEN "none" ELSE evaluation[n][l]
      BY <2>1, <3>1, Settles
    <3> QED BY <1>2, <2>3, <3>2
  <2> QED BY <1>3, <2>2, <2>3
<1>5. NoStream \in Streams /\ NoStream.signal = "none" /\ <<>> \in Seq(Made)
  BY DEF NoStream, Streams
<1>6. WakeType'
  <2>1. /\ stream' \in [Watchers -> Streams] /\ owed' \in [Watchers -> SUBSET Made]
        /\ missed' \in [Watchers -> SUBSET Nat]
    BY <1>1, <1>2, <1>5
  <2>2. buffer' \in [Watchers -> Seq(Made)]
    BY <1>1, <1>2, <1>5
  <2> QED BY <1>4, <2>1, <2>2 DEF WakeInv, WakeType, Made, Commits, Verdicts
<1>7. Visibility'
  <2>1. \A m \in Commits, k \in Keys : evaluation'[m][k] \in {"none", evaluation[m][k]}
    BY <1>4
  <2>2. /\ \A v \in Watchers : owed'[v] \subseteq owed[v]
        /\ \A v \in Watchers : stream'[v] = stream[v] \/ stream'[v].signal = "none"
    BY <1>1, <1>5
  <2> QED BY <2>1, <2>2 DEF WakeInv, Visibility, Made, Commits, KeyOf
<1>8. CommitsReachTheWatch'
  <2> SUFFICES ASSUME NEW v \in Watchers, Live(v)', NEW m \in (owed[v] \ missed[v])'
               PROVE  OnItsWay(v, m)'
    BY DEF CommitsReachTheWatch, OnItsWay
  <2>1. v # w
    BY <1>1
  <2>2. Live(v) /\ m \in owed[v] \ missed[v]
    BY <1>1, <1>2, <2>1 DEF Live
  <2>3. OnItsWay(v, m)
    BY <2>2 DEF WakeInv, CommitsReachTheWatch, OnItsWay
  <2> QED BY <1>1, <2>1, <2>3 DEF OnItsWay
<1> QED BY <1>6, <1>7, <1>8 DEF WakeInv

(* A commit, and its publication.                                          *)
LEMMA CommitStep ==
  ASSUME LookupType, WakeInv, NEW ks \in SUBSET Keys, Commit(ks)
  PROVE  WakeInv'
<1> DEFINE m == Len(commits) + 1
<1>1. /\ commits' = Append(commits, ks) /\ publishing' = publishing \cup {m}
      /\ owed' = [w \in Watchers |->
           IF w \in Slots /\ KeyOf(w) \in ks THEN owed[w] \cup {m} ELSE owed[w]]
      /\ Len(commits) < situation.commits
      /\ UNCHANGED <<situation, watch, stream, buffer, evaluation, canceling, missed>>
  BY DEF Commit, policyVars, lookupVars
<1>2. /\ commits \in Seq(SUBSET Keys) /\ owed \in [Watchers -> SUBSET Made]
      /\ publishing \subseteq Made /\ buffer \in [Watchers -> Seq(Made)]
      /\ Len(commits) \in Nat
  BY DEF WakeInv, WakeType
<1>3. /\ commits' \in Seq(SUBSET Keys) /\ Len(commits') = m
      /\ Made' = Made \cup {m} /\ m \notin Made
      /\ commits'[m] = ks /\ \A n \in Made : commits'[n] = commits[n]
  BY <1>1, <1>2 DEF Made
<1>4. WakeType'
  <2>1. owed' \in [Watchers -> SUBSET Made']
    BY <1>1, <1>2, <1>3
  <2>2. buffer' \in [Watchers -> Seq(Made')]
    <3>1. \A s \in Seq(Made) : s \in Seq(Made')
      BY <1>3
    <3> QED BY <1>1, <1>2, <3>1
  <2>3. publishing' \subseteq Made' /\ Len(commits') <= situation'.commits
    <3>1. situation.commits \in Nat
      BY Constants DEF LookupType
    <3> QED BY <1>1, <1>2, <1>3, <3>1
  <2> QED BY <1>1, <1>3, <2>1, <2>2, <2>3 DEF WakeInv, WakeType, Commits
<1>5. Visibility'
  <2>1. ASSUME NEW w \in Watchers, NEW n \in owed'[w]
        PROVE  KeyOf(w)' \in commits'[n]
    <3>1. KeyOf(w)' = KeyOf(w)
      BY <1>1 DEF KeyOf
    <3>2. CASE n \in owed[w]
      BY <1>2, <1>3, <3>1, <3>2 DEF WakeInv, Visibility
    <3>3. CASE n \notin owed[w]
      BY <1>1, <1>3, <2>1, <3>1, <3>3
    <3> QED BY <3>2, <3>3
  <2>2. ASSUME NEW n \in Commits, NEW k \in Keys
        PROVE  /\ evaluation'[n][k] # "none" => n \in Made'
               /\ evaluation'[n][k] = "hidden" => k \notin commits'[n]
    BY <1>1, <1>3 DEF WakeInv, Visibility
  <2>3. \A w \in Watchers : stream'[w].signal = "evaluating" => stream'[w].commit \in Made'
    BY <1>1, <1>3 DEF WakeInv, Visibility
  <2>4. Commits' = Commits
    BY <1>1 DEF Commits
  <2> QED BY <2>1, <2>2, <2>3, <2>4 DEF Visibility
<1>6. CommitsReachTheWatch'
  <2> SUFFICES ASSUME NEW w \in Watchers, Live(w)', NEW n \in (owed[w] \ missed[w])'
               PROVE  OnItsWay(w, n)'
    BY DEF CommitsReachTheWatch, OnItsWay
  <2>1. n = m \/ (Live(w) /\ n \in owed[w] \ missed[w])
    BY <1>1 DEF Live
  <2>2. n = m \/ OnItsWay(w, n)
    BY <2>1 DEF WakeInv, CommitsReachTheWatch, OnItsWay
  <2> QED BY <1>1, <2>2 DEF OnItsWay
<1> QED BY <1>4, <1>5, <1>6 DEF WakeInv

LEMMA PublishesStep ==
  ASSUME LookupType, WakeInv, NEW m \in Commits, Publishes(m)
  PROVE  WakeInv'
<1>1. /\ m \in publishing /\ publishing' = publishing \ {m}
      /\ buffer' = [w \in Watchers |-> IF w \in Slots THEN Offered(w, m) ELSE buffer[w]]
      /\ missed' = [w \in Watchers |->
           IF w \in Slots THEN missed[w] \cup (SlidOut(w) \cap owed[w]) ELSE missed[w]]
      /\ UNCHANGED <<situation, watch, stream, commits, evaluation, canceling, owed>>
  BY DEF Publishes, Subscribed
<1>2. /\ buffer \in [Watchers -> Seq(Made)] /\ owed \in [Watchers -> SUBSET Made]
      /\ missed \in [Watchers -> SUBSET Nat] /\ publishing \subseteq Made
      /\ WakeCapacity \in Nat \ {0}
  BY Constants DEF WakeInv, WakeType
<1>3. ASSUME NEW w \in Watchers
      PROVE  /\ Offered(w, m) \in Seq(Made)
             /\ Range(buffer[w]) \subseteq Range(Offered(w, m)) \cup SlidOut(w)
             /\ m \in Range(Offered(w, m))
  <2>1. buffer[w] \in Seq(Made) /\ m \in Made
    BY <1>1, <1>2
  <2>2. CASE Len(buffer[w]) < WakeCapacity
    <3>1. Offered(w, m) = Append(buffer[w], m)
      BY <2>2 DEF Offered
    <3>2. Append(buffer[w], m) \in Seq(Made) /\ Len(Append(buffer[w], m)) = Len(buffer[w]) + 1
      BY <2>1
    <3>3. \A i \in 1 .. Len(buffer[w]) : Append(buffer[w], m)[i] = buffer[w][i]
      BY <2>1
    <3>4. Append(buffer[w], m)[Len(buffer[w]) + 1] = m
      BY <2>1
    <3> QED BY <2>1, <3>1, <3>2, <3>3, <3>4 DEF Range
  <2>3. CASE ~ (Len(buffer[w]) < WakeCapacity)
    <3>1. Offered(w, m) = Append(Tail(buffer[w]), m) /\ SlidOut(w) = {Head(buffer[w])}
      BY <2>3 DEF Offered, SlidOut
    <3>2. Len(buffer[w]) \in Nat /\ Len(buffer[w]) > 0 /\ buffer[w] # <<>>
      BY <1>2, <2>1, <2>3
    <3>3. Tail(buffer[w]) \in Seq(Made) /\ Len(Tail(buffer[w])) = Len(buffer[w]) - 1
      BY <2>1, <3>2
    <3>4. /\ Append(Tail(buffer[w]), m) \in Seq(Made)
          /\ Len(Append(Tail(buffer[w]), m)) = Len(buffer[w])
          /\ Append(Tail(buffer[w]), m)[Len(buffer[w])] = m
      BY <2>1, <3>2, <3>3
    <3>5. \A i \in 2 .. Len(buffer[w]) : Append(Tail(buffer[w]), m)[i - 1] = buffer[w][i]
      BY <2>1, <3>2, <3>3
    <3>6. Head(buffer[w]) = buffer[w][1]
      BY <2>1, <3>2
    <3>7. ASSUME NEW i \in 1 .. Len(buffer[w])
          PROVE  buffer[w][i] \in Range(Offered(w, m)) \cup SlidOut(w)
      <4>1. CASE i = 1
        BY <3>1, <3>6, <4>1
      <4>2. CASE i # 1
        <5>1. i - 1 \in 1 .. Len(Offered(w, m)) /\ Offered(w, m)[i - 1] = buffer[w][i]
          BY <3>1, <3>2, <3>4, <3>5, <4>2
        <5> QED BY <3>1, <3>4, <5>1 DEF Range
      <4> QED BY <4>1, <4>2
    <3>8. Range(buffer[w]) \subseteq Range(Offered(w, m)) \cup SlidOut(w)
      BY <2>1, <3>7 DEF Range
    <3>9. m \in Range(Offered(w, m))
      BY <3>1, <3>2, <3>4 DEF Range
    <3> QED BY <3>1, <3>4, <3>8, <3>9
  <2> QED BY <2>2, <2>3
<1>4. WakeType'
  <2>1. buffer' \in [Watchers -> Seq(Made)]
    BY <1>1, <1>2, <1>3
  <2>2. missed' \in [Watchers -> SUBSET Nat]
    <3>1. Made \subseteq Nat
      BY DEF WakeInv, WakeType, Made
    <3> QED BY <1>1, <1>2, <3>1
  <2> QED BY <1>1, <1>2, <2>1, <2>2 DEF WakeInv, WakeType, Made, Commits
<1>5. Visibility'
  BY <1>1 DEF WakeInv, Visibility, Made, Commits, KeyOf
<1>6. CommitsReachTheWatch'
  <2> SUFFICES ASSUME NEW w \in Watchers, Live(w)', NEW n \in (owed[w] \ missed[w])'
               PROVE  OnItsWay(w, n)'
    BY DEF CommitsReachTheWatch, OnItsWay
  <2>1. Live(w) /\ w \in Slots
    BY <1>1 DEF Live, Slots
  <2>2. n \in owed[w] \ missed[w] /\ n \notin SlidOut(w) /\ buffer'[w] = Offered(w, m)
    BY <1>1, <2>1
  <2>3. OnItsWay(w, n)
    BY <2>1, <2>2 DEF WakeInv, CommitsReachTheWatch, OnItsWay
  <2>4. n \in publishing => n \in publishing' \/ n \in Range(buffer'[w])
    BY <1>1, <1>3, <2>2
  <2>5. n \in Range(buffer[w]) => n \in Range(buffer'[w])
    BY <1>3, <2>2
  <2> QED BY <1>1, <2>3, <2>4, <2>5 DEF OnItsWay
<1> QED BY <1>4, <1>5, <1>6 DEF WakeInv

LEMMA IsNotPublishedStep ==
  ASSUME LookupType, WakeInv, NEW m \in Commits, IsNotPublished(m)
  PROVE  WakeInv'
<1>1. /\ m \in publishing /\ publishing' = publishing \ {m}
      /\ missed' = [w \in Watchers |-> missed[w] \cup ({m} \cap owed[w])]
      /\ UNCHANGED <<situation, watch, stream, buffer, commits, evaluation, canceling, owed>>
  BY DEF IsNotPublished
<1>2. WakeType'
  <2>1. Made \subseteq Nat /\ missed \in [Watchers -> SUBSET Nat] /\ m \in Made
    BY <1>1 DEF WakeInv, WakeType, Made
  <2>2. missed' \in [Watchers -> SUBSET Nat]
    BY <1>1, <2>1
  <2> QED BY <1>1, <2>2 DEF WakeInv, WakeType, Made, Commits
<1>3. Visibility'
  BY <1>1 DEF WakeInv, Visibility, Made, Commits, KeyOf
<1>4. CommitsReachTheWatch'
  BY <1>1 DEF WakeInv, CommitsReachTheWatch, Live
<1> QED BY <1>2, <1>3, <1>4 DEF WakeInv

(* A wake is sent, the client reads on, the timer fires or is taken.       *)
LEMMA SignalStep ==
  ASSUME LookupType, WakeInv, NEW w \in Watchers,
         SendsWake(w) \/ Pulls(w) \/ TimerFires(w) \/ TakesTick(w)
  PROVE  WakeInv'
<1>1. /\ UNCHANGED <<situation, watch, buffer, commits, publishing, evaluation, canceling>>
      /\ \A v \in Watchers \ {w} : stream'[v] = stream[v] /\ owed'[v] = owed[v] /\ missed'[v] = missed[v]
  BY DEF SendsWake, Pulls, TimerFires, TakesTick, Signals, WakeInv, WakeType
<1>2. /\ stream \in [Watchers -> Streams] /\ owed \in [Watchers -> SUBSET Made]
      /\ missed \in [Watchers -> SUBSET Nat]
  BY DEF WakeInv, WakeType
<1>3. /\ stream' \in [Watchers -> Streams]
      /\ stream'[w].signal = "evaluating" => stream'[w] = [stream[w] EXCEPT !.tick = TRUE]
  <2>1. CASE SendsWake(w)
    <3>1. PICK r : r = [stream[w] EXCEPT !.signal = "sent", !.commit = NoCommit]
      OBVIOUS
    <3>2. stream' = [stream EXCEPT ![w] = r]
      BY <1>2, <2>1, <3>1 DEF SendsWake, Signals
    <3>3. r \in Streams /\ r.signal = "sent"
      BY <1>2, <3>1 DEF Streams
    <3> QED BY <1>2, <3>2, <3>3
  <2>2. CASE Pulls(w)
    <3>1. PICK r : r = [stream[w] EXCEPT !.signal = "none", !.started = TRUE]
      OBVIOUS
    <3>2. stream' = [stream EXCEPT ![w] = r]
      BY <1>2, <2>2, <3>1 DEF Pulls
    <3>3. r \in Streams /\ r.signal = "none"
      BY <1>2, <3>1 DEF Streams
    <3> QED BY <1>2, <3>2, <3>3
  <2>3. CASE TimerFires(w)
    BY <1>2, <2>3 DEF TimerFires, Streams
  <2>4. CASE TakesTick(w)
    BY <1>2, <2>4 DEF TakesTick, TickSignal, Streams
  <2> QED BY <2>1, <2>2, <2>3, <2>4
<1>4. /\ owed' \in [Watchers -> SUBSET Made] /\ missed' \in [Watchers -> SUBSET Nat]
      /\ owed'[w] \subseteq owed[w]
  BY <1>2 DEF SendsWake, Pulls, TimerFires, TakesTick
<1>5. WakeType'
  BY <1>1, <1>3, <1>4 DEF WakeInv, WakeType, Made, Commits
<1>6. Visibility'
  <2>1. \A v \in Watchers : stream'[v].signal = "evaluating" =>
          stream[v].signal = "evaluating" /\ stream'[v].commit = stream[v].commit
    BY <1>1, <1>2, <1>3 DEF Streams
  <2>2. \A v \in Watchers : owed'[v] \subseteq owed[v]
    BY <1>1, <1>4
  <2> QED BY <1>1, <2>1, <2>2 DEF WakeInv, Visibility, Made, Commits, KeyOf
<1>7. CommitsReachTheWatch'
  <2> SUFFICES ASSUME NEW v \in Watchers, Live(v)', NEW n \in (owed[v] \ missed[v])'
               PROVE  OnItsWay(v, n)'
    BY DEF CommitsReachTheWatch, OnItsWay
  <2>1. CASE v # w
    <3>1. OnItsWay(v, n)
      BY <1>1, <2>1 DEF Live, WakeInv, CommitsReachTheWatch, OnItsWay
    <3> QED BY <1>1, <2>1, <3>1 DEF OnItsWay
  <2>2. CASE v = w
    <3>1. ~ SendsWake(w)
      BY <1>2, <2>2 DEF SendsWake
    <3>2. n \in owed[w] \ missed[w] /\ Live(w)
      BY <1>1, <2>2, <3>1 DEF Pulls, TimerFires, TakesTick, Live
    <3>3. OnItsWay(w, n)
      BY <3>2 DEF WakeInv, CommitsReachTheWatch, OnItsWay
    <3>4. CASE Pulls(w)
      BY <1>1, <2>2, <3>3, <3>4 DEF Pulls, OnItsWay
    <3>5. CASE TimerFires(w)
      <4>1. stream'[w].signal = stream[w].signal /\ stream'[w].commit = stream[w].commit
        BY <1>2, <3>5 DEF TimerFires, Streams
      <4> QED BY <1>1, <2>2, <3>3, <4>1 DEF OnItsWay
    <3>6. CASE TakesTick(w)
      <4>1. stream'[w].signal = "wake"
        BY <1>2, <3>6 DEF TakesTick, TickSignal, Streams
      <4> QED BY <2>2, <4>1 DEF OnItsWay
    <3> QED BY <3>1, <3>4, <3>5, <3>6
  <2> QED BY <2>1, <2>2
<1> QED BY <1>5, <1>6, <1>7 DEF WakeInv

(* The head of a subscription is found out about, and what is hidden from  *)
(* the client was not owed to it.                                          *)
LEMMA TakesCommitStep ==
  ASSUME LookupType, WakeInv, NEW w \in Watchers, TakesCommit(w)
  PROVE  WakeInv'
<1> DEFINE m == Head(buffer[w])
           k == KeyOf(w)
<1>1. /\ Live(w) /\ stream[w].signal = "none" /\ buffer[w] # <<>>
      /\ buffer' = [buffer EXCEPT ![w] = Tail(@)]
      /\ UNCHANGED <<situation, commits, publishing, canceling, owed, missed>>
  BY DEF TakesCommit, Idle
<1>2. /\ stream \in [Watchers -> Streams] /\ owed \in [Watchers -> SUBSET Made]
      /\ watch \in [Watchers -> Watches] /\ buffer \in [Watchers -> Seq(Made)]
      /\ evaluation \in [Commits -> [Keys -> Verdicts]] /\ k \in Keys
  BY KeyIsKey DEF LookupType, WakeInv, WakeType, Verdicts
<1>3. m \in Made /\ m \in Commits /\ m # NoCommit
  <2>1. m \in Made
    BY <1>1, <1>2
  <2>2. Len(commits) \in Nat /\ Len(commits) <= situation.commits /\ situation \in Situations
    BY DEF LookupType, WakeInv, WakeType
  <2>3. situation.commits \in Nat /\ NoCommit \notin Commits
    BY <2>2, Constants DEF Commits
  <2> HIDE DEF m
  <2>4. m \in Commits
    BY <2>1, <2>2, <2>3 DEF Made, Commits
  <2> QED BY <2>1, <2>3, <2>4
<1>4. /\ Tail(buffer[w]) \in Seq(Made)
      /\ Range(buffer[w]) \subseteq {m} \cup Range(Tail(buffer[w]))
  <2>1. buffer[w] \in Seq(Made) /\ Len(buffer[w]) \in Nat /\ Len(buffer[w]) > 0
    BY <1>1, <1>2
  <2>2. /\ Tail(buffer[w]) \in Seq(Made) /\ Len(Tail(buffer[w])) = Len(buffer[w]) - 1
        /\ m = buffer[w][1]
        /\ \A i \in 1 .. Len(buffer[w]) - 1 : Tail(buffer[w])[i] = buffer[w][i + 1]
    BY <1>1, <2>1
  <2>3. ASSUME NEW i \in 1 .. Len(buffer[w])
        PROVE  buffer[w][i] \in {m} \cup Range(Tail(buffer[w]))
    <3>1. CASE i = 1
      BY <2>2, <3>1
    <3>2. CASE i # 1
      <4>1. i - 1 \in 1 .. Len(Tail(buffer[w])) /\ Tail(buffer[w])[i - 1] = buffer[w][i]
        BY <2>1, <2>2, <3>2
      <4>2. \A t \in Seq(Made) : \A j \in 1 .. Len(t) : t[j] \in Range(t)
        BY DEF Range
      <4>3. Tail(buffer[w])[i - 1] \in Range(Tail(buffer[w]))
        BY <2>2, <4>1, <4>2
      <4> QED BY <4>1, <4>3
    <3> QED BY <3>1, <3>2
  <2> QED BY <2>1, <2>2, <2>3 DEF Range
<1> HIDE DEF m, k
\* What becomes of the watch, of its stream and of the evaluation.
<1>5. \/ /\ evaluation[m][k] = "visible" /\ Signals(w, "wake", NoCommit)
         /\ watch' = watch /\ evaluation' = evaluation
      \/ /\ evaluation[m][k] = "hidden"
         /\ stream' = stream /\ watch' = watch /\ evaluation' = evaluation
      \/ /\ watch' = [watch EXCEPT ![w].phase = "closing"]
         /\ stream' = stream /\ evaluation' = evaluation
      \/ /\ Signals(w, "evaluating", m) /\ watch' = watch
         /\ \/ evaluation' = evaluation
            \/ /\ evaluation[m][k] = "none"
               /\ evaluation' = [evaluation EXCEPT ![m][k] = "pending"]
  BY DEF TakesCommit, m, k
<1>6. /\ evaluation' \in [Commits -> [Keys -> Verdicts]]
      /\ \A n \in Commits, l \in Keys :
           \/ evaluation'[n][l] = evaluation[n][l]
           \/ n = m /\ evaluation'[n][l] = "pending"
  <2>1. CASE evaluation' = evaluation
    BY <1>2, <2>1
  <2>2. CASE evaluation' = [evaluation EXCEPT ![m][k] = "pending"]
    <3>1. "pending" \in Verdicts
      BY DEF Verdicts
    <3>2. /\ evaluation' \in [Commits -> [Keys -> Verdicts]]
          /\ \A n \in Commits, l \in Keys :
               evaluation'[n][l] = IF n = m /\ l = k THEN "pending" ELSE evaluation[n][l]
      BY <1>2, <2>2, <3>1, Settles
    <3> QED BY <3>2
  <2> QED BY <1>5, <2>1, <2>2
<1>7. /\ stream' \in [Watchers -> Streams]
      /\ \A v \in Watchers \ {w} : stream'[v] = stream[v]
      /\ stream'[w].signal = "evaluating" => stream'[w].commit = m
  <2>1. m \in Nat
    BY <1>3 DEF Made, WakeInv, WakeType
  <2>2. ASSUME NEW s \in {"wake", "evaluating"}, NEW c \in {m, NoCommit}, Signals(w, s, c)
        PROVE  /\ stream' \in [Watchers -> Streams]
               /\ \A v \in Watchers \ {w} : stream'[v] = stream[v]
               /\ stream'[w].signal = s /\ stream'[w].commit = c
    <3> DEFINE new == [stream[w] EXCEPT !.signal = s, !.commit = c]
    <3>1. stream' = [stream EXCEPT ![w] = new]
      BY <2>2 DEF Signals
    <3>2. new \in Streams /\ new.signal = s /\ new.commit = c
      BY <1>2, <2>1 DEF Streams
    <3> HIDE DEF new
    <3> QED BY <1>2, <3>1, <3>2
  <2>3. stream' = stream \/ Signals(w, "wake", NoCommit) \/ Signals(w, "evaluating", m)
    BY <1>5
  <2>4. CASE Signals(w, "wake", NoCommit)
    <3>1. NoCommit \in {m, NoCommit} /\ "wake" \in {"wake", "evaluating"}
      OBVIOUS
    <3>2. stream'[w].signal = "wake" /\ stream' \in [Watchers -> Streams]
          /\ \A v \in Watchers \ {w} : stream'[v] = stream[v]
      BY <2>2, <2>4, <3>1, Zenon
    <3> QED BY <3>2
  <2>5. CASE Signals(w, "evaluating", m)
    BY <2>2, <2>5
  <2> QED BY <1>1, <1>2, <2>3, <2>4, <2>5
<1>8. WakeType'
  <2>1. buffer' \in [Watchers -> Seq(Made)]
    BY <1>1, <1>2, <1>4
  <2> QED BY <1>1, <1>6, <1>7, <2>1 DEF WakeInv, WakeType, Made, Commits, Verdicts
<1>9. Visibility'
  <2>1. \A v \in Watchers : stream'[v].signal = "evaluating" => stream'[v].commit \in Made
    BY <1>3, <1>7 DEF WakeInv, Visibility
  <2>2. \A n \in Commits, l \in Keys :
          /\ evaluation'[n][l] # "none" => n \in Made
          /\ evaluation'[n][l] = "hidden" => l \notin commits[n]
    BY <1>3, <1>6 DEF WakeInv, Visibility
  <2> QED BY <1>1, <2>1, <2>2 DEF WakeInv, Visibility, Made, Commits, KeyOf
<1>10. CommitsReachTheWatch'
  <2> SUFFICES ASSUME NEW v \in Watchers, Live(v)', NEW n \in owed[v] \ missed[v]
               PROVE  OnItsWay(v, n)'
    BY <1>1 DEF CommitsReachTheWatch, OnItsWay
  <2>1. Live(v)
    BY <1>1, <1>2, <1>5 DEF Live, Watches
  <2>2. OnItsWay(v, n)
    BY <2>1 DEF WakeInv, CommitsReachTheWatch, OnItsWay
  <2>3. CASE v # w
    BY <1>1, <1>2, <1>7, <2>2, <2>3 DEF OnItsWay
  <2>4. CASE v = w
    <3>1. n \in publishing \/ n = m \/ n \in Range(buffer'[w])
      BY <1>1, <1>2, <1>4, <2>2, <2>4 DEF OnItsWay
    <3>2. CASE n = m
      <4>1. evaluation[m][k] # "hidden"
        <5>1. k \in commits[m]
          BY <2>4, <3>2 DEF k, WakeInv, Visibility
        <5> QED BY <1>2, <1>3, <5>1 DEF WakeInv, Visibility
      <4>2. watch' # [watch EXCEPT ![w].phase = "closing"]
        BY <1>2, <2>4 DEF Live, Watches
      <4>3. Signals(w, "wake", NoCommit) \/ Signals(w, "evaluating", m)
        BY <1>5, <4>1, <4>2
      <4>4. stream'[w].signal = "wake" \/ (stream'[w].signal = "evaluating" /\ stream'[w].commit = m)
        BY <1>2, <4>3 DEF Signals, Streams
      <4> QED BY <2>4, <3>2, <4>4 DEF OnItsWay
    <3>3. CASE n # m
      BY <1>1, <2>4, <3>1, <3>3 DEF OnItsWay
    <3> QED BY <3>2, <3>3
  <2> QED BY <2>3, <2>4
<1> QED BY <1>8, <1>9, <1>10 DEF WakeInv

(* An evaluation ends, for every watch that waits for it.                  *)
LEMMA EvaluatedStep ==
  ASSUME LookupType, WakeInv, NEW m \in Commits, NEW k \in Keys, Evaluated(m, k)
  PROVE  WakeInv'
<1> DEFINE Next(w, result) ==
             [stream[w] EXCEPT !.commit = NoCommit,
                               !.signal = IF result = "visible" THEN "wake" ELSE "none"]
<1>1. PICK result \in {Result(m, k), "failed"} :
        /\ evaluation' = [evaluation EXCEPT ![m][k] = result]
        /\ stream' = [w \in Watchers |->
             IF w \in Awaiting(m, k) THEN Next(w, result) ELSE stream[w]]
        /\ watch' = [w \in Watchers |-> IF w \in Awaiting(m, k) /\ result = "failed"
                       THEN [watch[w] EXCEPT !.phase = "closing"] ELSE watch[w]]
  BY DEF Evaluated
<1>2. /\ evaluation[m][k] = "pending"
      /\ UNCHANGED <<situation, buffer, commits, publishing, canceling, owed, missed>>
  BY DEF Evaluated
<1>3. /\ stream \in [Watchers -> Streams] /\ watch \in [Watchers -> Watches]
      /\ evaluation \in [Commits -> [Keys -> Verdicts]]
  BY DEF LookupType, WakeInv, WakeType, Verdicts
<1>4. /\ result \in {"visible", "hidden", "failed"} /\ result \in Verdicts
      /\ (result = "hidden" => k \notin commits[m])
  BY DEF Result, Verdicts
<1>5. \A w \in Watchers : /\ Next(w, result) \in Streams
                          /\ Next(w, result).signal \in {"wake", "none"}
                          /\ result = "visible" => Next(w, result).signal = "wake"
  BY <1>3 DEF Streams
<1> HIDE DEF Next
<1>6. /\ evaluation' \in [Commits -> [Keys -> Verdicts]]
      /\ \A n \in Commits, l \in Keys :
           evaluation'[n][l] = IF n = m /\ l = k THEN result ELSE evaluation[n][l]
  BY <1>1, <1>3, <1>4, Settles
<1>7. stream' \in [Watchers -> Streams]
  BY <1>1, <1>3, <1>5
<1>8. WakeType'
  BY <1>2, <1>6, <1>7 DEF WakeInv, WakeType, Made, Commits, Verdicts
<1>9. Visibility'
  <2>1. \A w \in Watchers : stream'[w].signal = "evaluating" => stream'[w] = stream[w]
    BY <1>1, <1>5
  <2>2. \A n \in Commits, l \in Keys :
          /\ evaluation'[n][l] # "none" => n \in Made
          /\ evaluation'[n][l] = "hidden" => l \notin commits[n]
    BY <1>2, <1>4, <1>6 DEF WakeInv, Visibility
  <2> QED BY <1>2, <2>1, <2>2 DEF WakeInv, Visibility, Made, Commits, KeyOf
<1>10. CommitsReachTheWatch'
  <2> SUFFICES ASSUME NEW w \in Watchers, Live(w)', NEW n \in owed[w] \ missed[w]
               PROVE  OnItsWay(w, n)'
    BY <1>2 DEF CommitsReachTheWatch, OnItsWay
  <2>1. Live(w) /\ (w \in Awaiting(m, k) => result # "failed")
    BY <1>1, <1>3 DEF Live, Watches
  <2>2. OnItsWay(w, n)
    BY <2>1 DEF WakeInv, CommitsReachTheWatch, OnItsWay
  <2>3. CASE w \notin Awaiting(m, k)
    BY <1>1, <1>2, <2>2, <2>3 DEF OnItsWay
  <2>4. CASE w \in Awaiting(m, k)
    <3>1. stream[w].signal = "evaluating" /\ stream[w].commit = m /\ KeyOf(w) = k
      BY <2>4 DEF Awaiting
    <3>2. n \in publishing \/ n \in Range(buffer[w]) \/ n = m
      BY <2>2, <3>1 DEF OnItsWay
    <3>3. CASE n = m
      <4>1. k \in commits[m]
        BY <3>1, <3>3 DEF WakeInv, Visibility
      <4>2. result = "visible"
        BY <1>4, <2>1, <2>4, <4>1
      <4> QED BY <1>1, <1>5, <2>4, <4>2 DEF OnItsWay
    <3>4. CASE n # m
      BY <1>2, <3>2, <3>4 DEF OnItsWay
    <3> QED BY <3>3, <3>4
  <2> QED BY <2>3, <2>4
<1> QED BY <1>8, <1>9, <1>10 DEF WakeInv

LEMMA CanceledStep ==
  ASSUME WakeInv, Canceled
  PROVE  WakeInv'
<1>1. /\ canceling \in Nat /\ canceling > 0 /\ canceling' = canceling - 1
      /\ UNCHANGED <<situation, watch, stream, buffer, commits, publishing, evaluation, owed, missed>>
  BY DEF Canceled, WakeInv, WakeType
<1>2. WakeType'
  BY <1>1 DEF WakeInv, WakeType, Made, Commits
<1>3. Visibility'
  BY <1>1 DEF WakeInv, Visibility, Made, Commits, KeyOf
<1>4. CommitsReachTheWatch'
  BY <1>1 DEF WakeInv, CommitsReachTheWatch, Live
<1> QED BY <1>2, <1>3, <1>4 DEF WakeInv

(* The wakes are on their way at first, and every step keeps them so.      *)
LEMMA WakeInductive ==
  /\ WatchInit => WakeInv
  /\ LookupInv /\ WakeInv /\ [WatchNext]_watchVars => WakeInv'
<1>1. ASSUME WatchInit PROVE WakeInv
  <2>1. /\ situation \in Situations /\ situation.commits \in Nat /\ Len(commits) = 0
        /\ commits = <<>> /\ commits \in Seq(SUBSET Keys) /\ <<>> \in Seq(Made)
    BY <1>1, Constants DEF WatchInit
  <2>2. WakeType
    BY <1>1, <2>1 DEF WatchInit, WakeType, Streams, NoStream
  <2>3. Visibility
    BY <1>1 DEF WatchInit, Visibility, NoStream
  <2>4. CommitsReachTheWatch
    BY <1>1 DEF WatchInit, CommitsReachTheWatch, Live, NoWatch
  <2> QED BY <2>2, <2>3, <2>4 DEF WakeInv
<1>2. ASSUME LookupInv, WakeInv, [WatchNext]_watchVars PROVE WakeInv'
  <2>1. LookupType
    BY <1>2 DEF LookupInv
  <2>2. CASE UNCHANGED watchVars
    <3>1. UNCHANGED <<situation, wakeVars, watch>>
      BY <2>2 DEF watchVars
    <3> QED BY <1>2, <3>1, WatchOnly DEF Live
  <2>3. CASE WatchNext
    <3>1. ASSUME NEW k \in Keys,
                 \/ Asks(k) \/ Reads(k) \/ Completes(k) \/ LookupTimesOut(k)
                 \/ Forbids(k) \/ Allows(k)
          PROVE  WakeInv'
      BY <1>2, <2>1, <3>1, WakesWaitOut
    <3>2. ASSUME NEW w \in Watchers,
                 \/ Authorizes(w) \/ Reauthorizes(w) \/ Joins(w)
                 \/ Refreshes(w) \/ RefreshTimesOut(w)
          PROVE  WakeInv'
      BY <1>2, <2>1, <3>2, WakesWaitOut
    <3>3. CASE Tick
      BY <1>2, <2>1, <3>3, WakesWaitOut
    <3>4. ASSUME NEW w \in Watchers, Starts(w)
          PROVE  WakeInv'
      BY <1>2, <2>1, <3>4, StartsStep
    <3>5. ASSUME NEW w \in Watchers, Closes(w) \/ HangsUp(w)
          PROVE  WakeInv'
      <4>1. Ends(w) /\ UNCHANGED <<situation, commits, publishing>>
        BY <3>5 DEF Closes, HangsUp, Ends
      <4> QED BY <1>2, <2>1, <4>1, EndsStep
    <3>6. ASSUME NEW w \in Watchers, SendsWake(w) \/ Pulls(w) \/ TimerFires(w) \/ TakesTick(w)
          PROVE  WakeInv'
      BY <1>2, <2>1, <3>6, SignalStep
    <3>7. ASSUME NEW w \in Watchers, TakesCommit(w)
          PROVE  WakeInv'
      BY <1>2, <2>1, <3>7, TakesCommitStep
    <3>8. ASSUME NEW ks \in SUBSET Keys, Commit(ks)
          PROVE  WakeInv'
      BY <1>2, <2>1, <3>8, CommitStep
    <3>9. ASSUME NEW m \in Commits, Publishes(m) \/ IsNotPublished(m)
          PROVE  WakeInv'
      BY <1>2, <2>1, <3>9, PublishesStep, IsNotPublishedStep
    <3>10. ASSUME NEW m \in Commits, NEW k \in Keys, Evaluated(m, k)
           PROVE  WakeInv'
      BY <1>2, <2>1, <3>10, EvaluatedStep
    <3>11. CASE Canceled
      BY <1>2, <3>11, CanceledStep
    <3> QED
      BY <2>3, <3>1, <3>2, <3>3, <3>4, <3>5, <3>6, <3>7, <3>8, <3>9, <3>10, <3>11
      DEF WatchNext
  <2> QED BY <1>2, <2>2, <2>3
<1> QED BY <1>1, <1>2

-----------------------------------------------------------------------------
(***************************************************************************)
(* The leases and the wakes are an invariant of the watches, for every     *)
(* instance: whatever the policy does, whoever watches, and whatever is    *)
(* committed, published or lost on the way.                                *)
(***************************************************************************)
THEOREM WatchInvariance == WatchSpec => []WatchInv
<1>1. WatchInit => WatchInv
  BY LookupInductive, WakeInductive DEF WatchInv
<1>2. WatchInv /\ [WatchNext]_watchVars => WatchInv'
  BY LookupInductive, WakeInductive DEF WatchInv
<1> QED BY <1>1, <1>2, PTL DEF WatchSpec

(***************************************************************************)
(* A watch whose key has not been allowed for three halves of the interval *)
(* holds no success any more: it closes, or is about to.                   *)
(***************************************************************************)
THEOREM RevokedCorrect == WatchSpec => []RevokedIsClosed
<1>1. WatchInv => RevokedIsClosed
  <2> SUFFICES ASSUME WatchInv, NEW w \in Watchers, since[KeyOf(w)] >= 3 * Half
               PROVE  watch[w].left = 0
    BY DEF RevokedIsClosed
  <2>1. /\ since[KeyOf(w)] \in Nat /\ watch[w].left \in Nat
        /\ watch[w].left > 0 => since[KeyOf(w)] + watch[w].left <= 3 * Half
    BY KeyIsKey DEF WatchInv, LookupInv, LookupType, Leases, Watches
  <2> QED BY <2>1, Constants
<1> QED BY <1>1, WatchInvariance, PTL

(***************************************************************************)
(* A commit that a live watch may see and has not been woken for is still  *)
(* being published, in the buffer of the watch, being evaluated, or the    *)
(* wake is next, unless it slid out of the buffer or its publication was   *)
(* interrupted.                                                            *)
(***************************************************************************)
THEOREM CommitsCorrect == WatchSpec => []CommitsReachTheWatch
<1>1. WatchInv => CommitsReachTheWatch
  BY DEF WatchInv, WakeInv
<1> QED BY <1>1, WatchInvariance, PTL

-----------------------------------------------------------------------------
(***************************************************************************)
(* The calls of a session.                                                 *)
(***************************************************************************)
(* What is no message, and an operation and a negotiation differ.          *)
LEMMA Messages ==
  /\ NoMessage \in Requests /\ NoMessage \in Responses
  /\ NoMessage.kind \notin Operations \cup Answers \cup {"Negotiate"}
  /\ "Negotiate" \notin Operations
  /\ Nobody # "rejected" /\ "unavailable" \in Results /\ NoVersion \in Agreements
  /\ \A r \in Releases : r \in SUBSET Nat
  BY SessionAssumption
  DEF SessionAssumption, NoMessage, Requests, Results, Responses, Operations, Answers, NoVersion,
      Agreements, Versions

(* An ended call is a call, and is explained unless it was rejected.       *)
LEMMA EndedIsCall ==
  ASSUME NEW k \in Calls, NEW outcome \in Results
  PROVE  /\ Ended(k, outcome) \in Calls
         /\ Ended(k, outcome) = [k EXCEPT !.phase = "done", !.outcome = outcome]
         /\ Ended(k, outcome).phase = "done" /\ Ended(k, outcome).outcome = outcome
         /\ Ended(k, outcome).version = k.version /\ Ended(k, outcome).retry = k.retry
         /\ Ended(k, outcome).rejected = k.rejected /\ Ended(k, outcome).last = k.last
  BY DEF Ended, Calls, Phases, Results

(* A step of one caller, with the connection as it is.                     *)
LEMMA OneCaller ==
  ASSUME SessionInv, NEW c \in Callers, UNCHANGED <<socket, credential>>,
         routes' \in {routes, routes \cup {c}, routes \ {c}},
         request' \in [Callers -> Requests], reply' \in [Callers -> Responses],
         call' \in [Callers -> Calls], selected' \in Agreements,
         Remembered', CallInv(c)',
         \A d \in Callers \ {c} :
           request'[d] = request[d] /\ reply'[d] = reply[d] /\ call'[d] = call[d]
  PROVE  SessionInv'
<1>1. SessionTypeInv'
  BY DEF SessionInv, SessionTypeInv
<1>2. ASSUME NEW d \in Callers, d # c
      PROVE  CallInv(d)'
  <2>1. /\ CallInv(d) /\ (d \in routes' <=> d \in routes)
        /\ request'[d] = request[d] /\ reply'[d] = reply[d] /\ call'[d] = call[d]
    BY <1>2 DEF SessionInv
  <2>2. Routed(d)'
    BY <2>1 DEF CallInv, Routed
  <2>3. AnswersAgree(d)'
    BY <2>1 DEF CallInv, AnswersAgree, Shared, Connected
  <2>4. SecondAttempt(d)'
    BY <2>1 DEF CallInv, SecondAttempt, Connected
  <2>5. Explained(d)'
    BY <2>1 DEF CallInv, Explained
  <2> QED BY <2>2, <2>3, <2>4, <2>5 DEF CallInv
<1> QED BY <1>1, <1>2 DEF SessionInv

(* A version that is remembered stays agreed on as long as the connection. *)
LEMMA Remains ==
  ASSUME Remembered, UNCHANGED socket, selected' \in {selected, NoVersion}
  PROVE  Remembered'
  BY DEF Remembered, Shared, Connected

(* A call has ended: neither its request nor an answer matters.            *)
LEMMA EndedCall ==
  ASSUME NEW c \in Callers, request'[c] = NoMessage, reply'[c] = NoMessage,
         call'[c].phase = "done", Explained(c)'
  PROVE  CallInv(c)'
<1>1. NoMessage.kind \notin Operations \cup {"version", "rejected"}
  BY DEF NoMessage, Operations
<1> QED BY <1>1 DEF CallInv, Routed, AnswersAgree, SecondAttempt

(* The requests of a connection fail with it: their calls have ended, and  *)
(* what the others agreed on is not of the next connection.                *)
LEMMA FailsStep ==
  ASSUME SessionInv, FailsCurrentSocket, UNCHANGED credential,
         socket' \in [state : {"down"}, number : {socket.number}, release : SUBSET Nat]
  PROVE  SessionInv'
<1>1. /\ call' = [c \in Callers |-> IF c \in routes THEN Ended(call[c], "unavailable") ELSE call[c]]
      /\ routes' = routes \ routes /\ selected' = selected
      /\ request' = [c \in Callers |-> IF c \in routes THEN NoMessage ELSE request[c]]
      /\ reply' = [c \in Callers |-> IF c \in routes THEN NoMessage ELSE reply[c]]
  BY DEF FailsCurrentSocket, Failed, Forgets
<1>2. /\ ~ Connected' /\ socket'.number = socket.number
      /\ socket' \in [state : {"down", "up", "silent", "off"}, number : Nat, release : SUBSET Nat]
  BY DEF Connected, SessionInv, SessionTypeInv
<1>3. \A c \in Callers : call[c] \in Calls /\ call'[c] \in {call[c], Ended(call[c], "unavailable")}
  BY <1>1 DEF SessionInv, SessionTypeInv
<1>4. SessionTypeInv'
  <2>1. call' \in [Callers -> Calls]
    BY <1>1, <1>3, EndedIsCall, Messages
  <2>2. request' \in [Callers -> Requests] /\ reply' \in [Callers -> Responses]
    <3>1. NoMessage \in Requests /\ NoMessage \in Responses
      BY Messages
    <3>2. request \in [Callers -> Requests] /\ reply \in [Callers -> Responses]
      BY DEF SessionInv, SessionTypeInv
    <3> QED BY <1>1, <3>1, <3>2
  <2> QED BY <1>1, <1>2, <2>1, <2>2 DEF SessionInv, SessionTypeInv
<1>5. Remembered'
  BY <1>1, <1>2 DEF SessionInv, Remembered, Shared
<1>6. ASSUME NEW c \in Callers
      PROVE  CallInv(c)'
  <2>1. request'[c] = NoMessage /\ reply'[c] = NoMessage
    BY <1>1 DEF SessionInv, CallInv, Routed
  <2>2. CASE c \in routes
    <3>1. call'[c].phase = "done" /\ call'[c].outcome = "unavailable"
      <4>1. call'[c] = Ended(call[c], "unavailable") /\ call[c] \in Calls
        BY <1>1, <1>3, <2>2
      <4>2. "unavailable" \in Results
        BY DEF Results
      <4>3. /\ Ended(call[c], "unavailable").phase = "done"
            /\ Ended(call[c], "unavailable").outcome = "unavailable"
        BY <4>1, <4>2, EndedIsCall
      <4> QED BY <4>1, <4>3
    <3>2. Explained(c)'
      BY <3>1 DEF Explained
    <3> QED BY <2>1, <3>1, <3>2, EndedCall
  <2>3. CASE c \notin routes
    <3>1. CallInv(c) /\ call'[c] = call[c]
      BY <1>1, <2>3 DEF SessionInv
    <3>2. NoMessage.kind \notin Operations \cup {"version", "rejected"}
      BY DEF NoMessage, Operations
    <3>3. Routed(c)'
      BY <2>1, <3>2 DEF Routed
    <3>4. AnswersAgree(c)'
      BY <1>2, <2>1, <3>1, <3>2 DEF CallInv, AnswersAgree, Shared
    <3>5. SecondAttempt(c)'
      BY <1>2, <3>1 DEF CallInv, SecondAttempt
    <3>6. Explained(c)'
      BY <1>1, <3>1 DEF CallInv, Explained
    <3> QED BY <3>3, <3>4, <3>5, <3>6 DEF CallInv
  <2> QED BY <2>2, <2>3
<1> QED BY <1>4, <1>5, <1>6 DEF SessionInv

(* The connection: a new one, the loss of one, and a server that is gone.  *)
LEMMA ConnectionStep ==
  ASSUME SessionInv,
         Connects \/ DialFails \/ ConnectionIsLost \/ PeerVanishes \/ PingTimesOut
  PROVE  SessionInv'
<1>1. socket \in [state : {"down", "up", "silent", "off"}, number : Nat, release : SUBSET Nat]
  BY DEF SessionInv, SessionTypeInv
<1>2. CASE Connects
  <2>1. PICK r \in Releases : socket' = [state |-> "up", number |-> socket.number + 1, release |-> r]
    BY <1>2 DEF Connects
  <2>2. /\ ~ Connected /\ socket'.number = socket.number + 1 /\ socket.number \in Nat
        /\ socket' \in [state : {"down", "up", "silent", "off"}, number : Nat, release : SUBSET Nat]
    BY <1>1, <1>2, <2>1, Messages DEF Connects, Connected
  <2>3. UNCHANGED <<routes, request, reply, call, selected, credential>>
    BY <1>2 DEF Connects, clientVars
  <2>4. SessionTypeInv'
    BY <2>2, <2>3 DEF SessionInv, SessionTypeInv
  <2>5. \A v \in Agreements : Shared(v) => Shared(v)'
    BY <2>2 DEF Shared, Agreements
  <2>6. Remembered'
    BY <2>3, <2>5 DEF SessionInv, SessionTypeInv, Remembered
  <2>7. ASSUME NEW c \in Callers
        PROVE  CallInv(c)'
    <3>1. CallInv(c) /\ call[c] \in Calls
      BY DEF SessionInv, SessionTypeInv
    <3>2. Routed(c)' /\ Explained(c)'
      BY <2>3, <3>1 DEF CallInv, Routed, Explained
    <3>3. AnswersAgree(c)'
      BY <2>2, <2>3, <2>5, <3>1 DEF CallInv, AnswersAgree, Calls
    <3>4. SecondAttempt(c)'
      <4>1. call[c].rejected.on \in Nat
        BY <3>1 DEF Calls, Agreements
      <4> QED BY <2>2, <2>3, <3>1, <4>1 DEF CallInv, SecondAttempt
    <3> QED BY <3>2, <3>3, <3>4 DEF CallInv
  <2> QED BY <2>4, <2>6, <2>7 DEF SessionInv
<1>3. CASE DialFails
  <2>1. socket' = socket /\ socket.state = "down" /\ credential' = credential
    BY <1>3 DEF DialFails
  <2>2. socket' \in [state : {"down"}, number : {socket.number}, release : SUBSET Nat]
    BY <1>1, <2>1
  <2>3. CASE FailsCurrentSocket
    BY <2>1, <2>2, <2>3, FailsStep
  <2>4. CASE ~ FailsCurrentSocket
    BY <1>3, <2>1, <2>4
    DEF DialFails, clientVars, SessionInv, SessionTypeInv, Remembered, CallInv, Routed,
        AnswersAgree, SecondAttempt, Explained, Shared, Connected
  <2> QED BY <2>3, <2>4
<1>4. CASE ConnectionIsLost \/ PingTimesOut
  <2>1. Breaks
    BY <1>4 DEF ConnectionIsLost, PingTimesOut
  <2>2. socket' \in [state : {"down"}, number : {socket.number}, release : SUBSET Nat]
    BY <1>1, <2>1 DEF Breaks
  <2> QED BY <2>1, <2>2, FailsStep DEF Breaks
<1>5. CASE PeerVanishes
  <2>1. /\ socket' \in [state : {"down", "up", "silent", "off"}, number : Nat, release : SUBSET Nat]
        /\ socket'.number = socket.number /\ socket'.release = socket.release
        /\ Connected /\ Connected'
    BY <1>1, <1>5 DEF PeerVanishes, Connected
  <2>2. /\ UNCHANGED <<routes, call, selected, credential>>
        /\ request' = [c \in Callers |-> NoMessage] /\ reply' = [c \in Callers |-> NoMessage]
    BY <1>5 DEF PeerVanishes, clientVars
  <2>3. SessionTypeInv'
    BY <2>1, <2>2, Messages DEF SessionInv, SessionTypeInv
  <2>4. Remembered'
    BY <2>1, <2>2 DEF SessionInv, Remembered, Shared
  <2>5. ASSUME NEW c \in Callers
        PROVE  CallInv(c)'
    <3>1. NoMessage.kind \notin Operations \cup {"version", "rejected"}
      BY DEF NoMessage, Operations
    <3>2. request'[c] = NoMessage /\ reply'[c] = NoMessage /\ call'[c] = call[c] /\ CallInv(c)
      BY <2>2 DEF SessionInv
    <3>3. Routed(c)' /\ Explained(c)'
      BY <2>2, <3>1, <3>2 DEF CallInv, Routed, Explained
    <3>4. AnswersAgree(c)'
      BY <2>1, <3>1, <3>2 DEF CallInv, AnswersAgree, Shared
    <3>5. SecondAttempt(c)'
      BY <2>1, <3>2 DEF CallInv, SecondAttempt
    <3> QED BY <3>3, <3>4, <3>5 DEF CallInv
  <2> QED BY <2>3, <2>4, <2>5 DEF SessionInv
<1> QED BY <1>2, <1>3, <1>4, <1>5

(* A call goes out with a version that was agreed on, for the second time  *)
(* with another one or over another connection, or fails at once.          *)
LEMMA GoesStep ==
  ASSUME SessionInv, NEW c \in Callers, NEW v \in Agreements, Shared(v), Goes(c, v),
         UNCHANGED <<socket, credential>>, selected' \in {selected, v},
         call[c].phase \in {"version", "again", "negotiating"},
         call[c].retry => /\ call[c].rejected.on <= socket.number
                          /\ \/ v.version # call[c].rejected.version
                             \/ call[c].rejected.on # socket.number
  PROVE  SessionInv'
<1>1. /\ call \in [Callers -> Calls] /\ call[c] \in Calls /\ CallInv(c) /\ credential \in Nat
      /\ request \in [Callers -> Requests] /\ reply \in [Callers -> Responses]
      /\ selected \in Agreements
  BY DEF SessionInv, SessionTypeInv
<1>2. Remembered' /\ selected' \in Agreements
  BY <1>1 DEF SessionInv, Remembered, Shared, Connected
<1>3. Shared(v)'
  BY DEF Shared, Connected
<1>4. CASE refusing
  <2> DEFINE k == [call[c] EXCEPT !.version = v]
  <2>1. k \in Calls
    BY <1>1 DEF Calls
  <2>2. call' = [call EXCEPT ![c] = Ended(k, "unavailable")]
        /\ UNCHANGED <<routes, request, reply>>
    BY <1>4 DEF Goes, SendsNothing
  <2> HIDE DEF k
  <2>3. "unavailable" \in Results
    BY DEF Results
  <2>4. /\ Ended(k, "unavailable") \in Calls
        /\ Ended(k, "unavailable").phase = "done" /\ Ended(k, "unavailable").outcome = "unavailable"
    BY <2>1, <2>3, EndedIsCall
  <2>5. /\ call' \in [Callers -> Calls] /\ \A d \in Callers \ {c} : call'[d] = call[d]
        /\ call'[c].phase = "done" /\ call'[c].outcome = "unavailable"
    BY <1>1, <2>2, <2>4
  <2>6. request[c].kind \notin Operations /\ reply[c].kind # "rejected"
    BY <1>1 DEF CallInv, Routed, AnswersAgree
  <2>7. CallInv(c)'
    <3>1. Routed(c)'
      BY <1>1, <2>2, <2>6 DEF CallInv, Routed
    <3>2. AnswersAgree(c)'
      BY <1>1, <2>2, <2>5, <2>6 DEF CallInv, AnswersAgree, Connected
    <3>3. SecondAttempt(c)' /\ Explained(c)'
      BY <2>5 DEF SecondAttempt, Explained
    <3> QED BY <3>1, <3>2, <3>3 DEF CallInv
  <2> QED BY <1>1, <1>2, <2>2, <2>5, <2>7, OneCaller
<1>5. CASE ~ refusing
  <2> DEFINE message == [kind |-> call[c].op, version |-> v.version, generation |-> credential]
             k == [call[c] EXCEPT !.phase = "sent", !.version = v]
  <2>1. /\ call' = [call EXCEPT ![c] = k] /\ routes' = routes \cup {c}
        /\ request' = [request EXCEPT ![c] = message] /\ reply' = [reply EXCEPT ![c] = NoMessage]
    BY <1>5 DEF Goes, Sends
  <2>2. /\ k \in Calls /\ k.phase = "sent" /\ k.version = v /\ k.retry = call[c].retry
        /\ k.rejected = call[c].rejected /\ k.outcome = call[c].outcome
    BY <1>1 DEF Calls, Phases
  <2>3. message \in Requests /\ message.version = v.version
    BY <1>1 DEF Requests, Calls, Agreements
  <2> HIDE DEF message, k
  <2>4. NoMessage \in Responses /\ NoMessage.kind \notin Operations \cup {"version", "rejected"}
    BY Messages DEF NoMessage, Operations
  <2>5. /\ call' \in [Callers -> Calls] /\ call'[c] = k
        /\ request' \in [Callers -> Requests] /\ request'[c] = message
        /\ reply' \in [Callers -> Responses] /\ reply'[c] = NoMessage
        /\ \A d \in Callers \ {c} :
             request'[d] = request[d] /\ reply'[d] = reply[d] /\ call'[d] = call[d]
    BY <1>1, <2>1, <2>2, <2>3, <2>4
  <2>6. CallInv(c)'
    <3>1. Routed(c)'
      BY <2>1, <2>2, <2>3, <2>5 DEF Routed
    <3>2. AnswersAgree(c)'
      <4>1. Shared(call[c].version)'
        BY <1>3, <2>2, <2>5 DEF Shared, Connected
      <4> QED BY <2>4, <2>5, <4>1 DEF AnswersAgree
    <3>3. SecondAttempt(c)'
      BY <2>2, <2>5 DEF SecondAttempt
    <3>4. Explained(c)'
      BY <1>1, <2>2, <2>5 DEF CallInv, Explained
    <3> QED BY <3>1, <3>2, <3>3, <3>4 DEF CallInv
  <2> QED BY <1>2, <2>1, <2>5, <2>6, OneCaller
<1> QED BY <1>4, <1>5

(* A call begins, or resumes with another credential.                      *)
LEMMA EntersStep ==
  ASSUME SessionInv, NEW c \in Callers, Enters(c, "version"),
         call[c].phase \in {"idle", "paused"}, UNCHANGED <<wireVars, selected, credential>>
  PROVE  SessionInv'
<1> DEFINE k == [call[c] EXCEPT !.phase = "version"]
<1>1. /\ call \in [Callers -> Calls] /\ call[c] \in Calls /\ CallInv(c)
      /\ request \in [Callers -> Requests] /\ reply \in [Callers -> Responses]
      /\ selected \in Agreements /\ Remembered
  BY DEF SessionInv, SessionTypeInv
<1>2. UNCHANGED <<socket, routes, request, reply, selected, credential>>
  BY DEF wireVars
<1>3. call' = [call EXCEPT ![c] = k]
  BY DEF Enters
<1>4. /\ k \in Calls /\ k.phase = "version" /\ k.retry = call[c].retry /\ k.outcome = call[c].outcome
  BY <1>1 DEF Calls, Phases
<1> HIDE DEF k
<1>5. /\ call' \in [Callers -> Calls] /\ call'[c] = k
      /\ \A d \in Callers \ {c} : call'[d] = call[d]
  BY <1>1, <1>3, <1>4
<1>6. ~ call[c].retry /\ request[c].kind \notin Operations /\ reply[c].kind # "rejected"
  BY <1>1 DEF CallInv, Routed, AnswersAgree, SecondAttempt
<1>7. CallInv(c)'
  <2>1. Routed(c)'
    BY <1>1, <1>2, <1>6 DEF CallInv, Routed
  <2>2. AnswersAgree(c)'
    BY <1>1, <1>2, <1>4, <1>5, <1>6 DEF CallInv, AnswersAgree, Connected
  <2>3. SecondAttempt(c)'
    BY <1>4, <1>5, <1>6 DEF SecondAttempt
  <2>4. Explained(c)'
    BY <1>1, <1>4, <1>5 DEF CallInv, Explained
  <2> QED BY <2>1, <2>2, <2>3, <2>4 DEF CallInv
<1>8. Remembered'
  BY <1>1, <1>2, Remains
<1> QED BY <1>1, <1>2, <1>5, <1>7, <1>8, OneCaller

(* The remembered version is used: for a second attempt it is not the one  *)
(* that was rejected.                                                      *)
LEMMA UsesVersionStep ==
  ASSUME SessionInv, NEW c \in Callers, UsesVersion(c)
  PROVE  SessionInv'
<1>1. /\ call[c] \in Calls /\ CallInv(c) /\ selected \in Agreements /\ Remembered
  BY DEF SessionInv, SessionTypeInv
<1>2. /\ Cached(c) # NoVersion /\ call[c].phase \in {"version", "again"} /\ Goes(c, Cached(c))
      /\ UNCHANGED <<socket, selected, credential>>
  BY DEF UsesVersion
<1>3. /\ Cached(c) = selected
      /\ call[c].phase = "again" => selected.version # call[c].version.version
  BY <1>2 DEF Cached
<1>4. Shared(selected)
  BY <1>1, <1>2, <1>3 DEF Remembered
<1>5. call[c].retry => /\ call[c].rejected.on <= socket.number
                       /\ selected.version # call[c].rejected.version
  BY <1>1, <1>2, <1>3 DEF CallInv, SecondAttempt
<1>6. Goes(c, selected)
  BY <1>2, <1>3
<1> QED BY <1>1, <1>2, <1>4, <1>5, <1>6, GoesStep

(* A call ends, and its route goes.                                        *)
LEMMA CallEnds ==
  ASSUME SessionInv, NEW c \in Callers, NEW outcome \in Results \ {"rejected"},
         call' = Failed({c}, outcome), Forgets({c}), UNCHANGED <<socket, credential>>,
         selected' \in {selected, NoVersion}
  PROVE  SessionInv'
<1>1. /\ call \in [Callers -> Calls] /\ call[c] \in Calls
      /\ request \in [Callers -> Requests] /\ reply \in [Callers -> Responses]
      /\ selected \in Agreements /\ Remembered
      /\ NoMessage \in Requests /\ NoMessage \in Responses /\ NoVersion \in Agreements
  BY Messages DEF SessionInv, SessionTypeInv
<1>2. /\ Ended(call[c], outcome) \in Calls
      /\ Ended(call[c], outcome).phase = "done" /\ Ended(call[c], outcome).outcome = outcome
  BY <1>1, EndedIsCall
<1>3. /\ call' \in [Callers -> Calls] /\ call'[c] = Ended(call[c], outcome)
      /\ \A d \in Callers \ {c} : call'[d] = call[d]
  BY <1>1, <1>2 DEF Failed
<1>4. /\ routes' = routes \ {c}
      /\ request' \in [Callers -> Requests] /\ request'[c] = NoMessage
      /\ reply' \in [Callers -> Responses] /\ reply'[c] = NoMessage
      /\ \A d \in Callers \ {c} : request'[d] = request[d] /\ reply'[d] = reply[d]
  BY <1>1 DEF Forgets
<1>5. CallInv(c)'
  <2>1. call'[c].phase = "done" /\ Explained(c)'
    BY <1>2, <1>3 DEF Explained
  <2> QED BY <1>4, <2>1, EndedCall
<1>6. Remembered' /\ selected' \in Agreements
  BY <1>1, Remains
<1> QED BY <1>3, <1>4, <1>5, <1>6, OneCaller

LEMMA NegotiatesStep ==
  ASSUME SessionInv, NEW c \in Callers, Negotiates(c)
  PROVE  SessionInv'
<1>1. /\ call \in [Callers -> Calls] /\ call[c] \in Calls /\ CallInv(c) /\ credential \in Nat
      /\ request \in [Callers -> Requests] /\ reply \in [Callers -> Responses]
      /\ selected \in Agreements /\ Remembered /\ NoVersion \in Agreements
  BY Messages DEF SessionInv, SessionTypeInv
<1>2. /\ call[c].phase \in {"version", "again"} /\ selected' = NoVersion
      /\ UNCHANGED <<socket, refusing, credential>>
  BY DEF Negotiates
<1>3. Remembered' /\ selected' \in Agreements
  BY <1>1, <1>2 DEF Remembered
<1>4. request[c].kind \notin Operations /\ reply[c].kind # "rejected"
  BY <1>1, <1>2 DEF CallInv, Routed, AnswersAgree
<1>5. CASE refusing
  <2>1. call' = [call EXCEPT ![c] = Ended(call[c], "unavailable")]
        /\ UNCHANGED <<routes, request, reply>>
    BY <1>5 DEF Negotiates, SendsNothing
  <2>2. "unavailable" \in Results
    BY DEF Results
  <2>3. /\ Ended(call[c], "unavailable") \in Calls
        /\ Ended(call[c], "unavailable").phase = "done"
        /\ Ended(call[c], "unavailable").outcome = "unavailable"
    BY <1>1, <2>2, EndedIsCall
  <2>4. /\ call' \in [Callers -> Calls] /\ \A d \in Callers \ {c} : call'[d] = call[d]
        /\ call'[c].phase = "done" /\ call'[c].outcome = "unavailable"
    BY <1>1, <2>1, <2>3
  <2>5. CallInv(c)'
    <3>1. Routed(c)'
      BY <1>1, <1>4, <2>1 DEF CallInv, Routed
    <3>2. AnswersAgree(c)'
      BY <1>1, <1>2, <1>4, <2>1, <2>4 DEF CallInv, AnswersAgree, Connected
    <3>3. SecondAttempt(c)' /\ Explained(c)'
      BY <2>4 DEF SecondAttempt, Explained
    <3> QED BY <3>1, <3>2, <3>3 DEF CallInv
  <2> QED BY <1>1, <1>2, <1>3, <2>1, <2>4, <2>5, OneCaller
<1>6. CASE ~ refusing
  <2> DEFINE message == [kind |-> "Negotiate", version |-> Nobody, generation |-> credential]
             k == [call[c] EXCEPT !.phase = "negotiating"]
  <2>1. /\ call' = [call EXCEPT ![c] = k] /\ routes' = routes \cup {c}
        /\ request' = [request EXCEPT ![c] = message] /\ reply' = [reply EXCEPT ![c] = NoMessage]
    BY <1>6 DEF Negotiates, Sends
  <2>2. /\ k \in Calls /\ k.phase = "negotiating" /\ k.retry = call[c].retry
        /\ k.rejected = call[c].rejected /\ k.outcome = call[c].outcome
    BY <1>1 DEF Calls, Phases
  <2>3. message \in Requests /\ message.kind \notin Operations
    BY <1>1 DEF Requests, Versions, Operations
  <2> HIDE DEF message, k
  <2>4. NoMessage \in Responses /\ NoMessage.kind \notin {"version", "rejected"}
    BY Messages DEF NoMessage
  <2>5. /\ call' \in [Callers -> Calls] /\ call'[c] = k
        /\ request' \in [Callers -> Requests] /\ request'[c] = message
        /\ reply' \in [Callers -> Responses] /\ reply'[c] = NoMessage
        /\ \A d \in Callers \ {c} :
             request'[d] = request[d] /\ reply'[d] = reply[d] /\ call'[d] = call[d]
    BY <1>1, <2>1, <2>2, <2>3, <2>4
  <2>6. CallInv(c)'
    <3>1. Routed(c)'
      BY <2>1, <2>3, <2>5 DEF Routed
    <3>2. AnswersAgree(c)'
      BY <2>2, <2>4, <2>5 DEF AnswersAgree
    <3>3. SecondAttempt(c)'
      BY <1>1, <1>2, <2>2, <2>5 DEF CallInv, SecondAttempt, Connected
    <3>4. Explained(c)'
      BY <1>1, <1>2, <2>2, <2>5 DEF CallInv, Explained
    <3> QED BY <3>1, <3>2, <3>3, <3>4 DEF CallInv
  <2> QED BY <1>2, <1>3, <2>1, <2>5, <2>6, OneCaller
<1> QED BY <1>5, <1>6

(* An answer takes the place of a request, or follows one that was taken:  *)
(* it is a version or a rejection only if the release says so.             *)
LEMMA AnswerStep ==
  ASSUME SessionInv, NEW c \in Callers, c \in routes,
         UNCHANGED <<socket, routes, call, selected, credential>>,
         request' \in {request, [request EXCEPT ![c] = NoMessage]}, request'[c] = NoMessage,
         NEW answer \in Responses, reply' = [reply EXCEPT ![c] = answer],
         answer.kind = "version" => Connected /\ answer.version \in socket.release,
         answer.kind = "rejected" =>
           /\ Connected /\ call[c].phase = "sent"
           /\ call[c].version.version \notin socket.release
  PROVE  SessionInv'
<1>1. /\ call \in [Callers -> Calls] /\ CallInv(c) /\ selected \in Agreements /\ Remembered
      /\ request \in [Callers -> Requests] /\ reply \in [Callers -> Responses]
      /\ NoMessage \in Requests
  BY Messages DEF SessionInv, SessionTypeInv
<1>2. /\ request' \in [Callers -> Requests]
      /\ reply' \in [Callers -> Responses] /\ reply'[c] = answer
      /\ \A d \in Callers \ {c} : request'[d] = request[d] /\ reply'[d] = reply[d]
  BY <1>1
<1>3. CallInv(c)'
  <2>1. NoMessage.kind \notin Operations
    BY DEF NoMessage, Operations
  <2>2. Routed(c)'
    BY <2>1 DEF Routed
  <2>3. AnswersAgree(c)'
    BY <1>1, <1>2 DEF CallInv, AnswersAgree, Shared, Connected
  <2>4. SecondAttempt(c)' /\ Explained(c)'
    BY <1>1 DEF CallInv, SecondAttempt, Explained, Connected
  <2> QED BY <2>2, <2>3, <2>4 DEF CallInv
<1>4. Remembered'
  BY <1>1, Remains
<1> QED BY <1>1, <1>2, <1>3, <1>4, OneCaller

(* The server takes a request, without an answer for now.                  *)
LEMMA TakesStep ==
  ASSUME SessionInv, NEW c \in Callers, Takes(c),
         UNCHANGED <<socket, routes, reply, call, selected, credential>>
  PROVE  SessionInv'
<1>1. /\ call \in [Callers -> Calls] /\ CallInv(c) /\ selected \in Agreements /\ Remembered
      /\ request \in [Callers -> Requests] /\ reply \in [Callers -> Responses]
      /\ NoMessage \in Requests
  BY Messages DEF SessionInv, SessionTypeInv
<1>2. /\ request' \in [Callers -> Requests] /\ request'[c] = NoMessage
      /\ \A d \in Callers \ {c} : request'[d] = request[d]
  BY <1>1 DEF Takes
<1>3. CallInv(c)'
  <2>1. NoMessage.kind \notin Operations
    BY DEF NoMessage, Operations
  <2>2. Routed(c)'
    BY <1>1, <1>2, <2>1 DEF CallInv, Routed
  <2>3. AnswersAgree(c)'
    BY <1>1 DEF CallInv, AnswersAgree, Shared, Connected
  <2>4. SecondAttempt(c)' /\ Explained(c)'
    BY <1>1 DEF CallInv, SecondAttempt, Explained, Connected
  <2> QED BY <2>2, <2>3, <2>4 DEF CallInv
<1>4. Remembered'
  BY <1>1, Remains
<1> QED BY <1>1, <1>2, <1>3, <1>4, OneCaller

(* The front of the server, and the space behind it.                       *)
LEMMA ReceivesStep ==
  ASSUME SessionInv, NEW c \in Callers, Receives(c)
  PROVE  SessionInv'
<1>1. /\ socket.state = "up" /\ request[c] # NoMessage
      /\ UNCHANGED <<socket, routes, call, selected, credential>>
      /\ Fronts(c) \/ (Passes(c) /\ (Queues(c) \/ Prepares(c) \/ Watched(c)))
  BY DEF Receives, clientVars
<1>2. /\ request \in [Callers -> Requests] /\ reply \in [Callers -> Responses] /\ CallInv(c)
      /\ Connected
  BY <1>1 DEF SessionInv, SessionTypeInv, Connected
<1>3. /\ c \in routes
      /\ request[c] \in [kind : Operations \cup {"Negotiate"}, version : Versions, generation : Nat]
  BY <1>1, <1>2 DEF CallInv, Routed, Requests
<1>4. \A kind \in Answers, v \in Versions :
        /\ Answer(c, kind, v) \in Responses
        /\ Answer(c, kind, v).kind = kind /\ Answer(c, kind, v).version = v
  BY <1>3 DEF Answer, Responses
<1>5. Nobody \in Versions
  BY DEF Versions
<1>6. Takes(c) => /\ request' \in {request, [request EXCEPT ![c] = NoMessage]}
                  /\ request'[c] = NoMessage
  BY <1>2 DEF Takes
<1>7. ASSUME NEW kind \in Answers \ {"version"}, Replies(c, kind),
             kind = "rejected" => /\ call[c].phase = "sent"
                                  /\ call[c].version.version \notin socket.release
      PROVE  SessionInv'
  <2> DEFINE answer == Answer(c, kind, Nobody)
  <2>1. /\ answer \in Responses /\ answer.kind = kind
        /\ Takes(c) /\ reply' = [reply EXCEPT ![c] = answer]
    BY <1>4, <1>5, <1>7 DEF Replies
  <2> HIDE DEF answer
  <2> QED BY <1>1, <1>2, <1>3, <1>6, <1>7, <2>1, AnswerStep
<1>8. CASE Fronts(c)
  <2>1. CASE request[c].kind = "Negotiate" /\ Takes(c) /\ Common = {}
             /\ reply' = [reply EXCEPT ![c] = Answer(c, "upgrade", Nobody)]
    <3>1. Replies(c, "upgrade") /\ "upgrade" \in Answers \ {"version"}
      BY <2>1 DEF Replies, Answers
    <3> QED BY <1>7, <3>1
  <2>2. ASSUME NEW v \in Common, Takes(c), reply' = [reply EXCEPT ![c] = Answer(c, "version", v)]
        PROVE  SessionInv'
    <3>1. v \in socket.release /\ v \in Versions /\ "version" \in Answers
      BY SessionAssumption DEF Common, SessionAssumption, Versions, Answers
    <3> DEFINE answer == Answer(c, "version", v)
    <3>2. /\ answer \in Responses /\ answer.kind = "version" /\ answer.version = v
          /\ reply' = [reply EXCEPT ![c] = answer]
      BY <1>4, <2>2, <3>1
    <3> HIDE DEF answer
    <3> QED BY <1>1, <1>2, <1>3, <1>6, <2>2, <3>1, <3>2, AnswerStep
  <2>3. CASE Replies(c, "credential")
    <3>1. "credential" \in Answers \ {"version"}
      BY DEF Answers
    <3> QED BY <1>7, <2>3, <3>1
  <2>4. CASE /\ request[c].kind # "Negotiate" /\ request[c].version \notin socket.release
             /\ Replies(c, "rejected")
    <3>1. "rejected" \in Answers \ {"version"}
      BY DEF Answers
    <3>2. request[c].kind \in Operations
      BY <1>3, <2>4
    <3>3. call[c].phase = "sent" /\ call[c].version.version \notin socket.release
      BY <1>2, <2>4, <3>2 DEF CallInv, Routed
    <3> QED BY <1>7, <2>4, <3>1, <3>3
  <2> QED BY <1>8, <2>1, <2>2, <2>3, <2>4 DEF Fronts
<1>9. CASE Queues(c)
  BY <1>1, <1>9, TakesStep DEF Queues
<1>10. CASE Prepares(c)
  <2>1. "capacity" \in Answers \ {"version"}
    BY DEF Answers
  <2>2. CASE Replies(c, "capacity")
    BY <1>7, <2>1, <2>2
  <2>3. CASE Takes(c) /\ UNCHANGED reply
    BY <1>1, <2>3, TakesStep
  <2> QED BY <1>10, <2>2, <2>3 DEF Prepares
<1>11. CASE Watched(c)
  <2>1. "open" \in Answers \ {"version"}
    BY DEF Answers
  <2> QED BY <1>7, <1>11, <2>1 DEF Watched
<1> QED BY <1>1, <1>8, <1>9, <1>10, <1>11

(* The space answers a call that still waits.                              *)
LEMMA ServedStep ==
  ASSUME SessionInv, NEW c, NEW outcome \in Outcomes, Served(c, outcome),
         UNCHANGED <<socket, routes, request, call, selected, credential>>
  PROVE  SessionInv'
<1> DEFINE answer == [kind |-> outcome, version |-> Nobody, generation |-> 0]
<1>1. answer \in Responses /\ answer.kind \notin {"version", "rejected"}
  BY DEF Outcomes, Responses, Answers, Versions
<1>2. CASE c \in routes /\ request[c] = NoMessage /\ reply' = [reply EXCEPT ![c] = answer]
  <2>1. c \in Callers
    BY <1>2 DEF SessionInv, SessionTypeInv
  <2> HIDE DEF answer
  <2> QED BY <1>1, <1>2, <2>1, AnswerStep
<1>3. CASE UNCHANGED reply
  BY <1>3
  DEF SessionInv, SessionTypeInv, Remembered, CallInv, Routed, AnswersAgree, SecondAttempt,
      Explained, Shared, Connected
<1> QED BY <1>2, <1>3 DEF Served

(* An answer reaches its call.                                             *)
LEMMA DeliversStep ==
  ASSUME SessionInv, NEW c \in Callers, Delivers(c)
  PROVE  SessionInv'
<1>1. /\ call \in [Callers -> Calls] /\ call[c] \in Calls /\ CallInv(c)
      /\ request \in [Callers -> Requests] /\ reply \in [Callers -> Responses]
      /\ selected \in Agreements /\ Remembered /\ socket.number \in Nat
      /\ NoMessage \in Requests /\ NoMessage \in Responses
  BY Messages DEF SessionInv, SessionTypeInv
<1>2. Delivered(c) /\ UNCHANGED <<socket, credential>>
  BY DEF Delivers
<1>3. NoMessage.kind \notin Operations \cup Answers
  BY Messages
<1>4. CASE Agreed(c)
  <2> DEFINE v == [version |-> reply[c].version, on |-> socket.number]
  <2>1. /\ call[c].phase = "negotiating" /\ reply[c].kind = "version"
        /\ selected' = v /\ Goes(c, v)
    BY <1>4 DEF Agreed
  <2>2. Connected /\ reply[c].version \in socket.release
    BY <1>1, <2>1 DEF CallInv, AnswersAgree
  <2>3. reply[c].version \in Versions
    BY <1>1, <1>3, <2>1 DEF Responses, NoMessage
  <2>4. v \in Agreements /\ v.version = reply[c].version /\ v.on = socket.number
    BY <1>1, <2>3 DEF Agreements
  <2>5. Shared(v)
    BY <1>1, <2>2, <2>4 DEF Shared
  <2> HIDE DEF v
  <2>6. call[c].retry => /\ call[c].rejected.on <= socket.number
                         /\ \/ v.version # call[c].rejected.version
                            \/ call[c].rejected.on # socket.number
    BY <1>1, <2>1, <2>2, <2>4 DEF CallInv, SecondAttempt
  <2> QED BY <1>2, <2>1, <2>4, <2>5, <2>6, GoesStep
\* A rejection, or a credential, of a call whose route goes.
<1>5. ASSUME NEW k \in Calls, call' = [call EXCEPT ![c] = k], Forgets({c}), UNCHANGED selected,
             \/ k.phase = "paused" /\ ~ k.retry /\ k.outcome # "rejected"
             \/ /\ k.phase = "again" /\ k.retry /\ k.rejected.version = k.version.version
                /\ k.rejected.on = socket.number /\ k.rejected.version \notin socket.release
                /\ k.outcome # "rejected"
             \/ /\ k.phase = "done" /\ k.version.on # k.last
                /\ \/ k.version.version # k.rejected.version
                   \/ k.rejected.on # k.last
      PROVE  SessionInv'
  <2>1. /\ call' \in [Callers -> Calls] /\ call'[c] = k
        /\ \A d \in Callers \ {c} : call'[d] = call[d]
    BY <1>1, <1>5
  <2>2. /\ routes' = routes \ {c}
        /\ request' \in [Callers -> Requests] /\ request'[c] = NoMessage
        /\ reply' \in [Callers -> Responses] /\ reply'[c] = NoMessage
        /\ \A d \in Callers \ {c} : request'[d] = request[d] /\ reply'[d] = reply[d]
    BY <1>1, <1>5 DEF Forgets
  <2>3. CallInv(c)'
    <3>1. NoMessage.kind \notin Operations \cup {"version", "rejected"}
      BY DEF NoMessage, Operations
    <3>2. Routed(c)' /\ AnswersAgree(c)'
      BY <1>5, <2>1, <2>2, <3>1 DEF Routed, AnswersAgree
    <3>3. SecondAttempt(c)'
      BY <1>1, <1>2, <1>5, <2>1 DEF SecondAttempt, Connected
    <3>4. Explained(c)'
      BY <1>5, <2>1, <2>2 DEF Explained
    <3> QED BY <3>2, <3>3, <3>4 DEF CallInv
  <2>4. Remembered'
    BY <1>1, <1>2, <1>5, Remains
  <2> QED BY <1>1, <1>2, <1>5, <2>1, <2>2, <2>3, <2>4, OneCaller
<1>6. CASE reply[c].kind = "rejected" /\ Forgets({c}) /\ UNCHANGED selected
           /\ (RejectedOnce(c) \/ RejectedAgain(c))
  <2>1. /\ Connected /\ call[c].phase = "sent" /\ Shared(call[c].version)
        /\ call[c].version.version \notin socket.release
        /\ call[c].outcome # "rejected"
    BY <1>1, <1>6 DEF CallInv, AnswersAgree, Explained
  <2>2. CASE RejectedOnce(c)
    <3> DEFINE first == [version |-> call[c].version.version, on |-> socket.number]
               k == [call[c] EXCEPT !.phase = "again", !.retry = TRUE, !.rejected = first]
    <3>1. call' = [call EXCEPT ![c] = k]
      BY <2>2 DEF RejectedOnce
    <3>2. first \in Agreements /\ first.version = call[c].version.version /\ first.on = socket.number
      BY <1>1 DEF Calls, Agreements
    <3> HIDE DEF first
    <3>3. /\ k \in Calls /\ k.phase = "again" /\ k.retry /\ k.rejected = first
          /\ k.version = call[c].version /\ k.outcome = call[c].outcome
      BY <1>1, <3>2 DEF Calls, Phases
    <3> HIDE DEF k
    <3> QED BY <1>5, <1>6, <2>1, <3>1, <3>2, <3>3
  <2>3. CASE RejectedAgain(c)
    <3> DEFINE last == [call[c] EXCEPT !.last = socket.number]
               k == Ended(last, "rejected")
    <3>1. call' = [call EXCEPT ![c] = k] /\ call[c].retry
      BY <2>3 DEF RejectedAgain
    <3>2. /\ last \in Calls /\ last.last = socket.number /\ last.version = call[c].version
          /\ last.rejected = call[c].rejected
      BY <1>1 DEF Calls
    <3> HIDE DEF last
    <3>3. "rejected" \in Results
      BY DEF Results
    <3>4. /\ k \in Calls /\ k.phase = "done" /\ k.version = call[c].version
          /\ k.rejected = call[c].rejected /\ k.last = socket.number
      BY <3>2, <3>3, EndedIsCall
    <3> HIDE DEF k
    <3>5. /\ call[c].version.on # socket.number
          /\ \/ call[c].version.version # call[c].rejected.version
             \/ call[c].rejected.on # socket.number
      BY <1>1, <2>1, <3>1 DEF CallInv, SecondAttempt, Shared
    <3> QED BY <1>5, <1>6, <3>1, <3>4, <3>5
  <2> QED BY <1>6, <2>2, <2>3
<1>7. CASE reply[c].kind = "credential" /\ Pauses(c) /\ Forgets({c}) /\ UNCHANGED selected
  <2> DEFINE k == [call[c] EXCEPT !.phase = "paused", !.generation = RejectedGeneration(c),
                                  !.retry = FALSE]
  <2>1. call' = [call EXCEPT ![c] = k]
    BY <1>7 DEF Pauses
  <2>2. RejectedGeneration(c) \in Nat
    BY <1>1, <1>7 DEF RejectedGeneration, Responses, NoMessage
  <2>3. /\ k \in Calls /\ k.phase = "paused" /\ ~ k.retry /\ k.outcome = call[c].outcome
    BY <1>1, <2>2 DEF Calls, Phases
  <2>4. call[c].outcome # "rejected"
    <3>1. reply[c] # NoMessage
      BY <1>7 DEF NoMessage
    <3> QED BY <1>1, <3>1 DEF CallInv, Routed, Explained
  <2> HIDE DEF k
  <2> QED BY <1>5, <1>7, <2>1, <2>3, <2>4
<1>8. CASE /\ reply[c].kind \in {"ok", "unavailable", "capacity", "upgrade"}
           /\ Fails(c) /\ Forgets({c}) /\ UNCHANGED selected
  <2>1. reply[c].kind \in Results \ {"rejected"}
    BY <1>8 DEF Results
  <2> QED BY <1>2, <1>8, <2>1, CallEnds DEF Fails
<1>9. CASE reply[c].kind = "open" /\ Opens(c) /\ UNCHANGED selected
  <2> DEFINE k == [call[c] EXCEPT !.phase = "watching"]
  <2>1. /\ call' = [call EXCEPT ![c] = k] /\ reply' = [reply EXCEPT ![c] = NoMessage]
        /\ UNCHANGED <<routes, request>>
    BY <1>9 DEF Opens
  <2>2. k \in Calls /\ k.phase = "watching" /\ k.outcome = call[c].outcome
    BY <1>1 DEF Calls, Phases
  <2> HIDE DEF k
  <2>3. /\ call' \in [Callers -> Calls] /\ call'[c] = k
        /\ reply' \in [Callers -> Responses] /\ reply'[c] = NoMessage
        /\ \A d \in Callers \ {c} : reply'[d] = reply[d] /\ call'[d] = call[d]
    BY <1>1, <2>1, <2>2
  <2>4. reply[c] # NoMessage
    BY <1>9 DEF NoMessage
  <2>5. request[c] = NoMessage /\ c \in routes
    BY <1>1, <2>4 DEF CallInv, Routed
  <2>6. CallInv(c)'
    <3>1. NoMessage.kind \notin Operations \cup {"version", "rejected"}
      BY DEF NoMessage, Operations
    <3>2. Routed(c)' /\ AnswersAgree(c)' /\ SecondAttempt(c)'
      BY <2>1, <2>2, <2>3, <2>5, <3>1 DEF Routed, AnswersAgree, SecondAttempt
    <3>3. Explained(c)'
      BY <1>1, <2>2, <2>3, <2>5 DEF CallInv, Explained
    <3> QED BY <3>2, <3>3 DEF CallInv
  <2>7. Remembered'
    BY <1>1, <1>2, <1>9, Remains
  <2> QED BY <1>1, <1>2, <1>9, <2>1, <2>3, <2>6, <2>7, OneCaller
<1> QED BY <1>2, <1>4, <1>6, <1>7, <1>8, <1>9 DEF Delivered

(* The session holds at first, and every step keeps it.                    *)
LEMMA SessionInductive ==
  /\ SessionInit => SessionInv
  /\ SessionInv /\ [SessionNext]_sessionVars => SessionInv'
<1>1. ASSUME SessionInit PROVE SessionInv
  <2>1. PICK j \in Journeys : call = [c \in Callers |-> NewCall(j[c])]
    BY <1>1 DEF SessionInit
  <2>2. j \in [Callers -> Operations]
    BY SessionAssumption DEF SessionAssumption
  <2>3. \A c \in Callers : /\ call[c] \in Calls /\ call[c].phase = "idle" /\ ~ call[c].retry
                           /\ call[c].outcome # "rejected"
    BY <2>1, <2>2, Messages DEF NewCall, Calls, Phases
  <2>4. call \in [Callers -> Calls]
    BY <2>1, <2>3
  <2>5. /\ socket = [state |-> "down", number |-> 0, release |-> {}] /\ routes = {}
        /\ request = [c \in Callers |-> NoMessage] /\ reply = [c \in Callers |-> NoMessage]
        /\ selected = NoVersion /\ credential = 0
    BY <1>1 DEF SessionInit
  <2>6. SessionTypeInv
    BY <2>4, <2>5, Messages DEF SessionTypeInv
  <2>7. NoMessage.kind \notin Operations \cup {"version", "rejected"}
    BY DEF NoMessage, Operations
  <2>8. \A c \in Callers : CallInv(c)
    BY <2>3, <2>5, <2>7 DEF CallInv, Routed, AnswersAgree, SecondAttempt, Explained
  <2> QED BY <2>5, <2>6, <2>8 DEF SessionInv, Remembered
<1>2. ASSUME SessionInv, [SessionNext]_sessionVars PROVE SessionInv'
  <2>1. ASSUME UNCHANGED <<socket, routes, request, reply, call, selected>>, credential' \in Nat
        PROVE  SessionInv'
    BY <1>2, <2>1
    DEF SessionInv, SessionTypeInv, Remembered, CallInv, Routed, AnswersAgree, SecondAttempt,
        Explained, Shared, Connected
  <2>2. credential \in Nat
    BY <1>2 DEF SessionInv, SessionTypeInv
  <2>3. CASE UNCHANGED sessionVars
    BY <2>1, <2>2, <2>3 DEF sessionVars, wireVars, clientVars
  <2>4. CASE Connects \/ DialFails \/ ConnectionIsLost \/ PeerVanishes \/ PingTimesOut
    BY <1>2, <2>4, ConnectionStep
  <2>5. ASSUME NEW c \in Callers, Begin(c)
        PROVE  SessionInv'
    BY <1>2, <2>5, EntersStep DEF Begin
  <2>6. ASSUME NEW c \in Callers, Resumes(c)
        PROVE  SessionInv'
    BY <1>2, <2>6, EntersStep DEF Resumes
  <2>7. ASSUME NEW c \in Callers, UsesVersion(c) \/ Negotiates(c) \/ Receives(c) \/ Delivers(c)
        PROVE  SessionInv'
    BY <1>2, <2>7, UsesVersionStep, NegotiatesStep, ReceivesStep, DeliversStep
  <2>8. ASSUME NEW c \in Callers, TimesOut(c)
        PROVE  SessionInv'
    <3>1. "timeout" \in Results \ {"rejected"}
      BY DEF Results
    <3> QED BY <1>2, <2>8, <3>1, CallEnds DEF TimesOut
  <2>9. CASE Admits \/ CredentialChanges \/ Revokes
    BY <2>1, <2>2, <2>9 DEF Admits, CredentialChanges, Revokes, wireVars, clientVars
  <2>10. CASE Admitted \/ Prepared
    BY <1>2, <2>10, ServedStep DEF Admitted, Prepared, clientVars
  <2> QED
    BY <1>2, <2>3, <2>4, <2>5, <2>6, <2>7, <2>8, <2>9, <2>10 DEF SessionNext
<1> QED BY <1>1, <1>2

(***************************************************************************)
(* What the calls of a session agree on is an invariant of it, for every   *)
(* number of callers, connections, releases and troubles.                  *)
(***************************************************************************)
THEOREM SessionInvariance == SessionSpec => []SessionInv
<1> QED BY SessionInductive, PTL DEF SessionSpec

(***************************************************************************)
(* A call that failed because of its version was rejected over another     *)
(* connection than the one its version was agreed on over, and its first   *)
(* rejection was of another version or over another connection: no         *)
(* deployment that has settled fails a call.                               *)
(***************************************************************************)
THEOREM RejectedCorrect == SessionSpec => []RejectedByChangeOnly
<1>1. SessionInv => RejectedByChangeOnly
  BY DEF SessionInv, CallInv, Explained, RejectedByChangeOnly
<1> QED BY <1>1, SessionInvariance, PTL

-----------------------------------------------------------------------------
(***************************************************************************)
(* EphemeralChannel: the values of its variables.                          *)
(***************************************************************************)
Contents ==
  [members : [Clients -> Values \cup {None}], states : [Clients -> States \cup {None}]]

HubMessages ==
  [kind : MemberKinds, client : Clients, value : Values \cup {None}] \cup
  [kind : StateKinds, client : Clients, value : States \cup {None}] \cup
  [kind : {"Event", "EventCleared"}, client : Clients, value : {None}]

Deltas == [message : HubMessages, revision : Nat]

JoinStreams ==
  [client : Clients, queue : Seq(Deltas), ended : {"no", "failed", "departed"},
   last : Nat, snapshot : Contents]

Sessions ==
  [phase : {"out", "joining", "accepted", "live", "failed", "closed"}, token : Nat,
   profile : Values, value : Values, view : Contents \cup {Unknown}]

Updates ==
  [status : {"none", "sent", "lost", "applied", "refused"}, token : Nat, value : Values]

ChannelTypeInv ==
  /\ roster \in [Clients -> [token : Nat, value : Values \cup {None}]]
  /\ retained \in [Clients -> States \cup {None}] /\ events \subseteq Clients
  /\ revision \in Nat /\ joins \in Nat
  /\ streams \in [DOMAIN streams -> JoinStreams] /\ DOMAIN streams \subseteq 1 .. joins
  /\ client \in [Clients -> Sessions] /\ update \in [Clients -> Updates]
  /\ claimed \in [Clients -> SUBSET Values]

(***************************************************************************)
(* A queue holds the last messages of the hub, in order; an empty one has  *)
(* nothing left to bring.                                                  *)
(***************************************************************************)
Numbered(s) ==
  /\ \A i \in DOMAIN s.queue : s.queue[i].revision + Len(s.queue) = revision + i
  /\ s.last <= revision
  /\ s.queue = <<>> => s.last = revision

(***************************************************************************)
(* What a session shows, or will when its stream starts, is what the hub   *)
(* has but for the messages it misses, or it will find that one is gone.   *)
(***************************************************************************)
Followed(c) == client[c].phase \in {"accepted", "live"}

Seen(c) ==
  IF client[c].phase = "live" THEN client[c].view ELSE streams[client[c].token].snapshot

Gap(s) == Missing(s) # {} /\ \A m \in Missing(s) : m.revision # s.last + 1

FollowInv(c) ==
  Followed(c) =>
    /\ client[c].token \in DOMAIN streams /\ streams[client[c].token].client = c
    /\ Seen(c) \in Contents
    /\ Gap(streams[client[c].token]) \/ Shows(Missing(streams[client[c].token]), Seen(c))

(***************************************************************************)
(* The profiles an application may expect: the one a join will use, the    *)
(* one the hub may still be sent, and the one the hub has.  A session does *)
(* not join while an update is under way, so the update belongs to the     *)
(* session that is live.                                                   *)
(***************************************************************************)
ProfileInv(c) ==
  /\ client[c].profile \in claimed[c]
  /\ client[c].phase = "joining" => client[c].value \in claimed[c]
  /\ Updating(c) => client[c].phase \in {"live", "out", "failed"}
  /\ Updating(c) /\ client[c].phase = "live" => update[c].token = client[c].token
  /\ update[c].status \in {"sent", "lost", "applied"} => update[c].value \in claimed[c]
  /\ Followed(c) /\ Current(c, client[c].token) =>
       /\ roster[c].value \in claimed[c]
       /\ update[c].status = "applied" => roster[c].value = update[c].value

ChannelInv ==
  /\ ChannelTypeInv
  /\ \A t \in DOMAIN streams : Numbered(streams[t])
  /\ \A c \in Clients : FollowInv(c) /\ ProfileInv(c)


-----------------------------------------------------------------------------
(***************************************************************************)
(* Sliding queues.                                                         *)
(***************************************************************************)
\* the messages of one step of the hub, as its streams get them
New(messages) ==
  {[message |-> messages[i], revision |-> revision + i] : i \in DOMAIN messages}

LEMMA Shifted ==
  \A v, a, b, k, l, r, i \in Nat :
    v + a = r + (i + k) /\ l = (a + b) - k => v + l = r + b + i
OBVIOUS

(* A queue that slides keeps the last messages, numbered to the end.       *)
LEMMA SlideKeepsLast ==
  ASSUME NEW q \in Seq(Deltas), NEW n \in Seq(Deltas), NEW r \in Nat, n # <<>>,
         \A i \in DOMAIN q : q[i].revision + Len(q) = r + i,
         \A i \in DOMAIN n : n[i].revision = r + i
  PROVE /\ Slide(q \o n) \in Seq(Deltas) /\ Slide(q \o n) # <<>>
        /\ \A i \in DOMAIN Slide(q \o n) :
             Slide(q \o n)[i].revision + Len(Slide(q \o n)) = r + Len(n) + i
        /\ \A m : m \in ToSet(Slide(q \o n)) <=>
             /\ m \in ToSet(q) \cup ToSet(n)
             /\ m.revision + Len(Slide(q \o n)) > r + Len(n)
<1> DEFINE all == q \o n
           k == IF Len(all) > Capacity THEN Len(all) - Capacity ELSE 0
           kept == Slide(all)
<1>1. /\ all \in Seq(Deltas) /\ Len(all) = Len(q) + Len(n)
      /\ \A i \in 1 .. Len(q) : all[i] = q[i]
      /\ \A i \in 1 .. Len(n) : all[Len(q) + i] = n[i]
      /\ Len(n) > 0 /\ Len(q) \in Nat /\ Len(n) \in Nat
      /\ DOMAIN q = 1 .. Len(q) /\ DOMAIN n = 1 .. Len(n)
      /\ \A i \in 1 .. Len(q) + Len(n) : all[i] \in Deltas
  OBVIOUS
<1> HIDE DEF all
<1>2. \A i \in 1 .. Len(all) : all[i].revision \in Nat /\ all[i].revision + Len(q) = r + i
  <2>1. SUFFICES ASSUME NEW i \in 1 .. Len(all)
                 PROVE all[i].revision \in Nat /\ all[i].revision + Len(q) = r + i
    OBVIOUS
  <2>2. all[i].revision \in Nat
    BY <1>1, i \in 1 .. Len(q) + Len(n) DEF Deltas
  <2>3. CASE i <= Len(q)
    <3>1. i \in 1 .. Len(q)
      BY <1>1, <2>3
    <3> QED BY <1>1, <2>2, <3>1
  <2>4. CASE i > Len(q)
    <3>1. i - Len(q) \in 1 .. Len(n) /\ Len(q) + (i - Len(q)) = i
      BY <1>1, <2>4
    <3>2. all[i] = n[i - Len(q)]
      BY <1>1, <3>1
    <3>3. n[i - Len(q)].revision = r + (i - Len(q))
      BY <1>1, <3>1
    <3> QED BY <1>1, <2>2, <2>4, <3>2, <3>3
  <2> QED BY <2>2, <2>3, <2>4, <1>1
<1>3. k \in Nat /\ k < Len(all)
  BY <1>1, ChannelAssumption
<1>4. /\ kept \in Seq(Deltas) /\ Len(kept) = Len(all) - k
      /\ \A i \in 1 .. Len(kept) : kept[i] = all[i + k]
  <2>1. kept = SubSeq(all, 1 + k, Len(all))
    BY DEF Slide
  <2> HIDE DEF all, k, kept
  <2> QED BY <2>1, <1>1, <1>3
<1>5. ToSet(q) \cup ToSet(n) = {all[i] : i \in 1 .. Len(all)}
  <2>1. \A i \in 1 .. Len(all) : all[i] \in ToSet(q) \cup ToSet(n)
    <3>1. SUFFICES ASSUME NEW i \in 1 .. Len(all)
                   PROVE all[i] \in ToSet(q) \cup ToSet(n)
      OBVIOUS
    <3>2. CASE i <= Len(q)
      <4>1. i \in 1 .. Len(q)
        BY <1>1, <3>2
      <4> QED BY <1>1, <4>1 DEF ToSet
    <3>3. CASE i > Len(q)
      <4>1. i - Len(q) \in 1 .. Len(n) /\ Len(q) + (i - Len(q)) = i
        BY <1>1, <3>3
      <4>2. all[i] = n[i - Len(q)]
        BY <1>1, <4>1
      <4> QED BY <4>1, <4>2 DEF ToSet
    <3> QED BY <3>2, <3>3, <1>1
  <2>2. \A m \in ToSet(q) : \E i \in 1 .. Len(all) : m = all[i]
    <3>1. SUFFICES ASSUME NEW i \in 1 .. Len(q)
                   PROVE \E j \in 1 .. Len(all) : q[i] = all[j]
      BY <1>1 DEF ToSet
    <3>2. i \in 1 .. Len(all)
      BY <1>1
    <3> QED BY <1>1, <3>2
  <2>3. \A m \in ToSet(n) : \E i \in 1 .. Len(all) : m = all[i]
    <3>1. SUFFICES ASSUME NEW i \in 1 .. Len(n)
                   PROVE \E j \in 1 .. Len(all) : n[i] = all[j]
      BY <1>1 DEF ToSet
    <3>2. Len(q) + i \in 1 .. Len(all)
      BY <1>1
    <3> QED BY <1>1, <3>2
  <2> QED BY <2>1, <2>2, <2>3
<1>6. ToSet(kept) = {kept[i] : i \in 1 .. Len(kept)}
  BY <1>4 DEF ToSet
<1> HIDE DEF all, k, kept
<1>7. \A i \in 1 .. Len(kept) :
        kept[i] = all[i + k] /\ kept[i].revision + Len(kept) = r + Len(n) + i
  <2>1. SUFFICES ASSUME NEW i \in 1 .. Len(kept)
                 PROVE kept[i].revision + Len(kept) = r + Len(n) + i
    BY <1>4
  <2>2. i + k \in 1 .. Len(all) /\ kept[i] = all[i + k]
    BY <1>1, <1>3, <1>4
  <2>3. all[i + k].revision \in Nat /\ all[i + k].revision + Len(q) = r + (i + k)
    BY <1>2, <2>2
  <2>4. PICK v \in Nat : v = kept[i].revision /\ v + Len(q) = r + (i + k)
    BY <2>2, <2>3
  <2>5. v + Len(kept) = r + Len(n) + i
    <3>1. k \in Nat /\ i \in Nat /\ Len(q) \in Nat /\ Len(n) \in Nat /\ Len(kept) \in Nat
      BY <1>1, <1>3, <1>4
    <3>2. Len(kept) = (Len(q) + Len(n)) - k
      BY <1>1, <1>4
    <3>3. v + Len(q) = r + (i + k)
      BY <2>4
    <3>4. r \in Nat /\ v \in Nat
      OBVIOUS
    <3> QED BY ONLY <3>1, <3>2, <3>3, <3>4, Shifted
  <2> QED BY <2>4, <2>5
<1>8. ASSUME NEW m
      PROVE m \in ToSet(kept) <=>
              m \in ToSet(q) \cup ToSet(n) /\ m.revision + Len(kept) > r + Len(n)
  <2>1. ASSUME m \in ToSet(kept)
        PROVE m \in ToSet(q) \cup ToSet(n) /\ m.revision + Len(kept) > r + Len(n)
    <3>1. PICK i \in 1 .. Len(kept) : m = kept[i]
      BY <1>6, <2>1
    <3>2. i + k \in 1 .. Len(all)
      BY <1>1, <1>3, <1>4
    <3>3. m.revision \in Nat
      BY <1>2, <1>7, <3>1, <3>2
    <3> QED BY <1>1, <1>3, <1>4, <1>5, <1>7, <3>1, <3>2, <3>3
  <2>2. ASSUME m \in ToSet(q) \cup ToSet(n), m.revision + Len(kept) > r + Len(n)
        PROVE m \in ToSet(kept)
    <3>1. PICK i \in 1 .. Len(all) : m = all[i]
      BY <1>5, <2>2
    <3>2. m.revision \in Nat /\ m.revision + Len(q) = r + i
      BY <1>2, <3>1
    <3>3. i > k
      BY <1>1, <1>3, <1>4, <2>2, <3>2
    <3>4. i - k \in 1 .. Len(kept) /\ (i - k) + k = i
      BY <1>1, <1>3, <1>4, <3>3
    <3>5. kept[i - k] = m
      BY <1>4, <3>1, <3>4
    <3> QED BY <1>6, <3>4, <3>5
  <2> QED BY <2>1, <2>2
<1>9. kept # <<>> /\ DOMAIN kept = 1 .. Len(kept)
  BY <1>1, <1>3, <1>4
<1> QED BY <1>4, <1>7, <1>8, <1>9 DEF all, kept

(* What earlier and what later messages bring, they bring together.        *)
LEMMA BringsTogether ==
  ASSUME NEW M, NEW N, NEW kinds, NEW d, NEW x, NEW y, NEW z,
         \A m \in M \cup N : m.revision \in Nat,
         \A m \in M : \A n \in N : m.revision < n.revision,
         Brings(M, kinds, d, x, y), Brings(N, kinds, d, y, z)
  PROVE Brings(M \cup N, kinds, d, x, z)
<1> DEFINE about(S) == {m \in S : m.message.kind \in kinds /\ m.message.client = d}
<1>1. about(M \cup N) = about(M) \cup about(N)
  OBVIOUS
<1>2. \/ about(M) = {} /\ x = y
      \/ \E m \in about(M) : m.message.value = y /\ \A n \in about(M) : n.revision <= m.revision
  BY DEF Brings
<1>3. \/ about(N) = {} /\ y = z
      \/ \E m \in about(N) : m.message.value = z /\ \A n \in about(N) : n.revision <= m.revision
  BY DEF Brings
<1>4. SUFFICES \/ about(M \cup N) = {} /\ x = z
               \/ \E m \in about(M \cup N) :
                    m.message.value = z /\ \A n \in about(M \cup N) : n.revision <= m.revision
  BY DEF Brings
<1>5. CASE about(N) = {} /\ y = z
  BY <1>1, <1>2, <1>5
<1>6. CASE \E m \in about(N) :
             m.message.value = z /\ \A n \in about(N) : n.revision <= m.revision
  <2>1. PICK m \in about(N) :
               m.message.value = z /\ \A n \in about(N) : n.revision <= m.revision
    BY <1>6
  <2>2. \A n \in about(M) : n.revision <= m.revision
    BY <2>1
  <2> QED BY <1>1, <2>1, <2>2
<1> QED BY <1>3, <1>5, <1>6

(* The first of the messages brings its part, the others the rest.         *)
LEMMA BringsNext ==
  ASSUME NEW M, NEW kinds, NEW d, NEW x, NEW y, NEW m \in M,
         \A n \in M : n.revision \in Nat,
         \A n \in M \ {m} : m.revision < n.revision,
         Brings(M, kinds, d, x, y)
  PROVE Brings(M \ {m}, kinds, d,
               IF m.message.kind \in kinds /\ m.message.client = d
               THEN m.message.value ELSE x, y)
<1> DEFINE about(S) == {n \in S : n.message.kind \in kinds /\ n.message.client = d}
<1>1. \/ about(M) = {} /\ x = y
      \/ \E l \in about(M) : l.message.value = y /\ \A n \in about(M) : n.revision <= l.revision
  BY DEF Brings
<1>2. ASSUME NEW w,
             \/ about(M \ {m}) = {} /\ w = y
             \/ \E l \in about(M \ {m}) :
                  l.message.value = y /\ \A n \in about(M \ {m}) : n.revision <= l.revision
      PROVE Brings(M \ {m}, kinds, d, w, y)
  BY <1>2 DEF Brings
<1>3. about(M) = about(M \ {m}) \cup
                 (IF m.message.kind \in kinds /\ m.message.client = d THEN {m} ELSE {})
  OBVIOUS
<1>4. about(M \ {m}) \subseteq M \ {m}
  OBVIOUS
<1> HIDE DEF about
<1>5. CASE ~ (m.message.kind \in kinds /\ m.message.client = d)
  BY <1>1, <1>2, <1>3, <1>5
<1>6. CASE m.message.kind \in kinds /\ m.message.client = d
  <2>1. PICK l \in about(M) :
               l.message.value = y /\ \A n \in about(M) : n.revision <= l.revision
    BY <1>1, <1>3, <1>6
  <2>2. CASE l = m
    <3>1. about(M \ {m}) = {}
      <4>1. SUFFICES ASSUME NEW n \in about(M \ {m}) PROVE FALSE
        OBVIOUS
      <4>2. n \in about(M) /\ n \in M \ {m}
        BY <1>3, <1>4
      <4>3. n.revision <= m.revision /\ m.revision < n.revision
        BY <2>1, <2>2, <4>2
      <4> QED BY <4>2, <4>3
    <3> QED BY <1>2, <1>6, <2>1, <2>2, <3>1
  <2>3. CASE l # m
    BY <1>2, <1>3, <1>6, <2>1, <2>3
  <2> QED BY <2>2, <2>3
<1> QED BY <1>5, <1>6


-----------------------------------------------------------------------------
(***************************************************************************)
(* What a step that publishes messages does to the streams there were.     *)
(***************************************************************************)
Numbering(messages) ==
  [i \in DOMAIN messages |-> [message |-> messages[i], revision |-> revision + i]]

Carries(messages) ==
  /\ revision' = revision + Len(messages)
  /\ \A t \in DOMAIN streams \cap DOMAIN streams' :
       /\ streams'[t].queue = Slide(streams[t].queue \o Numbering(messages))
       /\ streams'[t].last = streams[t].last /\ streams'[t].client = streams[t].client
       /\ streams'[t].snapshot = streams[t].snapshot
  /\ \A d \in Clients :
       /\ Brings(New(messages), MemberKinds, d, roster[d].value, roster'[d].value)
       /\ Brings(New(messages), StateKinds, d, retained[d], retained'[d])

LEMMA NumberingIs ==
  ASSUME revision \in Nat, NEW messages \in Seq(HubMessages), messages # <<>>
  PROVE /\ Numbering(messages) \in Seq(Deltas) /\ Numbering(messages) # <<>>
        /\ Len(Numbering(messages)) = Len(messages)
        /\ \A i \in DOMAIN Numbering(messages) : Numbering(messages)[i].revision = revision + i
        /\ ToSet(Numbering(messages)) = New(messages)
        /\ \A m \in New(messages) :
             m.revision \in Nat /\ m.revision > revision /\ m.revision <= revision + Len(messages)
<1>1. Len(messages) \in Nat /\ DOMAIN messages = 1 .. Len(messages) /\ Len(messages) > 0
  OBVIOUS
<1>2. \A i \in 1 .. Len(messages) : messages[i] \in HubMessages
  OBVIOUS
<1>3. \A i \in 1 .. Len(messages) :
        /\ Numbering(messages)[i] \in Deltas
        /\ Numbering(messages)[i].revision = revision + i
  BY <1>1, <1>2 DEF Numbering, Deltas
<1>4. /\ Numbering(messages) = [i \in 1 .. Len(messages) |-> Numbering(messages)[i]]
      /\ DOMAIN Numbering(messages) = 1 .. Len(messages)
  BY <1>1 DEF Numbering
<1>5. Numbering(messages) \in [1 .. Len(messages) -> Deltas]
  BY <1>3, <1>4
<1>6. Numbering(messages) \in Seq(Deltas) /\ Len(Numbering(messages)) = Len(messages)
  BY <1>1, <1>5
<1>7. ToSet(Numbering(messages)) = New(messages)
  BY DEF ToSet, Numbering, New
<1>8. \A m \in New(messages) :
        m.revision \in Nat /\ m.revision > revision /\ m.revision <= revision + Len(messages)
  BY <1>1 DEF New
<1> QED BY <1>1, <1>3, <1>4, <1>6, <1>7, <1>8

LEMMA StreamKeepsUp ==
  ASSUME ChannelTypeInv, NEW messages \in Seq(HubMessages), messages # <<>>,
         Carries(messages), NEW t \in DOMAIN streams \cap DOMAIN streams',
         Numbered(streams[t])
  PROVE /\ Numbered(streams[t])'
        /\ \A view : Gap(streams[t]) \/ Shows(Missing(streams[t]), view) =>
                       (Gap(streams[t]) \/ Shows(Missing(streams[t]), view))'
<1> DEFINE n == Numbering(messages)
<1>0. PICK q, last, r : q = streams[t].queue /\ last = streams[t].last /\ r = revision
  OBVIOUS
<1>1. q \in Seq(Deltas) /\ last \in Nat /\ r \in Nat /\ Len(messages) \in Nat
  BY <1>0 DEF ChannelTypeInv, JoinStreams
<1>2. /\ n \in Seq(Deltas) /\ n # <<>> /\ Len(n) = Len(messages)
      /\ \A i \in DOMAIN n : n[i].revision = r + i
      /\ ToSet(n) = New(messages)
      /\ \A m \in New(messages) :
             m.revision \in Nat /\ m.revision > r /\ m.revision <= r + Len(messages)
  BY <1>0, <1>1, NumberingIs
<1>3. /\ \A i \in DOMAIN q : q[i].revision + Len(q) = r + i
      /\ last <= r
  BY <1>0 DEF Numbered
<1>4. PICK q2 : q2 = streams'[t].queue
  OBVIOUS
<1>5. q2 = Slide(q \o n) /\ streams'[t].last = last /\ revision' = r + Len(messages)
  BY <1>0, <1>4 DEF Carries
<1> HIDE DEF n
<1>6. /\ q2 \in Seq(Deltas) /\ q2 # <<>>
      /\ \A i \in DOMAIN q2 : q2[i].revision + Len(q2) = r + Len(n) + i
      /\ \A m : m \in ToSet(q2) <=>
           m \in ToSet(q) \cup ToSet(n) /\ m.revision + Len(q2) > r + Len(n)
  <2>1. /\ \A i \in DOMAIN q : q[i].revision + Len(q) = r + i
        /\ \A i \in DOMAIN n : n[i].revision = r + i
        /\ q \in Seq(Deltas) /\ n \in Seq(Deltas) /\ n # <<>> /\ r \in Nat
    BY <1>1, <1>2, <1>3
  <2>2. /\ Slide(q \o n) \in Seq(Deltas) /\ Slide(q \o n) # <<>>
        /\ \A i \in DOMAIN Slide(q \o n) :
             Slide(q \o n)[i].revision + Len(Slide(q \o n)) = r + Len(n) + i
        /\ \A m : m \in ToSet(Slide(q \o n)) <=>
             /\ m \in ToSet(q) \cup ToSet(n)
             /\ m.revision + Len(Slide(q \o n)) > r + Len(n)
    BY <2>1, SlideKeepsLast
  <2> QED BY ONLY <2>2, <1>5
<1>7. Len(q2) \in Nat /\ Len(q2) > 0 /\ DOMAIN q2 = 1 .. Len(q2) /\ Len(n) \in Nat
  BY <1>2, <1>6
<1>8. Numbered(streams[t])'
  BY <1>1, <1>2, <1>3, <1>4, <1>5, <1>6 DEF Numbered
<1>9. ASSUME NEW view, Gap(streams[t]) \/ Shows(Missing(streams[t]), view)
      PROVE (Gap(streams[t]) \/ Shows(Missing(streams[t]), view))'
  <2> DEFINE M == {m \in ToSet(q) : m.revision > last}
             M2 == {m \in ToSet(q2) : m.revision > last}
  <2>1. Missing(streams[t]) = M /\ Missing(streams[t])' = M2
    BY <1>0, <1>4, <1>5 DEF Missing
  <2>2. \A m \in M : m.revision \in Nat /\ m.revision <= r
    <3>1. SUFFICES ASSUME NEW i \in DOMAIN q
                   PROVE q[i].revision \in Nat /\ q[i].revision <= r
      BY DEF ToSet
    <3>2. i \in 1 .. Len(q) /\ Len(q) \in Nat /\ q[i] \in Deltas
      BY <1>1
    <3>3. q[i].revision \in Nat
      BY <3>2 DEF Deltas
    <3> QED BY <1>1, <1>3, <3>2, <3>3
  <2>3. \A m \in M2 : m.revision \in Nat
    <3>1. SUFFICES ASSUME NEW i \in DOMAIN q2
                   PROVE q2[i].revision \in Nat
      BY DEF ToSet
    <3>2. q2[i] \in Deltas
      BY <1>6, <1>7
    <3> QED BY <3>2 DEF Deltas
  <2>4. (Gap(streams[t]))' <=> M2 # {} /\ \A m \in M2 : m.revision # last + 1
    BY <1>5, <2>1 DEF Gap
  <2>5. Gap(streams[t]) <=> M # {} /\ \A m \in M : m.revision # last + 1
    BY <1>0, <2>1 DEF Gap
  <2>6. CASE r + Len(n) > last + Len(q2)
    <3>1. q2[1] \in M2
      <4>1. 1 \in DOMAIN q2 /\ q2[1] \in ToSet(q2)
        BY <1>7 DEF ToSet
      <4>2. q2[1] \in Deltas
        BY <1>6, <1>7
      <4>3. q2[1].revision \in Nat /\ q2[1].revision + Len(q2) = r + Len(n) + 1
        BY <1>6, <4>1, <4>2 DEF Deltas
      <4>4. q2[1].revision > last
        BY <1>1, <1>7, <2>6, <4>3
      <4> QED BY <4>1, <4>4
    <3>2. \A m \in M2 : m.revision # last + 1
      BY <1>1, <1>6, <1>7, <2>3, <2>6
    <3> QED BY <2>4, <3>1, <3>2
  <2>7. CASE r + Len(n) <= last + Len(q2)
    <3>1. M2 = M \cup New(messages)
      BY <1>1, <1>2, <1>3, <1>6, <1>7, <2>2, <2>7
    <3>2. CASE Gap(streams[t])
      BY <1>1, <1>2, <1>3, <2>2, <2>4, <2>5, <3>1, <3>2
    <3>3. CASE Shows(Missing(streams[t]), view)
      <4>1. \A m \in M \cup New(messages) : m.revision \in Nat
        BY <1>2, <2>2
      <4>2. \A m \in M : \A l \in New(messages) : m.revision < l.revision
        BY <1>1, <1>2, <2>2
      <4> HIDE DEF M, M2
      <4>3. ASSUME NEW d \in Clients
            PROVE /\ Brings(M2, MemberKinds, d, view.members[d], roster'[d].value)
                  /\ Brings(M2, StateKinds, d, view.states[d], retained'[d])
        <5>1. /\ Brings(M, MemberKinds, d, view.members[d], roster[d].value)
              /\ Brings(M, StateKinds, d, view.states[d], retained[d])
          BY <2>1, <3>3 DEF Shows
        <5>2. /\ Brings(New(messages), MemberKinds, d, roster[d].value, roster'[d].value)
              /\ Brings(New(messages), StateKinds, d, retained[d], retained'[d])
          BY DEF Carries
        <5> QED BY <3>1, <4>1, <4>2, <5>1, <5>2, BringsTogether
      <4> QED BY <2>1, <4>3 DEF Shows
    <3> QED BY <1>9, <3>2, <3>3
  <2>8. r + Len(n) > last + Len(q2) \/ r + Len(n) <= last + Len(q2)
    BY <1>1, <1>7
  <2> QED BY <2>6, <2>7, <2>8
<1> QED BY <1>8, <1>9


LEMMA SlideTyped ==
  ASSUME NEW q \in Seq(Deltas), Len(q) > 0
  PROVE Slide(q) \in Seq(Deltas)
<1>1. CASE Len(q) > Capacity
  BY <1>1, ChannelAssumption DEF Slide
<1>2. CASE ~ (Len(q) > Capacity)
  <2>1. Slide(q) = SubSeq(q, 1, Len(q))
    BY <1>2 DEF Slide
  <2> QED BY <2>1
<1> QED BY <1>1, <1>2

(* A step that publishes to streams that carry on from those there were.   *)
LEMMA PublishTyped ==
  ASSUME ChannelTypeInv, NEW messages \in Seq(HubMessages), messages # <<>>,
         NEW subscribed, subscribed \in [DOMAIN subscribed -> JoinStreams],
         Publish(subscribed, messages)
  PROVE /\ revision' = revision + Len(messages) /\ revision' \in Nat
        /\ streams' \in [DOMAIN streams' -> JoinStreams]
        /\ DOMAIN streams' = DOMAIN subscribed
        /\ \A t \in DOMAIN streams' :
             /\ streams'[t].queue = Slide(subscribed[t].queue \o Numbering(messages))
             /\ streams'[t].last = subscribed[t].last
             /\ streams'[t].client = subscribed[t].client
             /\ streams'[t].ended = subscribed[t].ended
             /\ streams'[t].snapshot = subscribed[t].snapshot
<1>1. /\ revision \in Nat /\ Len(messages) \in Nat
      /\ Numbering(messages) \in Seq(Deltas) /\ Len(Numbering(messages)) > 0
  BY NumberingIs DEF ChannelTypeInv
<1>2. /\ revision' = revision + Len(messages)
      /\ streams' = [t \in DOMAIN subscribed |->
           [subscribed[t] EXCEPT !.queue = Slide(subscribed[t].queue \o Numbering(messages))]]
  BY DEF Publish, Numbering
<1>3. ASSUME NEW t \in DOMAIN subscribed
      PROVE /\ streams'[t] \in JoinStreams
            /\ streams'[t].queue = Slide(subscribed[t].queue \o Numbering(messages))
            /\ streams'[t].last = subscribed[t].last
            /\ streams'[t].client = subscribed[t].client
            /\ streams'[t].ended = subscribed[t].ended
            /\ streams'[t].snapshot = subscribed[t].snapshot
  <2>1. subscribed[t] \in JoinStreams /\ subscribed[t].queue \in Seq(Deltas)
    BY DEF JoinStreams
  <2>2. Slide(subscribed[t].queue \o Numbering(messages)) \in Seq(Deltas)
    <3>1. PICK q, n : q = subscribed[t].queue /\ n = Numbering(messages)
      OBVIOUS
    <3>2. q \o n \in Seq(Deltas) /\ Len(q \o n) > 0
      BY <1>1, <2>1, <3>1
    <3> QED BY <3>1, <3>2, SlideTyped
  <2> QED BY <1>2, <2>1, <2>2 DEF JoinStreams
<1>4. DOMAIN streams' = DOMAIN subscribed
      /\ streams' = [t \in DOMAIN streams' |-> streams'[t]]
  BY <1>2
<1>5. streams' \in [DOMAIN streams' -> JoinStreams]
  BY <1>3, <1>4
<1> QED BY <1>1, <1>2, <1>3, <1>4, <1>5

(* One message, and what it tells of.                                      *)
Told(m) ==
  \A d \in Clients :
    /\ roster'[d].value =
         IF m.kind \in MemberKinds /\ m.client = d THEN m.value ELSE roster[d].value
    /\ retained'[d] =
         IF m.kind \in StateKinds /\ m.client = d THEN m.value ELSE retained[d]

LEMMA OneBrings ==
  ASSUME revision \in Nat, NEW m, NEW kinds, NEW d, NEW x, NEW y,
         y = IF m.kind \in kinds /\ m.client = d THEN m.value ELSE x
  PROVE Brings(New(<<m>>), kinds, d, x, y)
<1> DEFINE one == [message |-> m, revision |-> revision + 1]
<1>1. New(<<m>>) = {one}
  BY DEF New
<1>2. one.message = m /\ one.revision \in Nat
  OBVIOUS
<1> HIDE DEF one
<1>3. CASE m.kind \in kinds /\ m.client = d
  BY <1>1, <1>2, <1>3 DEF Brings
<1>4. CASE ~ (m.kind \in kinds /\ m.client = d)
  BY <1>1, <1>2, <1>4 DEF Brings
<1> QED BY <1>3, <1>4

LEMMA CarriesOne ==
  ASSUME ChannelTypeInv, NEW m \in HubMessages, NEW subscribed,
         subscribed \in [DOMAIN subscribed -> JoinStreams],
         \A t \in DOMAIN subscribed :
           /\ t \in DOMAIN streams
           /\ subscribed[t].queue = streams[t].queue /\ subscribed[t].last = streams[t].last
           /\ subscribed[t].client = streams[t].client
           /\ subscribed[t].snapshot = streams[t].snapshot,
         Publish(subscribed, <<m>>), Told(m)
  PROVE /\ Carries(<<m>>) /\ DOMAIN streams' = DOMAIN subscribed
        /\ revision' \in Nat /\ streams' \in [DOMAIN streams' -> JoinStreams]
<1>1. <<m>> \in Seq(HubMessages) /\ <<m>> # <<>>
  OBVIOUS
<1>2. /\ revision' = revision + Len(<<m>>) /\ revision' \in Nat
      /\ streams' \in [DOMAIN streams' -> JoinStreams]
      /\ DOMAIN streams' = DOMAIN subscribed
      /\ \A t \in DOMAIN streams' :
           /\ streams'[t].queue = Slide(subscribed[t].queue \o Numbering(<<m>>))
           /\ streams'[t].last = subscribed[t].last
           /\ streams'[t].client = subscribed[t].client
           /\ streams'[t].snapshot = subscribed[t].snapshot
  <2>1. PICK ms : ms = <<m>>
    OBVIOUS
  <2>2. ms \in Seq(HubMessages) /\ ms # <<>> /\ Publish(subscribed, ms)
    BY <1>1, <2>1
  <2>3. /\ revision' = revision + Len(ms) /\ revision' \in Nat
        /\ streams' \in [DOMAIN streams' -> JoinStreams]
        /\ DOMAIN streams' = DOMAIN subscribed
    BY <2>2, PublishTyped
  <2>4. \A t \in DOMAIN streams' :
          /\ streams'[t].queue = Slide(subscribed[t].queue \o Numbering(ms))
          /\ streams'[t].last = subscribed[t].last
          /\ streams'[t].client = subscribed[t].client
          /\ streams'[t].snapshot = subscribed[t].snapshot
    BY <2>2, PublishTyped
  <2> QED BY <2>1, <2>3, <2>4
<1>3. \A d \in Clients :
        /\ Brings(New(<<m>>), MemberKinds, d, roster[d].value, roster'[d].value)
        /\ Brings(New(<<m>>), StateKinds, d, retained[d], retained'[d])
  BY OneBrings DEF Told, ChannelTypeInv
<1> QED BY <1>2, <1>3 DEF Carries

(* A session that goes on following its stream.                            *)
LEMMA FollowsOn ==
  ASSUME ChannelInv, NEW messages \in Seq(HubMessages), messages # <<>>, Carries(messages),
         NEW c \in Clients, Followed(c), client'[c] = client[c],
         client[c].token \in DOMAIN streams'
  PROVE FollowInv(c)'
<1>1. PICK t : t = client[c].token
  OBVIOUS
<1>2. /\ t \in DOMAIN streams \cap DOMAIN streams' /\ streams[t].client = c
      /\ Seen(c) \in Contents /\ (Gap(streams[t]) \/ Shows(Missing(streams[t]), Seen(c)))
      /\ Numbered(streams[t]) /\ ChannelTypeInv
  BY <1>1 DEF ChannelInv, FollowInv
<1>3. PICK view : view = Seen(c)
  OBVIOUS
<1>4. (Gap(streams[t]) \/ Shows(Missing(streams[t]), view))'
  BY <1>2, <1>3, StreamKeepsUp
<1>5. streams'[t].client = c /\ streams'[t].snapshot = streams[t].snapshot
  BY <1>2 DEF Carries
<1>6. Seen(c)' = view /\ client'[c].token = t
  BY <1>1, <1>3, <1>5 DEF Seen
<1>7. Followed(c)' => /\ t \in DOMAIN streams' /\ streams'[t].client = c /\ view \in Contents
                      /\ (Gap(streams[t]) \/ Shows(Missing(streams[t]), view))'
  BY <1>2, <1>3, <1>4, <1>5
<1> QED BY <1>6, <1>7 DEF FollowInv

LEMMA FollowsStill ==
  ASSUME NEW c \in Clients, FollowInv(c), UNCHANGED <<roster, retained>>,
         Followed(c)' => /\ Followed(c) /\ client'[c].token = client[c].token
                         /\ Seen(c)' = Seen(c),
         Followed(c) /\ Followed(c)' =>
           /\ client[c].token \in DOMAIN streams'
           /\ streams'[client[c].token].queue = streams[client[c].token].queue
           /\ streams'[client[c].token].last = streams[client[c].token].last
           /\ streams'[client[c].token].client = streams[client[c].token].client
  PROVE FollowInv(c)'
<1>1. SUFFICES ASSUME Followed(c)' PROVE FollowInv(c)'
  BY DEF FollowInv
<1>2. PICK t, view : t = client[c].token /\ view = Seen(c)
  OBVIOUS
<1>3. /\ t \in DOMAIN streams /\ streams[t].client = c /\ view \in Contents
      /\ Gap(streams[t]) \/ Shows(Missing(streams[t]), view)
  BY <1>1, <1>2 DEF FollowInv
<1>4. /\ t \in DOMAIN streams' /\ streams'[t].queue = streams[t].queue
      /\ streams'[t].last = streams[t].last /\ streams'[t].client = c
      /\ client'[c].token = t /\ Seen(c)' = view
  BY <1>1, <1>2, <1>3
<1>5. Missing(streams[t])' = Missing(streams[t])
  BY <1>4 DEF Missing
<1>6. (Gap(streams[t]) \/ Shows(Missing(streams[t]), view))'
  BY <1>3, <1>4, <1>5 DEF Gap, Shows
<1> QED BY <1>3, <1>4, <1>6 DEF FollowInv


-----------------------------------------------------------------------------
(***************************************************************************)
(* The steps of the hub that publish one message.                          *)
(***************************************************************************)
LEMMA PublishingStep ==
  ASSUME ChannelInv, NEW m \in HubMessages, Carries(<<m>>),
         DOMAIN streams' \subseteq DOMAIN streams, UNCHANGED client,
         \A c \in Clients : Followed(c) => client[c].token \in DOMAIN streams'
  PROVE /\ \A t \in DOMAIN streams' : Numbered(streams[t])'
        /\ \A c \in Clients : FollowInv(c)'
<1>1. <<m>> \in Seq(HubMessages) /\ <<m>> # <<>> /\ ChannelTypeInv
  BY DEF ChannelInv
<1>2. ASSUME NEW t \in DOMAIN streams'
      PROVE Numbered(streams[t])'
  <2>1. t \in DOMAIN streams \cap DOMAIN streams' /\ Numbered(streams[t])
    BY DEF ChannelInv
  <2> QED BY <1>1, <2>1, StreamKeepsUp
<1>3. ASSUME NEW c \in Clients
      PROVE FollowInv(c)'
  <2>1. CASE Followed(c)
    BY <1>1, <2>1, FollowsOn
  <2>2. CASE ~ Followed(c)
    BY <2>2 DEF FollowInv, Followed
  <2> QED BY <2>1, <2>2
<1> QED BY <1>2, <1>3

LEMMA ProfileStays ==
  ASSUME NEW c \in Clients, ProfileInv(c), UNCHANGED <<client, update, claimed>>,
         Followed(c) /\ Current(c, client[c].token)' =>
           Current(c, client[c].token) /\ roster'[c].value = roster[c].value
  PROVE ProfileInv(c)'
BY DEF ProfileInv, Followed, Current, Updating

LEMMA MessageTyped ==
  ASSUME NEW c \in Clients
  PROVE /\ \A kind \in MemberKinds, v \in Values \cup {None} : Message(kind, c, v) \in HubMessages
        /\ \A kind \in StateKinds, v \in States \cup {None} : Message(kind, c, v) \in HubMessages
        /\ \A kind \in {"Event", "EventCleared"} : Message(kind, c, None) \in HubMessages
BY DEF Message, HubMessages

LEMMA EndTyped ==
  ASSUME ChannelTypeInv, NEW t, NEW how \in {"failed", "departed"}
  PROVE /\ EndStream(t, how) \in [DOMAIN EndStream(t, how) -> JoinStreams]
        /\ DOMAIN EndStream(t, how) = DOMAIN streams
        /\ \A u \in DOMAIN streams :
             /\ EndStream(t, how)[u].queue = streams[u].queue
             /\ EndStream(t, how)[u].last = streams[u].last
             /\ EndStream(t, how)[u].client = streams[u].client
             /\ EndStream(t, how)[u].snapshot = streams[u].snapshot
BY DEF EndStream, ChannelTypeInv, JoinStreams

LEMMA SetStateStep ==
  ASSUME ChannelInv, NEW c \in Clients, SetState(c) PROVE ChannelInv'
<1> USE DEF ChannelInv
<1>1. PICK v \in States : /\ retained' = [retained EXCEPT ![c] = v]
                          /\ Publish(streams, <<Message("StateSet", c, v)>>)
  BY DEF SetState
<1>2. PICK m : m = Message("StateSet", c, v)
  OBVIOUS
<1>3. UNCHANGED <<roster, events, joins, client, update, claimed>>
  BY DEF SetState
<1>4. m \in HubMessages /\ m.kind = "StateSet" /\ m.client = c /\ m.value = v
  BY <1>2, MessageTyped DEF StateKinds, Message
<1>5. Told(m)
  BY <1>1, <1>3, <1>4 DEF Told, ChannelTypeInv, MemberKinds, StateKinds
<1>6. /\ Carries(<<m>>) /\ DOMAIN streams' = DOMAIN streams
      /\ revision' \in Nat /\ streams' \in [DOMAIN streams' -> JoinStreams]
  BY <1>1, <1>2, <1>4, <1>5, CarriesOne DEF ChannelTypeInv
<1>7. ChannelTypeInv'
  BY <1>1, <1>3, <1>6 DEF ChannelTypeInv
<1>8. /\ \A t \in DOMAIN streams' : Numbered(streams[t])'
      /\ \A d \in Clients : FollowInv(d)'
  BY <1>3, <1>4, <1>6, PublishingStep DEF FollowInv
<1>9. \A d \in Clients : ProfileInv(d)'
  BY <1>3, ProfileStays DEF Current
<1> QED BY <1>7, <1>8, <1>9

LEMMA RemoveStateStep ==
  ASSUME ChannelInv, NEW c \in Clients, RemoveState(c) PROVE ChannelInv'
<1> USE DEF ChannelInv
<1>1. /\ retained' = [retained EXCEPT ![c] = None]
      /\ Publish(streams, <<Message("StateRemoved", c, None)>>)
  BY DEF RemoveState
<1>2. PICK m : m = Message("StateRemoved", c, None)
  OBVIOUS
<1>3. UNCHANGED <<roster, events, joins, client, update, claimed>>
  BY DEF RemoveState
<1>4. m \in HubMessages /\ m.kind = "StateRemoved" /\ m.client = c /\ m.value = None
  BY <1>2, MessageTyped DEF StateKinds, Message
<1>5. Told(m)
  BY <1>1, <1>3, <1>4 DEF Told, ChannelTypeInv, MemberKinds, StateKinds
<1>6. /\ Carries(<<m>>) /\ DOMAIN streams' = DOMAIN streams
      /\ revision' \in Nat /\ streams' \in [DOMAIN streams' -> JoinStreams]
  BY <1>1, <1>2, <1>4, <1>5, CarriesOne DEF ChannelTypeInv
<1>7. ChannelTypeInv'
  BY <1>1, <1>3, <1>6 DEF ChannelTypeInv
<1>8. /\ \A t \in DOMAIN streams' : Numbered(streams[t])'
      /\ \A d \in Clients : FollowInv(d)'
  BY <1>3, <1>4, <1>6, PublishingStep DEF FollowInv
<1>9. \A d \in Clients : ProfileInv(d)'
  BY <1>3, ProfileStays DEF Current
<1> QED BY <1>7, <1>8, <1>9

(* A message that tells of nothing new: events, and renewed leases.        *)
LEMMA NoNewsStep ==
  ASSUME ChannelInv, NEW m \in HubMessages, Publish(streams, <<m>>), Told(m),
         events' \subseteq Clients,
         UNCHANGED <<roster, retained, joins, client, update, claimed>>
  PROVE ChannelInv'
<1> USE DEF ChannelInv
<1>1. /\ Carries(<<m>>) /\ DOMAIN streams' = DOMAIN streams
      /\ revision' \in Nat /\ streams' \in [DOMAIN streams' -> JoinStreams]
  BY CarriesOne DEF ChannelTypeInv
<1>2. ChannelTypeInv'
  BY <1>1 DEF ChannelTypeInv
<1>3. /\ \A t \in DOMAIN streams' : Numbered(streams[t])'
      /\ \A d \in Clients : FollowInv(d)'
  BY <1>1, PublishingStep DEF FollowInv
<1>4. \A d \in Clients : ProfileInv(d)'
  BY ProfileStays DEF Current
<1> QED BY <1>2, <1>3, <1>4

LEMMA EventSteps ==
  ASSUME ChannelInv, NEW c \in Clients, PublishEvent(c) \/ ClearEvent(c)
  PROVE ChannelInv'
<1>1. ASSUME NEW kind \in {"Event", "EventCleared"}
      PROVE Message(kind, c, None) \in HubMessages /\ Message(kind, c, None).kind = kind
  BY MessageTyped DEF Message
<1>2. ASSUME NEW kind \in {"Event", "EventCleared"}, UNCHANGED <<roster, retained>>
      PROVE Told(Message(kind, c, None))
  BY <1>1, <1>2 DEF Told, MemberKinds, StateKinds
<1>3. CASE PublishEvent(c)
  <2>1. /\ Publish(streams, <<Message("Event", c, None)>>) /\ events' \subseteq Clients
        /\ UNCHANGED <<roster, retained, joins, client, update, claimed>>
    BY <1>3 DEF PublishEvent, ChannelInv, ChannelTypeInv
  <2> QED BY <1>1, <1>2, <2>1, NoNewsStep
<1>4. CASE ClearEvent(c)
  <2>1. /\ Publish(streams, <<Message("EventCleared", c, None)>>) /\ events' \subseteq Clients
        /\ UNCHANGED <<roster, retained, joins, client, update, claimed>>
    BY <1>4 DEF ClearEvent, ChannelInv, ChannelTypeInv
  <2> QED BY <1>1, <1>2, <2>1, NoNewsStep
<1> QED BY <1>3, <1>4

(***************************************************************************)
(* The steps by which a session stops to follow its stream, or has none.   *)
(***************************************************************************)
LEMMA SessionEnds ==
  ASSUME ChannelInv, NEW c \in Clients, NEW r \in Sessions,
         client' = [client EXCEPT ![c] = r], UNCHANGED <<hubVars, update, claimed>>,
         r.phase \in {"out", "joining", "failed", "closed"},
         r.profile = client[c].profile,
         r.phase = "joining" => r.value = client[c].profile,
         Updating(c) => r.phase \in {"out", "failed"}
  PROVE ChannelInv'
<1> USE DEF ChannelInv, hubVars
<1>1. /\ client' \in [Clients -> Sessions] /\ client'[c] = r
      /\ \A d \in Clients \ {c} : client'[d] = client[d]
  BY DEF ChannelTypeInv
<1>2. ChannelTypeInv'
  BY <1>1 DEF ChannelTypeInv
<1>3. \A t \in DOMAIN streams' : Numbered(streams[t])'
  BY DEF Numbered
<1>4. ASSUME NEW d \in Clients PROVE FollowInv(d)'
  <2>1. CASE d = c
    BY <1>1, <2>1 DEF FollowInv, Followed
  <2>2. CASE d # c
    <3>1. client'[d] = client[d] /\ Seen(d)' = Seen(d)
      BY <1>1, <2>2 DEF Seen
    <3>2. UNCHANGED <<roster, retained>> /\ FollowInv(d)
      OBVIOUS
    <3>3. Followed(d) => client[d].token \in DOMAIN streams
      BY DEF FollowInv
    <3> QED BY <3>1, <3>2, <3>3, FollowsStill DEF Followed
  <2> QED BY <2>1, <2>2
<1>5. ASSUME NEW d \in Clients PROVE ProfileInv(d)'
  <2>1. ProfileInv(d)
    OBVIOUS
  <2>2. CASE d = c
    BY <1>1, <2>1, <2>2 DEF ProfileInv, Followed, Updating, Current
  <2>3. CASE d # c
    BY <1>1, <2>1, <2>3 DEF ProfileInv, Followed, Updating, Current
  <2> QED BY <2>2, <2>3
<1> QED BY <1>2, <1>3, <1>4, <1>5

LEMMA HeartbeatStep ==
  ASSUME ChannelInv, NEW c \in Clients, Heartbeat(c) PROVE ChannelInv'
<1>1. CASE Current(c, client[c].token)
  <2>1. PICK m : m = Message("MemberUpserted", c, roster[c].value)
    OBVIOUS
  <2>2. m \in HubMessages /\ m.kind = "MemberUpserted" /\ m.client = c /\ m.value = roster[c].value
    BY <2>1, MessageTyped DEF ChannelInv, ChannelTypeInv, MemberKinds, Message
  <2>3. /\ Publish(streams, <<m>>) /\ events' \subseteq Clients
        /\ UNCHANGED <<roster, retained, joins, client, update, claimed>>
    BY <1>1, <2>1 DEF Heartbeat, ChannelInv, ChannelTypeInv
  <2>4. Told(m)
    BY <2>2, <2>3 DEF Told, MemberKinds, StateKinds
  <2> QED BY <2>2, <2>3, <2>4, NoNewsStep
<1>2. CASE ~ Current(c, client[c].token)
  <2>1. PICK r : r = [client[c] EXCEPT !.phase = "failed", !.token = NoToken]
    OBVIOUS
  <2>2. /\ client' = [client EXCEPT ![c] = r] /\ UNCHANGED <<hubVars, update, claimed>>
        /\ client[c].phase = "live"
    BY <1>2, <2>1 DEF Heartbeat, hubVars, ChannelInv, ChannelTypeInv
  <2>3. r \in Sessions /\ r.phase = "failed" /\ r.profile = client[c].profile
    BY <2>1 DEF ChannelInv, ChannelTypeInv, Sessions, NoToken
  <2> QED BY <2>2, <2>3, SessionEnds
<1> QED BY <1>1, <1>2

LEMMA BeginStep ==
  ASSUME ChannelInv, NEW c \in Clients, BeginJoin(c) PROVE ChannelInv'
<1>1. PICK r : r = [client[c] EXCEPT !.phase = "joining", !.value = client[c].profile]
  OBVIOUS
<1>2. /\ client' = [client EXCEPT ![c] = r] /\ UNCHANGED <<hubVars, update, claimed>>
      /\ ~ Updating(c)
  BY <1>1 DEF BeginJoin, MayJoin, ChannelInv, ChannelTypeInv
<1>3. /\ r \in Sessions /\ r.phase = "joining" /\ r.profile = client[c].profile
      /\ r.value = client[c].profile
  BY <1>1 DEF ChannelInv, ChannelTypeInv, Sessions
<1> QED BY <1>2, <1>3, SessionEnds

LEMMA OutIs ==
  ASSUME ChannelTypeInv, NEW c \in Clients
  PROVE \E r \in Sessions :
          /\ r = [client[c] EXCEPT !.phase = "out", !.token = NoToken]
          /\ r.phase = "out" /\ r.profile = client[c].profile
          /\ Out(c) = [client EXCEPT ![c] = r]
<1>1. PICK r : r = [client[c] EXCEPT !.phase = "out", !.token = NoToken]
  OBVIOUS
<1>2. client \in [Clients -> Sessions] /\ client[c] \in Sessions
  BY DEF ChannelTypeInv
<1>3. r \in Sessions /\ r.phase = "out" /\ r.profile = client[c].profile
  BY <1>1, <1>2 DEF Sessions, NoToken
<1>4. Out(c) = [client EXCEPT ![c] = r]
  BY <1>1, <1>2 DEF Out
<1> QED BY <1>1, <1>3, <1>4

LEMMA EndStep ==
  ASSUME ChannelInv, NEW c \in Clients, End(c) PROVE ChannelInv'
<1>1. PICK r \in Sessions : /\ r.phase = "out" /\ r.profile = client[c].profile
                            /\ Out(c) = [client EXCEPT ![c] = r]
  BY OutIs DEF ChannelInv
<1>2. PICK f : f = [r EXCEPT !.phase = "failed"]
  OBVIOUS
<1>3. f \in Sessions /\ f.phase = "failed" /\ f.profile = client[c].profile
  BY <1>1, <1>2 DEF Sessions
<1>4. /\ client' \in {[client EXCEPT ![c] = r], [client EXCEPT ![c] = f]}
      /\ UNCHANGED <<hubVars, update, claimed>>
  BY <1>1, <1>2 DEF End, ChannelInv, ChannelTypeInv
<1> QED BY <1>1, <1>3, <1>4, SessionEnds

LEMMA DisconnectStep ==
  ASSUME ChannelInv, NEW c \in Clients, Disconnect(c) PROVE ChannelInv'
<1>1. PICK r \in Sessions : /\ r.phase = "out" /\ r.profile = client[c].profile
                            /\ Out(c) = [client EXCEPT ![c] = r]
  BY OutIs DEF ChannelInv
<1>2. PICK f : f = [r EXCEPT !.view = Unknown]
  OBVIOUS
<1>3. f \in Sessions /\ f.phase = "out" /\ f.profile = client[c].profile
  BY <1>1, <1>2 DEF Sessions
<1>4. client' = [client EXCEPT ![c] = f] /\ UNCHANGED <<hubVars, update, claimed>>
  BY <1>1, <1>2 DEF Disconnect, PresentUnknown, ChannelInv, ChannelTypeInv
<1> QED BY <1>3, <1>4, SessionEnds

LEMMA CloseStep ==
  ASSUME ChannelInv, NEW c \in Clients, Close(c) PROVE ChannelInv'
<1>1. PICK r \in Sessions : /\ r.phase = "out" /\ r.profile = client[c].profile
                            /\ Out(c) = [client EXCEPT ![c] = r]
  BY OutIs DEF ChannelInv
<1>2. PICK f : f = [r EXCEPT !.phase = "closed"]
  OBVIOUS
<1>3. f \in Sessions /\ f.phase = "closed" /\ f.profile = client[c].profile
  BY <1>1, <1>2 DEF Sessions
<1>4. /\ client' = [client EXCEPT ![c] = f] /\ UNCHANGED <<hubVars, update, claimed>>
      /\ ~ Updating(c)
  BY <1>1, <1>2 DEF Close, ChannelInv, ChannelTypeInv
<1> QED BY <1>3, <1>4, SessionEnds


(***************************************************************************)
(* A session that starts, and one that takes the next message.             *)
(***************************************************************************)
LEMMA StartStep ==
  ASSUME ChannelInv, NEW c \in Clients, Start(c) PROVE ChannelInv'
<1> USE DEF ChannelInv
<1>1. PICK t : t = client[c].token
  OBVIOUS
<1>2. client[c].phase = "accepted" /\ UNCHANGED <<hubVars, update, claimed>>
  BY DEF Start
<1>3. /\ t \in DOMAIN streams /\ streams[t].client = c /\ streams[t].snapshot \in Contents
      /\ Seen(c) = streams[t].snapshot
  BY <1>1, <1>2 DEF FollowInv, Followed, Seen
<1>4. PICK r : r = [client[c] EXCEPT !.phase = "live", !.view = streams[t].snapshot]
  OBVIOUS
<1>5. client \in [Clients -> Sessions]
  BY DEF ChannelTypeInv
<1>6. /\ r \in Sessions /\ r.phase = "live" /\ r.view = streams[t].snapshot
      /\ r.token = t /\ r.profile = client[c].profile /\ r.value = client[c].value
  BY <1>1, <1>3, <1>4, <1>5 DEF Sessions
<1>7. client' = [client EXCEPT ![c] = r]
  BY <1>1, <1>4, <1>5 DEF Start
<1>8. /\ client' \in [Clients -> Sessions] /\ client'[c] = r
      /\ \A d \in Clients \ {c} : client'[d] = client[d]
  BY <1>5, <1>6, <1>7
<1>9. ChannelTypeInv'
  BY <1>2, <1>8 DEF ChannelTypeInv, hubVars
<1>10. \A u \in DOMAIN streams' : Numbered(streams[u])'
  BY <1>2 DEF Numbered, hubVars
<1>11. ASSUME NEW d \in Clients PROVE FollowInv(d)'
  <2>1. Followed(d)' => Followed(d) /\ client'[d].token = client[d].token /\ Seen(d)' = Seen(d)
    BY <1>1, <1>2, <1>3, <1>6, <1>8 DEF Followed, Seen, hubVars
  <2>2. Followed(d) => client[d].token \in DOMAIN streams
    BY DEF FollowInv
  <2> QED BY <1>2, <2>1, <2>2, FollowsStill DEF hubVars
<1>12. ASSUME NEW d \in Clients PROVE ProfileInv(d)'
  <2>1. ProfileInv(d)
    OBVIOUS
  <2>2. CASE d = c
    BY <1>1, <1>2, <1>6, <1>8, <2>1, <2>2
       DEF ProfileInv, Followed, Updating, Current, hubVars
  <2>3. CASE d # c
    BY <1>2, <1>8, <2>1, <2>3 DEF ProfileInv, Followed, Updating, Current, hubVars
  <2> QED BY <2>2, <2>3
<1> QED BY <1>9, <1>10, <1>11, <1>12

LEMMA HeadAndTail ==
  ASSUME NEW q \in Seq(Deltas), q # <<>>, NEW r \in Nat,
         \A i \in DOMAIN q : q[i].revision + Len(q) = r + i
  PROVE /\ Tail(q) \in Seq(Deltas) /\ Head(q) \in Deltas /\ Head(q) \in ToSet(q)
        /\ \A i \in DOMAIN Tail(q) : Tail(q)[i].revision + Len(Tail(q)) = r + i
        /\ Head(q).revision <= r
        /\ Tail(q) = <<>> => Head(q).revision = r
        /\ \A m \in ToSet(Tail(q)) : m.revision \in Nat /\ Head(q).revision < m.revision
        /\ ToSet(Tail(q)) = ToSet(q) \ {Head(q)}
<1>1. /\ Len(q) \in Nat /\ Len(q) > 0 /\ DOMAIN q = 1 .. Len(q)
      /\ Tail(q) \in Seq(Deltas) /\ Len(Tail(q)) = Len(q) - 1
      /\ DOMAIN Tail(q) = 1 .. Len(q) - 1
      /\ \A i \in 1 .. Len(q) - 1 : Tail(q)[i] = q[i + 1]
      /\ Head(q) = q[1] /\ 1 \in 1 .. Len(q)
  OBVIOUS
<1>2. \A i \in 1 .. Len(q) : q[i] \in Deltas
  BY <1>1
<1>3. \A i \in 1 .. Len(q) : q[i].revision \in Nat /\ q[i].revision + Len(q) = r + i
  BY <1>1, <1>2 DEF Deltas
<1>4. Head(q) \in Deltas /\ Head(q).revision \in Nat /\ Head(q).revision + Len(q) = r + 1
  BY <1>1, <1>2, <1>3
<1>5. ASSUME NEW i \in 1 .. Len(q) - 1
      PROVE /\ Tail(q)[i].revision \in Nat /\ Tail(q)[i].revision + Len(Tail(q)) = r + i
            /\ Head(q).revision < Tail(q)[i].revision
  <2>1. i + 1 \in 1 .. Len(q) /\ Tail(q)[i] = q[i + 1]
    BY <1>1
  <2>2. PICK v \in Nat : v = Tail(q)[i].revision /\ v + Len(q) = r + (i + 1)
    BY <1>3, <2>1
  <2>3. Len(Tail(q)) = Len(q) - 1 /\ Len(q) \in Nat /\ i \in Nat
    BY <1>1
  <2>4. r \in Nat
    OBVIOUS
  <2>5. v + Len(Tail(q)) = r + i /\ Head(q).revision < v
    BY ONLY <1>4, <2>2, <2>3, <2>4
  <2> QED BY <2>2, <2>5
<1>6. ToSet(q) = {q[i] : i \in 1 .. Len(q)} /\ ToSet(Tail(q)) = {Tail(q)[i] : i \in 1 .. Len(q) - 1}
  BY <1>1 DEF ToSet
<1>7. \A m \in ToSet(Tail(q)) : m.revision \in Nat /\ Head(q).revision < m.revision
  BY <1>5, <1>6
<1>8. ToSet(Tail(q)) = ToSet(q) \ {Head(q)}
  <2>1. \A m \in ToSet(Tail(q)) : m \in ToSet(q) /\ m # Head(q)
    <3>1. SUFFICES ASSUME NEW i \in 1 .. Len(q) - 1
                   PROVE Tail(q)[i] \in ToSet(q) /\ Tail(q)[i] # Head(q)
      BY <1>6
    <3>2. i + 1 \in 1 .. Len(q) /\ Tail(q)[i] = q[i + 1]
      BY <1>1
    <3>3. Tail(q)[i] \in ToSet(q)
      BY <1>6, <3>2
    <3>4. Head(q).revision < Tail(q)[i].revision
      BY <1>5
    <3> QED BY <1>4, <3>3, <3>4
  <2>2. \A m \in ToSet(q) \ {Head(q)} : m \in ToSet(Tail(q))
    <3>1. SUFFICES ASSUME NEW i \in 1 .. Len(q), q[i] # Head(q)
                   PROVE q[i] \in ToSet(Tail(q))
      BY <1>6
    <3>2. i # 1
      BY <1>1, <3>1
    <3>3. i - 1 \in 1 .. Len(q) - 1 /\ (i - 1) + 1 = i
      BY <1>1, <3>2
    <3>4. Tail(q)[i - 1] = q[i]
      BY <1>1, <3>3
    <3> QED BY <1>6, <3>3, <3>4
  <2> QED BY <2>1, <2>2
<1>9. Head(q).revision <= r /\ (Tail(q) = <<>> => Head(q).revision = r)
  <2>1. Tail(q) = <<>> => Len(q) = 1
    BY <1>1
  <2>2. r \in Nat /\ Len(q) \in Nat /\ Len(q) > 0
    BY <1>1
  <2>3. PICK v, n \in Nat : v = Head(q).revision /\ n = Len(q) /\ v + n = r + 1 /\ n > 0
    BY <1>4, <2>2
  <2>4. v <= r /\ (n = 1 => v = r)
    BY <2>2, <2>3
  <2> QED BY <2>1, <2>3, <2>4
<1>10. Head(q) \in ToSet(q)
  BY <1>1, <1>6
<1>11. \A i \in DOMAIN Tail(q) : Tail(q)[i].revision + Len(Tail(q)) = r + i
  BY <1>1, <1>5
<1> QED BY <1>1, <1>4, <1>7, <1>8, <1>9, <1>10, <1>11

LEMMA ReduceIs ==
  ASSUME NEW view \in Contents, NEW m \in HubMessages
  PROVE /\ Reduce(view, m) \in Contents
        /\ \A d \in Clients :
             /\ Reduce(view, m).members[d] =
                  IF m.kind \in MemberKinds /\ m.client = d THEN m.value ELSE view.members[d]
             /\ Reduce(view, m).states[d] =
                  IF m.kind \in StateKinds /\ m.client = d THEN m.value ELSE view.states[d]
<1>1. CASE m.kind \in MemberKinds
  <2>1. /\ m.value \in Values \cup {None} /\ m.client \in Clients
        /\ m.kind \notin StateKinds
    BY <1>1 DEF HubMessages, MemberKinds, StateKinds
  <2>2. Reduce(view, m) = [view EXCEPT !.members[m.client] = m.value]
    BY <1>1, <2>1 DEF Reduce
  <2> QED BY <1>1, <2>1, <2>2 DEF Contents
<1>2. CASE m.kind \in StateKinds
  <2>1. /\ m.value \in States \cup {None} /\ m.client \in Clients
        /\ m.kind \notin MemberKinds
    BY <1>2 DEF HubMessages, MemberKinds, StateKinds
  <2>2. Reduce(view, m) = [view EXCEPT !.states[m.client] = m.value]
    BY <1>2, <2>1 DEF Reduce
  <2> QED BY <1>2, <2>1, <2>2 DEF Contents
<1>3. CASE m.kind \notin MemberKinds /\ m.kind \notin StateKinds
  <2>1. Reduce(view, m) = view
    BY <1>3 DEF Reduce
  <2> QED BY <1>3, <2>1
<1> QED BY <1>1, <1>2, <1>3

LEMMA DeliverStep ==
  ASSUME ChannelInv, NEW c \in Clients, Deliver(c) PROVE ChannelInv'
<1> USE DEF ChannelInv
<1>1. PICK t, s, q, m : t = client[c].token /\ s = streams[t] /\ q = s.queue /\ m = Head(q)
  OBVIOUS
<1>2. /\ client[c].phase = "live" /\ q # <<>>
      /\ UNCHANGED <<roster, retained, events, revision, joins, update, claimed>>
  BY <1>1 DEF Deliver
<1>3. /\ client \in [Clients -> Sessions] /\ s \in JoinStreams /\ t \in DOMAIN streams
      /\ s.client = c /\ client[c].view \in Contents /\ Seen(c) = client[c].view
      /\ Gap(s) \/ Shows(Missing(s), client[c].view)
      /\ Numbered(s) /\ streams \in [DOMAIN streams -> JoinStreams]
  BY <1>1, <1>2 DEF FollowInv, Followed, Seen, ChannelTypeInv
<1>4. PICK r : r = revision
  OBVIOUS
<1>5. /\ q \in Seq(Deltas) /\ r \in Nat /\ s.last \in Nat /\ s.last <= r
      /\ \A i \in DOMAIN q : q[i].revision + Len(q) = r + i
  BY <1>1, <1>3, <1>4 DEF JoinStreams, Numbered, ChannelTypeInv
<1>6. /\ Tail(q) \in Seq(Deltas) /\ m \in Deltas /\ m \in ToSet(q)
      /\ \A i \in DOMAIN Tail(q) : Tail(q)[i].revision + Len(Tail(q)) = r + i
      /\ m.revision <= r
      /\ Tail(q) = <<>> => m.revision = r
      /\ \A l \in ToSet(Tail(q)) : l.revision \in Nat /\ m.revision < l.revision
      /\ ToSet(Tail(q)) = ToSet(q) \ {m}
  <2>1. q \in Seq(Deltas) /\ q # <<>> /\ r \in Nat
    BY <1>2, <1>5
  <2>2. \A i \in DOMAIN q : q[i].revision + Len(q) = r + i
    BY <1>5
  <2>3. /\ Tail(q) \in Seq(Deltas) /\ Head(q) \in Deltas /\ Head(q) \in ToSet(q)
        /\ \A i \in DOMAIN Tail(q) : Tail(q)[i].revision + Len(Tail(q)) = r + i
        /\ Head(q).revision <= r
        /\ Tail(q) = <<>> => Head(q).revision = r
        /\ \A l \in ToSet(Tail(q)) : l.revision \in Nat /\ Head(q).revision < l.revision
        /\ ToSet(Tail(q)) = ToSet(q) \ {Head(q)}
    BY ONLY <2>1, <2>2, HeadAndTail
  <2> QED BY ONLY <1>1, <2>3
<1>7. m.message \in HubMessages /\ m.revision \in Nat
  BY <1>6 DEF Deltas
<1>8. Missing(s) = {l \in ToSet(q) : l.revision > s.last}
  BY <1>1 DEF Missing
\* the rest of the proof, from what becomes of the stream and of the view
<1>9. ASSUME NEW last \in Nat, last <= r, Tail(q) = <<>> => last = r,
             NEW view \in Contents,
             streams' = [streams EXCEPT ![t] = [s EXCEPT !.queue = Tail(q), !.last = last]],
             client' = [client EXCEPT ![c] = [client[c] EXCEPT !.view = view]],
             \/ Gap(s) /\ last = s.last /\ view = client[c].view /\ m.revision <= last
             \/ Shows({l \in ToSet(Tail(q)) : l.revision > last}, view)
      PROVE ChannelInv'
  <2>1. PICK s2 : s2 = [s EXCEPT !.queue = Tail(q), !.last = last]
    OBVIOUS
  <2>2. /\ s2 \in JoinStreams /\ s2.queue = Tail(q) /\ s2.last = last /\ s2.client = c
        /\ s2.snapshot = s.snapshot
    BY <1>3, <1>6, <2>1 DEF JoinStreams
  <2>3. /\ streams' \in [DOMAIN streams -> JoinStreams] /\ streams'[t] = s2
        /\ \A u \in DOMAIN streams \ {t} : streams'[u] = streams[u]
        /\ DOMAIN streams' = DOMAIN streams
    BY <1>3, <1>9, <2>1, <2>2
  <2>4. PICK k : k = [client[c] EXCEPT !.view = view]
    OBVIOUS
  <2>5. /\ k \in Sessions /\ k.phase = "live" /\ k.token = t /\ k.view = view
        /\ k.profile = client[c].profile /\ k.value = client[c].value
    BY <1>1, <1>2, <1>3, <2>4 DEF Sessions
  <2>6. /\ client' \in [Clients -> Sessions] /\ client'[c] = k
        /\ \A d \in Clients \ {c} : client'[d] = client[d]
    BY <1>3, <1>9, <2>4, <2>5
  <2>7. ChannelTypeInv'
    BY <1>2, <2>3, <2>6 DEF ChannelTypeInv
  <2>8. ASSUME NEW u \in DOMAIN streams' PROVE Numbered(streams[u])'
    <3>1. CASE u = t
      BY <1>2, <1>4, <1>6, <1>9, <2>2, <2>3, <3>1 DEF Numbered
    <3>2. CASE u # t
      BY <1>2, <2>3, <3>2 DEF Numbered
    <3> QED BY <3>1, <3>2
  <2>9. FollowInv(c)'
    <3>1. Missing(streams[t])' = {l \in ToSet(Tail(q)) : l.revision > last}
      BY <2>2, <2>3 DEF Missing
    <3>2. (Gap(streams[t]) \/ Shows(Missing(streams[t]), view))'
      <4>1. CASE Gap(s) /\ last = s.last /\ view = client[c].view /\ m.revision <= last
        <5>1. Missing(streams[t])' = Missing(s)
          BY <1>6, <1>7, <1>8, <3>1, <4>1
        <5> QED BY <2>2, <2>3, <4>1, <5>1 DEF Gap
      <4>2. CASE Shows({l \in ToSet(Tail(q)) : l.revision > last}, view)
        BY <1>2, <3>1, <4>2 DEF Shows
      <4> QED BY <1>9, <4>1, <4>2
    <3>3. client'[c].token = t /\ Seen(c)' = view
      BY <2>5, <2>6 DEF Seen
    <3>4. t \in DOMAIN streams' /\ streams'[t].client = c
      BY <1>3, <2>2, <2>3
    <3> QED BY <3>2, <3>3, <3>4 DEF FollowInv
  <2>10. ASSUME NEW d \in Clients \ {c} PROVE FollowInv(d)'
    <3>1. Followed(d) => client[d].token \in DOMAIN streams \ {t}
      BY <1>1, <1>3 DEF FollowInv
    <3>2. client'[d] = client[d] /\ (Followed(d) => Seen(d)' = Seen(d))
      BY <2>3, <2>6, <3>1 DEF Seen
    <3> QED BY <1>2, <2>3, <3>1, <3>2, FollowsStill DEF Followed
  <2>11. ASSUME NEW d \in Clients PROVE ProfileInv(d)'
    <3>1. ProfileInv(d)
      OBVIOUS
    <3>2. /\ client'[d].phase = client[d].phase /\ client'[d].token = client[d].token
          /\ client'[d].profile = client[d].profile /\ client'[d].value = client[d].value
      BY <1>1, <1>2, <2>5, <2>6
    <3> QED BY <1>2, <3>1, <3>2 DEF ProfileInv, Followed, Updating, Current
  <2> QED BY <2>7, <2>8, <2>9, <2>10, <2>11
\* what the three cases make of them
<1>10. CASE m.revision <= s.last /\ streams' = [streams EXCEPT ![t].queue = Tail(@)]
            /\ UNCHANGED client
  <2>1. streams' = [streams EXCEPT ![t] = [s EXCEPT !.queue = Tail(q), !.last = s.last]]
    BY <1>1, <1>3, <1>10 DEF JoinStreams
  <2>2. client' = [client EXCEPT ![c] = [client[c] EXCEPT !.view = client[c].view]]
    BY <1>3, <1>10 DEF Sessions
  <2>3. Tail(q) = <<>> => s.last = r
    BY <1>5, <1>6, <1>7, <1>10
  <2>4. {l \in ToSet(Tail(q)) : l.revision > s.last} = Missing(s)
    BY <1>5, <1>6, <1>7, <1>8, <1>10
  <2>5. Gap(s) \/ Shows({l \in ToSet(Tail(q)) : l.revision > s.last}, client[c].view)
    BY <1>3, <2>4
  <2>6. PICK last, view : last = s.last /\ view = client[c].view
    OBVIOUS
  <2>7. /\ last \in Nat /\ last <= r /\ (Tail(q) = <<>> => last = r) /\ view \in Contents
        /\ streams' = [streams EXCEPT ![t] = [s EXCEPT !.queue = Tail(q), !.last = last]]
        /\ client' = [client EXCEPT ![c] = [client[c] EXCEPT !.view = view]]
        /\ \/ Gap(s) /\ last = s.last /\ view = client[c].view /\ m.revision <= last
           \/ Shows({l \in ToSet(Tail(q)) : l.revision > last}, view)
    BY <1>3, <1>5, <1>10, <2>1, <2>2, <2>3, <2>5, <2>6
  <2> QED BY <1>9, <2>7
<1>11. CASE m.revision > s.last /\ Contiguous(s, m)
            /\ streams' = [streams EXCEPT ![t].queue = Tail(@), ![t].last = m.revision]
            /\ client' = [client EXCEPT ![c].view = Reduce(@, m.message)]
  <2>1. PICK old, view : old = client[c].view /\ view = Reduce(old, m.message)
    OBVIOUS
  <2>2. /\ view \in Contents
        /\ \A d \in Clients :
             /\ view.members[d] =
                  IF m.message.kind \in MemberKinds /\ m.message.client = d
                  THEN m.message.value ELSE old.members[d]
             /\ view.states[d] =
                  IF m.message.kind \in StateKinds /\ m.message.client = d
                  THEN m.message.value ELSE old.states[d]
    BY <1>3, <1>7, <2>1, ReduceIs
  <2>3. streams' = [streams EXCEPT ![t] = [s EXCEPT !.queue = Tail(q), !.last = m.revision]]
    BY <1>1, <1>3, <1>11 DEF JoinStreams
  <2>4. client' = [client EXCEPT ![c] = [client[c] EXCEPT !.view = view]]
    BY <1>3, <1>11, <2>1 DEF Sessions
  <2>5. m \in Missing(s) /\ m.revision = s.last + 1
    BY <1>6, <1>8, <1>11 DEF Contiguous
  <2>6. Shows(Missing(s), old)
    BY <1>3, <2>1, <2>5 DEF Gap
  <2>7. {l \in ToSet(Tail(q)) : l.revision > m.revision} = Missing(s) \ {m}
    BY <1>5, <1>6, <1>7, <1>8, <2>5
  <2>8. /\ \A l \in Missing(s) : l.revision \in Nat
        /\ \A l \in Missing(s) \ {m} : m.revision < l.revision
    BY <1>6, <1>7, <1>8
  <2>9. Shows(Missing(s) \ {m}, view)
    BY <2>2, <2>5, <2>6, <2>8, BringsNext DEF Shows
  <2> QED BY <1>6, <1>7, <1>9, <2>2, <2>3, <2>4, <2>7, <2>9
<1>12. CASE m.revision > s.last /\ ~ Contiguous(s, m)
            /\ client' = Out(c) /\ UNCHANGED streams
  <2>1. PICK k \in Sessions : /\ k.phase = "out" /\ k.profile = client[c].profile
                              /\ Out(c) = [client EXCEPT ![c] = k]
    BY OutIs
  <2> QED BY <1>2, <1>12, <2>1, SessionEnds DEF hubVars
<1> QED BY <1>1, <1>10, <1>11, <1>12 DEF Deliver


(***************************************************************************)
(* A member leaves, and a session joins.                                   *)
(***************************************************************************)
LEMMA LeaveStep ==
  ASSUME ChannelInv, NEW c \in Clients, NEW subscribed,
         subscribed \in [DOMAIN subscribed -> JoinStreams],
         \A t \in DOMAIN subscribed :
           /\ t \in DOMAIN streams
           /\ subscribed[t].queue = streams[t].queue /\ subscribed[t].last = streams[t].last
           /\ subscribed[t].client = streams[t].client
           /\ subscribed[t].snapshot = streams[t].snapshot,
         Leave(c, subscribed), UNCHANGED <<retained, joins, client, update, claimed>>,
         \A d \in Clients : Followed(d) => client[d].token \in DOMAIN subscribed
  PROVE ChannelInv'
<1> USE DEF ChannelInv
<1>1. PICK m : m = Message("MemberLeft", c, None)
  OBVIOUS
<1>2. m \in HubMessages /\ m.kind = "MemberLeft" /\ m.client = c /\ m.value = None
  BY <1>1, MessageTyped DEF MemberKinds, Message
<1>3. /\ roster' = [roster EXCEPT ![c] = NoMember] /\ events' = events \ {c}
      /\ Publish(subscribed, <<m>>)
  BY <1>1 DEF Leave
<1>4. /\ roster' \in [Clients -> [token : Nat, value : Values \cup {None}]]
      /\ roster'[c].token = NoToken /\ roster'[c].value = None
      /\ \A d \in Clients \ {c} : roster'[d] = roster[d]
  BY <1>3 DEF ChannelTypeInv, NoMember, NoToken
<1>5. Told(m)
  BY <1>2, <1>4 DEF Told, MemberKinds, StateKinds
<1>6. /\ Carries(<<m>>) /\ DOMAIN streams' = DOMAIN subscribed
      /\ revision' \in Nat /\ streams' \in [DOMAIN streams' -> JoinStreams]
  BY <1>2, <1>3, <1>5, CarriesOne
<1>7. DOMAIN streams' \subseteq DOMAIN streams
  BY <1>6
<1>8. ChannelTypeInv'
  BY <1>3, <1>4, <1>6, <1>7 DEF ChannelTypeInv
<1>9. /\ \A t \in DOMAIN streams' : Numbered(streams[t])'
      /\ \A d \in Clients : FollowInv(d)'
  BY <1>2, <1>6, <1>7, PublishingStep
<1>10. ASSUME NEW d \in Clients PROVE ProfileInv(d)'
  <2>1. Current(d, client[d].token)' =>
          Current(d, client[d].token) /\ roster'[d].value = roster[d].value
    BY <1>4 DEF Current
  <2> QED BY <2>1, ProfileStays
<1> QED BY <1>8, <1>9, <1>10

LEMMA ExpireStep ==
  ASSUME ChannelInv, NEW c \in Clients, Expire(c) PROVE ChannelInv'
<1>1. PICK t : t = roster[c].token
  OBVIOUS
<1>2. PICK subscribed : subscribed = Departed(t)
  OBVIOUS
<1>3. /\ Leave(c, subscribed) /\ UNCHANGED <<retained, joins, client, update, claimed>>
  BY <1>1, <1>2 DEF Expire
<1>4. /\ subscribed \in [DOMAIN subscribed -> JoinStreams] /\ DOMAIN subscribed = DOMAIN streams
      /\ \A u \in DOMAIN streams :
           /\ subscribed[u].queue = streams[u].queue /\ subscribed[u].last = streams[u].last
           /\ subscribed[u].client = streams[u].client
           /\ subscribed[u].snapshot = streams[u].snapshot
  BY <1>2, EndTyped DEF Departed, ChannelInv
<1>5. \A d \in Clients : Followed(d) => client[d].token \in DOMAIN subscribed
  BY <1>4 DEF ChannelInv, FollowInv
<1> QED BY <1>3, <1>4, <1>5, LeaveStep

LEMMA ReleaseStep ==
  ASSUME ChannelInv, NEW t \in DOMAIN streams, Release(t) PROVE ChannelInv'
<1> USE DEF ChannelInv
<1>1. PICK c, others : c = streams[t].client /\ others = Restrict(streams, DOMAIN streams \ {t})
  OBVIOUS
<1>2. /\ c \in Clients
      /\ ~ (client[c].token = t /\ Followed(c))
      /\ IF Current(c, t) THEN Leave(c, others)
         ELSE streams' = others /\ UNCHANGED <<roster, events, revision>>
      /\ UNCHANGED <<retained, joins, client, update, claimed>>
  BY <1>1 DEF Release, Followed, ChannelTypeInv, JoinStreams
<1>3. /\ DOMAIN others = DOMAIN streams \ {t}
      /\ others \in [DOMAIN others -> JoinStreams]
      /\ \A u \in DOMAIN others : u \in DOMAIN streams /\ others[u] = streams[u]
  BY <1>1 DEF Restrict, ChannelTypeInv
<1>4. \A d \in Clients : Followed(d) => client[d].token \in DOMAIN others
  BY <1>1, <1>2, <1>3 DEF FollowInv
<1>5. CASE Current(c, t)
  BY <1>2, <1>3, <1>4, <1>5, LeaveStep
<1>6. CASE ~ Current(c, t)
  <2>1. streams' = others /\ UNCHANGED <<roster, events, revision>>
    BY <1>2, <1>6
  <2>2. ChannelTypeInv'
    BY <1>2, <1>3, <2>1 DEF ChannelTypeInv
  <2>3. ASSUME NEW u \in DOMAIN streams' PROVE Numbered(streams[u])'
    BY <1>3, <2>1 DEF Numbered
  <2>4. ASSUME NEW d \in Clients PROVE FollowInv(d)'
    <3>1. Followed(d) => /\ client[d].token \in DOMAIN streams'
                         /\ streams'[client[d].token] = streams[client[d].token]
      BY <1>3, <1>4, <2>1
    <3>2. Followed(d) => Seen(d)' = Seen(d)
      BY <1>2, <3>1 DEF Seen
    <3> QED BY <1>2, <2>1, <3>1, <3>2, FollowsStill DEF Followed
  <2>5. ASSUME NEW d \in Clients PROVE ProfileInv(d)'
    BY <1>2, <2>1, ProfileStays DEF Current
  <2> QED BY <2>2, <2>3, <2>4, <2>5
<1> QED BY <1>5, <1>6

LEMMA RevokeStep ==
  ASSUME ChannelInv, NEW c \in Clients, Revoke(c) PROVE ChannelInv'
<1> USE DEF ChannelInv
<1>1. PICK t : t = client[c].token
  OBVIOUS
<1>2. /\ streams' = EndStream(t, "failed")
      /\ UNCHANGED <<roster, retained, events, revision, joins, client, update, claimed>>
  BY <1>1 DEF Revoke
<1>3. /\ streams' \in [DOMAIN streams' -> JoinStreams] /\ DOMAIN streams' = DOMAIN streams
      /\ \A u \in DOMAIN streams :
           /\ streams'[u].queue = streams[u].queue /\ streams'[u].last = streams[u].last
           /\ streams'[u].client = streams[u].client
           /\ streams'[u].snapshot = streams[u].snapshot
  BY <1>2, EndTyped
<1>4. ChannelTypeInv'
  BY <1>2, <1>3 DEF ChannelTypeInv
<1>5. ASSUME NEW u \in DOMAIN streams' PROVE Numbered(streams[u])'
  BY <1>2, <1>3 DEF Numbered
<1>6. ASSUME NEW d \in Clients PROVE FollowInv(d)'
  <2>1. Followed(d) => client[d].token \in DOMAIN streams
    BY DEF FollowInv
  <2>2. Followed(d) => Seen(d)' = Seen(d)
    BY <1>2, <1>3, <2>1 DEF Seen
  <2> QED BY <1>2, <1>3, <2>1, <2>2, FollowsStill DEF Followed
<1>7. ASSUME NEW d \in Clients PROVE ProfileInv(d)'
  BY <1>2, ProfileStays DEF Current
<1> QED BY <1>4, <1>5, <1>6, <1>7

LEMMA JoinStep ==
  ASSUME ChannelInv, NEW c \in Clients, Join(c) PROVE ChannelInv'
<1> USE DEF ChannelInv
<1>1. PICK t, mine, previous, before :
        /\ t = joins + 1 /\ mine = client[c].value /\ previous = roster[c].token
        /\ before = IF previous = NoToken THEN streams ELSE EndStream(previous, "failed")
  OBVIOUS
<1>2. PICK m, clears, messages :
        /\ clears = IF previous # NoToken /\ c \in events
                    THEN <<Message("EventCleared", c, None)>> ELSE <<>>
        /\ m = Message("MemberUpserted", c, mine)
        /\ messages = Append(clears, m)
  OBVIOUS
<1>3. PICK opened, subscribed :
        /\ opened = [client |-> c, queue |-> <<>>, ended |-> "no",
                     last |-> revision + Len(messages),
                     snapshot |->
                       [members |-> [d \in Clients |->
                          [roster EXCEPT ![c] = [token |-> t, value |-> mine]][d].value],
                        states |-> retained]]
        /\ subscribed = [s \in DOMAIN streams \cup {t} |-> IF s = t THEN opened ELSE before[s]]
  OBVIOUS
<1>4. /\ client[c].phase = "joining"
      /\ joins' = t /\ roster' = [roster EXCEPT ![c] = [token |-> t, value |-> mine]]
      /\ events' = events \ {c}
      /\ Publish(subscribed, messages)
      /\ client' = [client EXCEPT ![c].phase = "accepted", ![c].token = t]
      /\ UNCHANGED <<retained, update, claimed>>
  BY <1>1, <1>2, <1>3 DEF Join
<1>5. /\ joins \in Nat /\ t \in Nat /\ t \notin DOMAIN streams /\ t # NoToken
      /\ DOMAIN streams \subseteq 1 .. t
      /\ client \in [Clients -> Sessions] /\ mine \in Values /\ revision \in Nat
  BY <1>1 DEF ChannelTypeInv, Sessions, NoToken
<1>6. /\ roster' \in [Clients -> [token : Nat, value : Values \cup {None}]]
      /\ roster'[c].token = t /\ roster'[c].value = mine
      /\ \A d \in Clients \ {c} : roster'[d] = roster[d]
  BY <1>4, <1>5 DEF ChannelTypeInv
<1>7. m \in HubMessages /\ m.kind = "MemberUpserted" /\ m.client = c /\ m.value = mine
  BY <1>2, <1>5, MessageTyped DEF MemberKinds, Message
<1>8. /\ messages \in Seq(HubMessages) /\ messages # <<>> /\ Len(messages) \in Nat
      /\ messages[Len(messages)] = m
      /\ \A i \in 1 .. Len(messages) :
           messages[i].kind \in {"EventCleared", "MemberUpserted"} /\ messages[i].client = c
      /\ \A i \in 1 .. Len(messages) : i # Len(messages) => messages[i].kind = "EventCleared"
  <2>1. /\ Message("EventCleared", c, None) \in HubMessages
        /\ Message("EventCleared", c, None).kind = "EventCleared"
        /\ Message("EventCleared", c, None).client = c
    BY MessageTyped DEF Message
  <2>2. /\ clears \in Seq(HubMessages) /\ Len(clears) \in Nat
        /\ \A i \in 1 .. Len(clears) : clears[i].kind = "EventCleared" /\ clears[i].client = c
    <3>1. CASE clears = <<>>
      BY <3>1
    <3>2. CASE clears = <<Message("EventCleared", c, None)>>
      BY <2>1, <3>2
    <3> QED BY <1>2, <3>1, <3>2
  <2>3. /\ messages \in Seq(HubMessages) /\ Len(messages) = Len(clears) + 1
        /\ messages[Len(messages)] = m
        /\ \A i \in 1 .. Len(clears) : messages[i] = clears[i]
    BY <1>2, <1>7, <2>2
  <2>4. \A i \in 1 .. Len(messages) : i = Len(messages) \/ i \in 1 .. Len(clears)
    BY <2>2, <2>3
  <2> QED BY <1>7, <2>2, <2>3, <2>4
<1>9. /\ before \in [DOMAIN streams -> JoinStreams]
      /\ \A u \in DOMAIN streams :
           /\ before[u].queue = streams[u].queue /\ before[u].last = streams[u].last
           /\ before[u].client = streams[u].client
           /\ before[u].snapshot = streams[u].snapshot
  BY <1>1, EndTyped DEF ChannelTypeInv
<1>10. PICK snapshot : snapshot = opened.snapshot
  OBVIOUS
<1>11. /\ opened \in JoinStreams /\ opened.client = c /\ opened.queue = <<>>
       /\ opened.last = revision + Len(messages) /\ snapshot \in Contents
       /\ \A d \in Clients : snapshot.members[d] = roster'[d].value
       /\ snapshot.states = retained
  <2>1. /\ opened.client = c /\ opened.queue = <<>> /\ opened.ended = "no"
        /\ opened.last = revision + Len(messages)
        /\ opened.snapshot = [members |-> [d \in Clients |-> roster'[d].value],
                              states |-> retained]
    BY <1>3, <1>4
  <2>2. [d \in Clients |-> roster'[d].value] \in [Clients -> Values \cup {None}]
    BY <1>6
  <2>3. snapshot \in Contents /\ (\A d \in Clients : snapshot.members[d] = roster'[d].value)
        /\ snapshot.states = retained
    BY <1>10, <2>1, <2>2 DEF Contents, ChannelTypeInv
  <2>4. opened \in JoinStreams
    BY <1>3, <1>5, <1>8, <1>10, <2>1, <2>3 DEF JoinStreams
  <2> QED BY <2>1, <2>3, <2>4
<1>12. /\ subscribed \in [DOMAIN subscribed -> JoinStreams]
       /\ DOMAIN subscribed = DOMAIN streams \cup {t}
       /\ subscribed[t] = opened
       /\ \A u \in DOMAIN streams : subscribed[u] = before[u]
  BY <1>3, <1>5, <1>9, <1>11
<1>13. /\ revision' = revision + Len(messages) /\ revision' \in Nat
       /\ streams' \in [DOMAIN streams' -> JoinStreams]
       /\ DOMAIN streams' = DOMAIN streams \cup {t}
       /\ \A u \in DOMAIN streams' :
            /\ streams'[u].queue = Slide(subscribed[u].queue \o Numbering(messages))
            /\ streams'[u].last = subscribed[u].last
            /\ streams'[u].client = subscribed[u].client
            /\ streams'[u].snapshot = subscribed[u].snapshot
  <2>1. ChannelTypeInv
    OBVIOUS
  <2> QED BY <1>4, <1>8, <1>12, <2>1, PublishTyped
<1>14. PICK k : k = [client[c] EXCEPT !.phase = "accepted", !.token = t]
  OBVIOUS
<1>15. /\ k \in Sessions /\ k.phase = "accepted" /\ k.token = t
       /\ k.profile = client[c].profile /\ k.value = client[c].value
  BY <1>5, <1>14 DEF Sessions
<1>16. /\ client' \in [Clients -> Sessions] /\ client'[c] = k
       /\ \A d \in Clients \ {c} : client'[d] = client[d]
  <2>1. client' = [client EXCEPT ![c] = k]
    BY <1>4, <1>5, <1>14
  <2>2. client \in [Clients -> Sessions] /\ k \in Sessions /\ c \in Clients
    BY <1>5, <1>15
  <2>3. client' \in [Clients -> Sessions]
    BY ONLY <2>1, <2>2
  <2>4. client'[c] = k
    BY ONLY <2>1, <2>2
  <2>5. \A d \in Clients \ {c} : client'[d] = client[d]
    BY ONLY <2>1, <2>2
  <2> QED BY ONLY <2>3, <2>4, <2>5
<1>17. ChannelTypeInv'
  <2>1. joins' \in Nat /\ DOMAIN streams' \subseteq 1 .. joins'
    <3>1. t \in Nat /\ t >= 1 /\ joins' = t
      BY <1>1, <1>4, <1>5
    <3>2. t \in 1 .. t
      BY ONLY <3>1
    <3>3. DOMAIN streams' \subseteq 1 .. t
      BY ONLY <1>5, <1>13, <3>2
    <3> QED BY ONLY <3>1, <3>3
  <2>2. /\ retained' \in [Clients -> States \cup {None}] /\ events' \subseteq Clients
        /\ update' \in [Clients -> Updates] /\ claimed' \in [Clients -> SUBSET Values]
    BY <1>4 DEF ChannelTypeInv
  <2> QED BY ONLY <1>6, <1>13, <1>16, <2>1, <2>2 DEF ChannelTypeInv
<1>18. ASSUME NEW d \in Clients
       PROVE /\ Brings(New(messages), MemberKinds, d, roster[d].value, roster'[d].value)
             /\ Brings(New(messages), StateKinds, d, retained[d], retained'[d])
  <2>1. /\ \A l \in New(messages) :
             /\ l.message.client = c
             /\ l.message.kind \in {"EventCleared", "MemberUpserted"}
             /\ l.revision <= revision + Len(messages)
        /\ [message |-> m, revision |-> revision + Len(messages)] \in New(messages)
    <3>1. PICK n : n = Len(messages)
      OBVIOUS
    <3>2. n \in Nat /\ n \in 1 .. n /\ messages[n] = m /\ revision \in Nat
      <4>1. n \in Nat /\ n # 0 /\ messages[n] = m /\ revision \in Nat
        BY <1>5, <1>8, <3>1
      <4> QED BY ONLY <4>1
    <3>3. New(messages) = {[message |-> messages[i], revision |-> revision + i] : i \in 1 .. n}
      BY <1>8, <3>1 DEF New
    <3>4. [message |-> m, revision |-> revision + n] \in New(messages)
      BY ONLY <3>2, <3>3
    <3>5. ASSUME NEW l \in New(messages)
          PROVE  /\ l.message.client = c
                 /\ l.message.kind \in {"EventCleared", "MemberUpserted"}
                 /\ l.revision <= revision + n
      <4>1. PICK i \in 1 .. n : l = [message |-> messages[i], revision |-> revision + i]
        BY ONLY <3>3, <3>5
      <4>2. messages[i].client = c /\ messages[i].kind \in {"EventCleared", "MemberUpserted"}
        BY <1>8, <3>1
      <4> QED BY ONLY <3>2, <4>1, <4>2
    <3> QED BY ONLY <3>1, <3>4, <3>5
  <2>2. Brings(New(messages), StateKinds, d, retained[d], retained'[d])
    BY <1>4, <2>1 DEF Brings, StateKinds
  <2>3. Brings(New(messages), MemberKinds, d, roster[d].value, roster'[d].value)
    <3>1. CASE d = c
      <4>1. PICK l : l = [message |-> m, revision |-> revision + Len(messages)]
        OBVIOUS
      <4>2. /\ l \in New(messages) /\ l.message = m /\ m.kind \in MemberKinds
            /\ l.revision = revision + Len(messages)
        BY <1>7, <2>1, <4>1 DEF MemberKinds
      <4> QED BY <1>6, <1>7, <2>1, <3>1, <4>2 DEF Brings
    <3>2. CASE d # c
      BY <1>6, <2>1, <3>2 DEF Brings
    <3> QED BY <3>1, <3>2
  <2> QED BY <2>2, <2>3
<1>19. Carries(messages)
  BY <1>9, <1>12, <1>13, <1>18 DEF Carries
<1>20. Numbered(streams[t])' /\ Missing(streams[t])' = {}
  <2>1. PICK q : q = Numbering(messages)
    OBVIOUS
  <2>2. /\ q \in Seq(Deltas) /\ q # <<>> /\ Len(q) = Len(messages)
        /\ \A i \in DOMAIN q : q[i].revision = revision + i
        /\ ToSet(q) = New(messages)
        /\ \A l \in New(messages) :
             l.revision \in Nat /\ l.revision > revision /\ l.revision <= revision + Len(messages)
    BY <1>5, <1>8, <2>1, NumberingIs
  <2>3. PICK e, r : e = <<>> /\ r = revision
    OBVIOUS
  <2>4. /\ e \in Seq(Deltas) /\ r \in Nat /\ ToSet(e) = {}
        /\ \A i \in DOMAIN e : e[i].revision + Len(e) = r + i
        /\ \A i \in DOMAIN q : q[i].revision = r + i
    BY <1>5, <2>2, <2>3 DEF ToSet
  <2>5. /\ Slide(e \o q) \in Seq(Deltas) /\ Slide(e \o q) # <<>>
        /\ \A i \in DOMAIN Slide(e \o q) :
             Slide(e \o q)[i].revision + Len(Slide(e \o q)) = r + Len(q) + i
        /\ \A l : l \in ToSet(Slide(e \o q)) <=>
             l \in ToSet(e) \cup ToSet(q) /\ l.revision + Len(Slide(e \o q)) > r + Len(q)
    BY <2>2, <2>4, SlideKeepsLast
  <2>6. /\ t \in DOMAIN streams' /\ streams'[t].queue = Slide(e \o q)
        /\ streams'[t].last = revision'
    BY <1>11, <1>12, <1>13, <2>1, <2>3
  <2>7. \A l \in ToSet(streams'[t].queue) : ~ (l.revision > revision')
    BY <1>5, <1>8, <1>13, <2>2, <2>4, <2>5, <2>6
  <2>8. Missing(streams[t])' = {}
    BY <2>6, <2>7 DEF Missing
  <2>9. /\ \A i \in DOMAIN streams'[t].queue :
             streams'[t].queue[i].revision + Len(streams'[t].queue) = revision' + i
        /\ streams'[t].queue # <<>>
    BY <1>13, <2>2, <2>3, <2>5, <2>6
  <2>10. streams'[t].last <= revision'
    BY <1>13, <2>6
  <2> QED BY <2>8, <2>9, <2>10 DEF Numbered
<1>21. ASSUME NEW u \in DOMAIN streams' PROVE Numbered(streams[u])'
  <2>1. CASE u = t
    BY <1>20, <2>1
  <2>2. CASE u # t
    <3>1. u \in DOMAIN streams \cap DOMAIN streams' /\ Numbered(streams[u]) /\ ChannelTypeInv
      BY <1>13, <2>2
    <3> QED BY <1>8, <1>19, <3>1, StreamKeepsUp
  <2> QED BY <2>1, <2>2
<1>22. FollowInv(c)'
  <2>1. /\ client'[c].token = t /\ t \in DOMAIN streams' /\ streams'[t].client = c
        /\ Seen(c)' = snapshot
    BY <1>10, <1>11, <1>12, <1>13, <1>15, <1>16 DEF Seen
  <2>2. (Shows(Missing(streams[t]), snapshot))'
    BY <1>4, <1>11, <1>20 DEF Shows, Brings
  <2> QED BY <1>11, <2>1, <2>2 DEF FollowInv
<1>23. ASSUME NEW d \in Clients \ {c} PROVE FollowInv(d)'
  <2>1. CASE Followed(d)
    <3>1. client'[d] = client[d] /\ client[d].token \in DOMAIN streams'
      BY <1>13, <1>16, <2>1 DEF FollowInv
    <3> QED BY <1>8, <1>19, <2>1, <3>1, FollowsOn
  <2>2. CASE ~ Followed(d)
    BY <1>16, <2>2 DEF FollowInv, Followed
  <2> QED BY <2>1, <2>2
<1>24. ASSUME NEW d \in Clients PROVE ProfileInv(d)'
  <2>1. ProfileInv(d)
    OBVIOUS
  <2>2. CASE d = c
    BY <1>1, <1>4, <1>6, <1>15, <1>16, <2>1, <2>2
       DEF ProfileInv, Followed, Updating, Current
  <2>3. CASE d # c
    BY <1>4, <1>6, <1>16, <2>1, <2>3 DEF ProfileInv, Followed, Updating, Current
  <2> QED BY <2>2, <2>3
<1> QED BY <1>17, <1>21, <1>22, <1>23, <1>24


(***************************************************************************)
(* The hub moves: every session is out.                                    *)
(***************************************************************************)
LEMMA HubMovesStep ==
  ASSUME ChannelInv, HubMoves PROVE ChannelInv'
<1> USE DEF ChannelInv
<1>1. /\ roster' = [c \in Clients |-> NoMember] /\ retained' = [c \in Clients |-> None]
      /\ events' = {} /\ revision' = 0 /\ streams' = << >>
      /\ update' = [c \in Clients |->
           IF update[c].status = "sent" THEN [update[c] EXCEPT !.status = "refused"]
           ELSE update[c]]
      /\ UNCHANGED <<joins, claimed>>
  BY DEF HubMoves
<1>2. client \in [Clients -> Sessions] /\ update \in [Clients -> Updates]
  BY DEF ChannelTypeInv
<1>3. ASSUME NEW c \in Clients
      PROVE /\ client'[c] \in Sessions
            /\ client'[c].phase \in {"out", "failed", "closed"}
            /\ client'[c].profile = client[c].profile
            /\ Followed(c) \/ client[c].phase = "joining" => client'[c].phase = "out"
            /\ client[c].phase \in {"out", "failed", "closed"} => client'[c] = client[c]
  <2>1. client'[c] = IF client[c].phase \in {"joining", "accepted", "live"}
                     THEN PresentUnknown(Out(c), c)[c] ELSE client[c]
    BY DEF HubMoves
  <2>2. PICK r \in Sessions : /\ r.phase = "out" /\ r.profile = client[c].profile
                              /\ Out(c) = [client EXCEPT ![c] = r]
    BY OutIs
  <2>3. PresentUnknown(Out(c), c)[c] = [r EXCEPT !.view = Unknown]
    BY <1>2, <2>2 DEF PresentUnknown
  <2>4. PICK k : k = [r EXCEPT !.view = Unknown]
    OBVIOUS
  <2>5. k \in Sessions /\ k.phase = "out" /\ k.profile = client[c].profile
    BY <2>2, <2>4 DEF Sessions
  <2>6. client[c] \in Sessions
    BY <1>2
  <2>7. client[c].phase \in {"out", "joining", "accepted", "live", "failed", "closed"}
    BY <2>6 DEF Sessions
  <2> QED BY <2>1, <2>3, <2>4, <2>5, <2>6, <2>7 DEF Followed
<1>4. client' = [c \in Clients |-> client'[c]]
  BY DEF HubMoves
<1>5. client' \in [Clients -> Sessions]
  BY <1>3, <1>4
<1>6. ASSUME NEW c \in Clients
      PROVE /\ update'[c] \in Updates /\ update'[c].token = update[c].token
            /\ update'[c].value = update[c].value
            /\ update'[c].status =
                 IF update[c].status = "sent" THEN "refused" ELSE update[c].status
  BY <1>1, <1>2 DEF Updates
<1>7. update' \in [Clients -> Updates]
  BY <1>1, <1>6
<1>8. /\ roster' \in [Clients -> [token : Nat, value : Values \cup {None}]]
      /\ retained' \in [Clients -> States \cup {None}]
  BY <1>1 DEF NoMember, NoToken
<1>9. /\ streams' \in [DOMAIN streams' -> JoinStreams] /\ DOMAIN streams' = {}
  BY <1>1
<1>10. ChannelTypeInv'
  BY <1>1, <1>5, <1>7, <1>8, <1>9 DEF ChannelTypeInv
<1>11. \A u \in DOMAIN streams' : Numbered(streams[u])'
  BY <1>9
<1>12. ASSUME NEW c \in Clients PROVE FollowInv(c)'
  BY <1>3 DEF FollowInv, Followed
<1>13. ASSUME NEW c \in Clients PROVE ProfileInv(c)'
  <2>1. ProfileInv(c)
    OBVIOUS
  <2>2. Updating(c)' => Updating(c)
    BY <1>6 DEF Updating
  <2>3. client'[c].phase \in {"out", "failed", "closed"} /\ ~ Followed(c)'
    BY <1>3 DEF Followed
  <2>4. Updating(c)' => client'[c].phase \in {"out", "failed"}
    BY <1>3, <2>1, <2>2 DEF ProfileInv, Followed
  <2> QED BY <1>1, <1>3, <1>6, <2>1, <2>3, <2>4 DEF ProfileInv
<1> QED BY <1>10, <1>11, <1>12, <1>13

(***************************************************************************)
(* The updates of a profile.                                               *)
(***************************************************************************)
LEMMA HubStays ==
  ASSUME ChannelInv, UNCHANGED hubVars, client' \in [Clients -> Sessions],
         update' \in [Clients -> Updates], claimed' \in [Clients -> SUBSET Values],
         \A c \in Clients : /\ client'[c].phase = client[c].phase
                            /\ client'[c].token = client[c].token
                            /\ client'[c].view = client[c].view
                            /\ ProfileInv(c)'
  PROVE ChannelInv'
<1> USE DEF ChannelInv, hubVars
<1>1. ChannelTypeInv'
  BY DEF ChannelTypeInv
<1>2. \A u \in DOMAIN streams' : Numbered(streams[u])'
  BY DEF Numbered
<1>3. ASSUME NEW c \in Clients PROVE FollowInv(c)'
  <2>1. FollowInv(c)
    OBVIOUS
  <2>2. Followed(c) => client[c].token \in DOMAIN streams
    BY <2>1 DEF FollowInv
  <2>3. Seen(c)' = Seen(c) /\ (Followed(c)' <=> Followed(c))
    BY DEF Seen, Followed
  <2> QED BY <2>1, <2>2, <2>3, FollowsStill
<1> QED BY <1>1, <1>2, <1>3

LEMMA UpdateMemberStep ==
  ASSUME ChannelInv, NEW c \in Clients, UpdateMember(c) PROVE ChannelInv'
<1>1. PICK v \in Values :
        /\ update' = [update EXCEPT ![c] =
                        [status |-> "sent", token |-> client[c].token, value |-> v]]
        /\ claimed' = [claimed EXCEPT ![c] = @ \cup {v}]
  BY DEF UpdateMember
<1>2. client[c].phase = "live" /\ ~ Updating(c) /\ UNCHANGED <<hubVars, client>>
  BY DEF UpdateMember
<1>3. /\ client \in [Clients -> Sessions] /\ update \in [Clients -> Updates]
      /\ claimed \in [Clients -> SUBSET Values] /\ client[c].token \in Nat
  BY DEF ChannelInv, ChannelTypeInv, Sessions
<1>4. /\ update' \in [Clients -> Updates] /\ claimed' \in [Clients -> SUBSET Values]
      /\ update'[c].status = "sent" /\ update'[c].token = client[c].token
      /\ update'[c].value = v /\ claimed'[c] = claimed[c] \cup {v}
      /\ \A d \in Clients \ {c} : update'[d] = update[d] /\ claimed'[d] = claimed[d]
  BY <1>1, <1>3 DEF Updates
<1>5. ASSUME NEW d \in Clients PROVE ProfileInv(d)'
  <2>1. ProfileInv(d)
    BY DEF ChannelInv
  <2>2. CASE d = c
    BY <1>2, <1>4, <2>1, <2>2 DEF ProfileInv, Followed, Updating, Current, hubVars
  <2>3. CASE d # c
    BY <1>2, <1>4, <2>1, <2>3 DEF ProfileInv, Followed, Updating, Current, hubVars
  <2> QED BY <2>2, <2>3
<1> QED BY <1>2, <1>3, <1>4, <1>5, HubStays

LEMMA UpdateAnsweredStep ==
  ASSUME ChannelInv, NEW c \in Clients, UpdateAnswered(c) PROVE ChannelInv'
<1>1. PICK v, accepted : v = update[c].value /\ accepted = (update[c].status = "applied")
  OBVIOUS
<1>2. /\ update[c].status \in {"applied", "refused"}
      /\ update' = [update EXCEPT ![c].status = "none"]
      /\ UNCHANGED hubVars
      /\ update[c].status = "applied" =>
           /\ client' = [client EXCEPT ![c].profile = v]
           /\ claimed' = [claimed EXCEPT ![c] = {v}]
      /\ update[c].status # "applied" => UNCHANGED <<client, claimed>>
  BY <1>1 DEF UpdateAnswered
<1>3. /\ client \in [Clients -> Sessions] /\ update \in [Clients -> Updates]
      /\ claimed \in [Clients -> SUBSET Values] /\ v \in Values
  BY <1>1 DEF ChannelInv, ChannelTypeInv, Updates
<1>4. /\ update' \in [Clients -> Updates] /\ update'[c].status = "none"
      /\ \A d \in Clients \ {c} : update'[d] = update[d]
  BY <1>2, <1>3 DEF Updates
<1>5. ProfileInv(c) /\ Updating(c)
  BY <1>2 DEF ChannelInv, Updating
<1>6. CASE update[c].status = "applied"
  <2>1. /\ client' \in [Clients -> Sessions] /\ claimed' \in [Clients -> SUBSET Values]
        /\ client'[c].phase = client[c].phase /\ client'[c].token = client[c].token
        /\ client'[c].view = client[c].view /\ client'[c].profile = v
        /\ claimed'[c] = {v}
        /\ \A d \in Clients \ {c} : client'[d] = client[d] /\ claimed'[d] = claimed[d]
    BY <1>2, <1>3, <1>6 DEF Sessions
  <2>2. ASSUME NEW d \in Clients PROVE ProfileInv(d)'
    <3>1. ProfileInv(d)
      BY DEF ChannelInv
    <3>2. CASE d = c
      BY <1>1, <1>2, <1>4, <1>5, <1>6, <2>1, <3>2
         DEF ProfileInv, Followed, Updating, Current, hubVars
    <3>3. CASE d # c
      BY <1>2, <1>4, <2>1, <3>1, <3>3 DEF ProfileInv, Followed, Updating, Current, hubVars
    <3> QED BY <3>2, <3>3
  <2>3. \A d \in Clients : /\ client'[d].phase = client[d].phase
                           /\ client'[d].token = client[d].token
                           /\ client'[d].view = client[d].view
    BY <2>1
  <2> QED BY <1>2, <1>4, <2>1, <2>2, <2>3, HubStays
<1>7. CASE update[c].status # "applied"
  <2>1. UNCHANGED <<client, claimed>>
    BY <1>2, <1>7
  <2>2. ASSUME NEW d \in Clients PROVE ProfileInv(d)'
    <3>1. ProfileInv(d)
      BY DEF ChannelInv
    <3>2. CASE d = c
      BY <1>2, <1>4, <2>1, <3>1, <3>2 DEF ProfileInv, Followed, Updating, Current, hubVars
    <3>3. CASE d # c
      BY <1>2, <1>4, <2>1, <3>1, <3>3 DEF ProfileInv, Followed, Updating, Current, hubVars
    <3> QED BY <3>2, <3>3
  <2> QED BY <1>2, <1>3, <1>4, <2>1, <2>2, HubStays
<1> QED BY <1>6, <1>7

LEMMA UpdateFailsStep ==
  ASSUME ChannelInv, NEW c \in Clients, UpdateFails(c) PROVE ChannelInv'
<1>1. /\ update' = [update EXCEPT ![c].status =
                      IF update[c].status = "sent" THEN "lost" ELSE "none"]
      /\ UNCHANGED <<hubVars, client, claimed>>
  BY DEF UpdateFails
<1>2. /\ client \in [Clients -> Sessions] /\ update \in [Clients -> Updates]
      /\ claimed \in [Clients -> SUBSET Values]
  BY DEF ChannelInv, ChannelTypeInv
<1>3. /\ update' \in [Clients -> Updates] /\ update'[c].token = update[c].token
      /\ update'[c].value = update[c].value
      /\ update'[c].status = IF update[c].status = "sent" THEN "lost" ELSE "none"
      /\ \A d \in Clients \ {c} : update'[d] = update[d]
  BY <1>1, <1>2 DEF Updates
<1>4. ASSUME NEW d \in Clients PROVE ProfileInv(d)'
  <2>1. ProfileInv(d)
    BY DEF ChannelInv
  <2>2. CASE d = c
    BY <1>1, <1>3, <2>1, <2>2 DEF ProfileInv, Followed, Updating, Current, hubVars
  <2>3. CASE d # c
    BY <1>1, <1>3, <2>1, <2>3 DEF ProfileInv, Followed, Updating, Current, hubVars
  <2> QED BY <2>2, <2>3
<1> QED BY <1>1, <1>2, <1>3, <1>4, HubStays

LEMMA UpdateAtHubStep ==
  ASSUME ChannelInv, NEW c \in Clients, UpdateAtHub(c) PROVE ChannelInv'
<1>1. PICK v : v = update[c].value
  OBVIOUS
<1>2. /\ client \in [Clients -> Sessions] /\ update \in [Clients -> Updates]
      /\ claimed \in [Clients -> SUBSET Values] /\ v \in Values
  BY <1>1 DEF ChannelInv, ChannelTypeInv, Updates
<1>3. /\ update[c].status \in {"sent", "lost"}
      /\ UNCHANGED <<retained, events, joins, client, claimed>>
      /\ \/ /\ Current(c, update[c].token)
            /\ update' = [update EXCEPT ![c].status =
                            IF update[c].status = "lost" THEN "none" ELSE "applied"]
            /\ roster' = [roster EXCEPT ![c].value = v]
            /\ Publish(streams, <<Message("MemberUpserted", c, v)>>)
         \/ /\ ~ Current(c, update[c].token)
            /\ update' = [update EXCEPT ![c].status =
                            IF update[c].status = "lost" THEN "none" ELSE "refused"]
            /\ UNCHANGED <<roster, streams, revision>>
  BY <1>1 DEF UpdateAtHub
<1>4. ProfileInv(c)
  BY DEF ChannelInv
<1>5. CASE ~ Current(c, update[c].token)
  <2>1. /\ update' = [update EXCEPT ![c].status =
                        IF update[c].status = "lost" THEN "none" ELSE "refused"]
        /\ UNCHANGED <<hubVars, client, claimed>>
    BY <1>3, <1>5 DEF hubVars
  <2>2. /\ update' \in [Clients -> Updates] /\ update'[c].token = update[c].token
        /\ update'[c].value = v
        /\ update'[c].status = IF update[c].status = "lost" THEN "none" ELSE "refused"
        /\ \A d \in Clients \ {c} : update'[d] = update[d]
    BY <1>1, <1>2, <2>1 DEF Updates
  <2>3. ASSUME NEW d \in Clients PROVE ProfileInv(d)'
    <3>1. ProfileInv(d)
      BY DEF ChannelInv
    <3>2. CASE d = c
      BY <1>3, <2>1, <2>2, <3>1, <3>2 DEF ProfileInv, Followed, Updating, Current, hubVars
    <3>3. CASE d # c
      BY <2>1, <2>2, <3>1, <3>3 DEF ProfileInv, Followed, Updating, Current, hubVars
    <3> QED BY <3>2, <3>3
  <2> QED BY <1>2, <2>1, <2>2, <2>3, HubStays
<1>6. CASE Current(c, update[c].token)
  <2>1. /\ update' = [update EXCEPT ![c].status =
                        IF update[c].status = "lost" THEN "none" ELSE "applied"]
        /\ roster' = [roster EXCEPT ![c].value = v]
        /\ Publish(streams, <<Message("MemberUpserted", c, v)>>)
    BY <1>3, <1>6
  <2>2. /\ update' \in [Clients -> Updates] /\ update'[c].token = update[c].token
        /\ update'[c].value = v
        /\ update'[c].status = IF update[c].status = "lost" THEN "none" ELSE "applied"
        /\ \A d \in Clients \ {c} : update'[d] = update[d]
    BY <1>1, <1>2, <2>1 DEF Updates
  <2>3. /\ roster' \in [Clients -> [token : Nat, value : Values \cup {None}]]
        /\ roster'[c].token = roster[c].token /\ roster'[c].value = v
        /\ \A d \in Clients \ {c} : roster'[d] = roster[d]
    BY <1>2, <2>1 DEF ChannelInv, ChannelTypeInv
  <2>4. PICK m : m = Message("MemberUpserted", c, v)
    OBVIOUS
  <2>5. m \in HubMessages /\ m.kind = "MemberUpserted" /\ m.client = c /\ m.value = v
    BY <1>2, <2>4, MessageTyped DEF MemberKinds, Message
  <2>6. Told(m)
    BY <1>3, <2>3, <2>5 DEF Told, MemberKinds, StateKinds
  <2>7. /\ Carries(<<m>>) /\ DOMAIN streams' = DOMAIN streams
        /\ revision' \in Nat /\ streams' \in [DOMAIN streams' -> JoinStreams]
    BY <2>1, <2>4, <2>5, <2>6, CarriesOne DEF ChannelInv, ChannelTypeInv
  <2>8. ChannelTypeInv'
    BY <1>3, <2>2, <2>3, <2>7 DEF ChannelInv, ChannelTypeInv
  <2>9. /\ \A t \in DOMAIN streams' : Numbered(streams[t])'
        /\ \A d \in Clients : FollowInv(d)'
    BY <1>3, <2>5, <2>7, PublishingStep DEF ChannelInv, FollowInv
  <2>10. ASSUME NEW d \in Clients PROVE ProfileInv(d)'
    <3>1. ProfileInv(d)
      BY DEF ChannelInv
    <3>2. CASE d = c
      BY <1>1, <1>3, <2>2, <2>3, <3>1, <3>2 DEF ProfileInv, Followed, Updating, Current
    <3>3. CASE d # c
      BY <1>3, <2>2, <2>3, <3>1, <3>3 DEF ProfileInv, Followed, Updating, Current
    <3> QED BY <3>2, <3>3
  <2> QED BY <2>8, <2>9, <2>10 DEF ChannelInv
<1> QED BY <1>5, <1>6

-----------------------------------------------------------------------------
(***************************************************************************)
(* The invariant of the channel, and what follows from it.                 *)
(***************************************************************************)
LEMMA ChannelInitially == ChannelInit => ChannelInv
<1> SUFFICES ASSUME ChannelInit PROVE ChannelInv
  OBVIOUS
<1> USE DEF ChannelInit
<1>1. /\ client \in [Clients -> Sessions] /\ update \in [Clients -> Updates]
      /\ claimed \in [Clients -> SUBSET Values]
      /\ roster \in [Clients -> [token : Nat, value : Values \cup {None}]]
  BY ChannelAssumption DEF Sessions, Updates, NoToken, NoMember
<1>2. streams \in [DOMAIN streams -> JoinStreams] /\ DOMAIN streams = {}
  OBVIOUS
<1>3. ChannelTypeInv
  BY <1>1, <1>2 DEF ChannelTypeInv, NoToken
<1>4. \A c \in Clients : FollowInv(c) /\ ProfileInv(c)
  BY DEF FollowInv, ProfileInv, Followed, Updating
<1> QED BY <1>2, <1>3, <1>4 DEF ChannelInv

LEMMA ChannelStepKeeps == ChannelInv /\ [ChannelNext]_channelVars => ChannelInv'
<1> SUFFICES ASSUME ChannelInv, [ChannelNext]_channelVars PROVE ChannelInv'
  OBVIOUS
<1>1. CASE UNCHANGED channelVars
  <2>1. /\ UNCHANGED hubVars /\ client' = client /\ update' = update /\ claimed' = claimed
    BY <1>1 DEF channelVars
  <2>2. ASSUME NEW c \in Clients PROVE ProfileInv(c)'
    <3>1. ProfileInv(c) /\ roster' = roster
      BY <2>1 DEF ChannelInv, hubVars
    <3> QED BY ONLY <2>1, <3>1 DEF ProfileInv, Updating, Current, Followed
  <2>3. /\ client \in [Clients -> Sessions] /\ update \in [Clients -> Updates]
        /\ claimed \in [Clients -> SUBSET Values]
    BY DEF ChannelInv, ChannelTypeInv
  <2> QED BY <2>1, <2>2, <2>3, HubStays
<1>2. ASSUME NEW c \in Clients, Session(c) PROVE ChannelInv'
  BY <1>2, BeginStep, StartStep, DeliverStep, EndStep, UpdateAnsweredStep DEF Session
<1>3. ASSUME NEW c \in Clients, Hub(c) PROVE ChannelInv'
  BY <1>3, JoinStep, UpdateAtHubStep, RemoveStateStep, EventSteps, ExpireStep DEF Hub
<1>4. ASSUME NEW c \in Clients, Application(c) PROVE ChannelInv'
  BY <1>4, SetStateStep, EventSteps, UpdateMemberStep, HeartbeatStep, CloseStep
     DEF Application
<1>5. ASSUME NEW c \in Clients, Failure(c) PROVE ChannelInv'
  BY <1>5, RevokeStep, DisconnectStep, UpdateFailsStep DEF Failure
<1>6. ASSUME NEW t \in DOMAIN streams, Release(t) PROVE ChannelInv'
  BY <1>6, ReleaseStep
<1> QED BY <1>1, <1>2, <1>3, <1>4, <1>5, <1>6, HubMovesStep DEF ChannelNext

(* The invariant holds of every state.                                     *)
THEOREM ChannelInvariance == ChannelSpec => []ChannelInv
<1> QED BY ChannelInitially, ChannelStepKeeps, PTL DEF ChannelSpec

(* ViewTracksHub always: for any sessions, any capacity of the queues and  *)
(* any order of joins, failures and publications, a joined session misses  *)
(* no change of the hub without noticing.                                  *)
THEOREM ViewsTrackHub == ChannelSpec => []ViewTracksHub
<1>1. ChannelInv => ViewTracksHub
  BY DEF ChannelInv, FollowInv, Followed, Seen, Gap, ViewTracksHub
<1> QED BY <1>1, ChannelInvariance, PTL

(* UpdatesHold always: the roster never goes back to a profile that the    *)
(* application's last answered update replaced.                            *)
THEOREM UpdatesCorrect == ChannelSpec => []UpdatesHold
<1>1. ChannelInv => UpdatesHold
  BY DEF ChannelInv, ProfileInv, Followed, UpdatesHold
<1> QED BY <1>1, ChannelInvariance, PTL
=============================================================================
