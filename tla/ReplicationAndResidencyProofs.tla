--------------------- MODULE ReplicationAndResidencyProofs ---------------------
(***************************************************************************)
(* Proofs about two components for every value of their constants:         *)
(* ScopedReplication, for every set of keys and values, every page size,   *)
(* and any number of writes, policy changes, scope changes and lost or     *)
(* late answers; and SpaceResidency, for any spaces, callers and workers,  *)
(* any number of slots, and any number of calls and disturbances.          *)
(***************************************************************************)
EXTENDS ScopedReplication, SpaceResidency, SequenceTheorems, FiniteSetTheorems,
        WellFoundedInduction, TLAPS

(***************************************************************************)
(* Space residency.  The values of the variables, and what a fiber that    *)
(* is at a point of a call may be doing.                                   *)
(***************************************************************************)
Points ==
  {"idle", "enter", "capacity", "awaitCapacity", "awaitTransition", "retire", "open",
   "build", "built", "use", "read", "withdraw", "deactivate", "close", "count",
   "delete", "undo", "sync", "settle"}

Commands == {"none", "use", "read", "deactivate", "leave", "turn"}

Outcomes == {"ok", "transient", "terminal", "credential", "interrupted"}

Rememberings ==
  [joined : BOOLEAN, leaving : BOOLEAN, due : BOOLEAN,
   activation : {"Inactive", "Activating", "Active", "Deactivating"},
   runtime : {"none", "foreground", "background"}, foreground : BOOLEAN,
   leases : Int, preempted : BOOLEAN, failed : BOOLEAN]

FiberStates ==
  [pc : Points, call : Commands, space : Spaces \cup {Nobody},
   target : Spaces \cup {Nobody}, then : {"idle", "enter", "capacity", "deactivate"},
   result : Outcomes, retired : BOOLEAN, current : BOOLEAN]

WaitPoints == {"awaitCapacity", "awaitTransition"}

\* holding a lease or a permit of the gate, or carrying out a transition
EngagedPoints == {"use", "sync", "read", "retire", "open", "build", "close"}

RightPlace(r) ==
  /\ r.pc # "idle" => r.space \in Spaces /\ r.target \in Spaces
  /\ r.pc = "idle" <=> r.call = "none"
  /\ r.pc \in {"capacity", "retire", "use", "withdraw"} => r.call = "use"
  /\ r.pc \in {"enter", "open", "build", "built"} => r.call \in {"use", "turn"}
  /\ r.pc = "read" => r.call = "read"
  /\ r.pc = "deactivate" => r.call \in {"deactivate", "leave"}
  /\ r.pc \in {"delete", "undo"} => r.call = "leave"
  /\ r.pc \in {"sync", "settle"} => r.call = "turn"
  /\ r.pc \in {"close", "count"} => r.call \in {"use", "deactivate", "leave", "turn"}
  /\ r.pc \notin {"close", "count"} \/ r.call # "use" => r.target = r.space

RightWait(r) ==
  /\ r.pc \in WaitPoints =>
       \/ r.call = "use" /\ r.then \in {"enter", "capacity"}
       \/ r.call \in {"deactivate", "leave"} /\ r.then = "deactivate"
       \/ r.call = "turn" /\ r.then = "enter"
  /\ r.pc = "awaitTransition" => r.then # "capacity"

Rightly(f, r) ==
  /\ r \in FiberStates
  /\ f \in Callers => r.call # "turn"
  /\ f \in Workers => r.call \in {"none", "turn"}
  /\ RightPlace(r) /\ RightWait(r)

FibersInv(fs) ==
  /\ fs \in [Fibers -> FiberStates]
  /\ \A f \in Fibers : Rightly(f, fs[f])

(***************************************************************************)
(* Two records of a fiber that agree on all that others depend on, and     *)
(* two lots of fibers of which some may have been woken, or have gone on   *)
(* without taking or giving back anything.                                 *)
(***************************************************************************)
Alike(q, r) ==
  q.pc = r.pc /\ q.space = r.space /\ q.target = r.target /\ q.then = r.then

Calm(fs, gs) ==
  \A g \in Fibers :
    \/ Alike(fs[g], gs[g])
    \/ fs[g].pc \notin EngagedPoints /\ gs[g].pc \notin EngagedPoints \cup WaitPoints

NoneAwaits(fs) == \A g \in Fibers : fs[g].pc # "awaitCapacity"

Apart(f, fs, gs) == \A g \in Fibers \ {f} : Alike(fs[g], gs[g])

LEMMA ReplacedRight ==
  ASSUME NEW fs, NEW f \in Fibers, NEW r, FibersInv(fs), Rightly(f, r)
  PROVE  /\ FibersInv([fs EXCEPT ![f] = r])
         /\ [fs EXCEPT ![f] = r][f] = r
         /\ Apart(f, fs, [fs EXCEPT ![f] = r])
<1> DEFINE gs == [fs EXCEPT ![f] = r]
<1>1. fs \in [Fibers -> FiberStates] /\ r \in FiberStates
  BY DEF FibersInv, Rightly
<1>2. /\ gs \in [Fibers -> FiberStates] /\ gs[f] = r
      /\ \A g \in Fibers : g # f => gs[g] = fs[g]
  BY <1>1
<1> HIDE DEF gs
<1>3. \A g \in Fibers : Rightly(g, gs[g])
  BY <1>2 DEF FibersInv
<1>4. Apart(f, fs, gs)
  BY <1>2 DEF Apart, Alike
<1> QED BY <1>2, <1>3, <1>4 DEF gs, FibersInv

LEMMA CalmIsTransitive ==
  ASSUME NEW fs, NEW gs, NEW hs, Calm(fs, gs), Calm(gs, hs)
  PROVE  Calm(fs, hs)
<1> SUFFICES ASSUME NEW g \in Fibers
             PROVE  \/ Alike(fs[g], hs[g])
                    \/ /\ fs[g].pc \notin EngagedPoints
                       /\ hs[g].pc \notin EngagedPoints \cup WaitPoints
  BY DEF Calm
<1>1. /\ \/ Alike(fs[g], gs[g])
         \/ fs[g].pc \notin EngagedPoints /\ gs[g].pc \notin EngagedPoints \cup WaitPoints
      /\ \/ Alike(gs[g], hs[g])
         \/ gs[g].pc \notin EngagedPoints /\ hs[g].pc \notin EngagedPoints \cup WaitPoints
  BY DEF Calm
<1> QED BY <1>1 DEF Alike

LEMMA CalmKeepsNoneAwaiting ==
  ASSUME NEW fs, NEW gs, Calm(fs, gs), NoneAwaits(fs)
  PROVE  NoneAwaits(gs)
<1> SUFFICES ASSUME NEW g \in Fibers PROVE gs[g].pc # "awaitCapacity"
  BY DEF NoneAwaits
<1>1. \/ Alike(fs[g], gs[g])
      \/ fs[g].pc \notin EngagedPoints /\ gs[g].pc \notin EngagedPoints \cup WaitPoints
  BY DEF Calm
<1> QED BY <1>1 DEF NoneAwaits, Alike, WaitPoints

\* A fiber that goes from one point to another and holds nothing at either.
LEMMA LooseMove ==
  ASSUME NEW fs, NEW f \in Fibers, NEW r, FibersInv(fs), Rightly(f, r),
         fs[f].pc \notin EngagedPoints, r.pc \notin EngagedPoints \cup WaitPoints
  PROVE  /\ FibersInv([fs EXCEPT ![f] = r])
         /\ Calm(fs, [fs EXCEPT ![f] = r])
<1>1. /\ FibersInv([fs EXCEPT ![f] = r])
      /\ [fs EXCEPT ![f] = r][f] = r
      /\ Apart(f, fs, [fs EXCEPT ![f] = r])
  BY ReplacedRight
<1> QED BY <1>1 DEF Calm, Apart

LEMMA SignalledFibers ==
  ASSUME NEW fs, FibersInv(fs)
  PROVE  /\ FibersInv(Signalled(fs))
         /\ Calm(fs, Signalled(fs))
         /\ NoneAwaits(Signalled(fs))
<1> DEFINE gs == Signalled(fs)
<1>1. \A g \in Fibers :
        /\ Rightly(g, gs[g])
        /\ \/ Alike(fs[g], gs[g])
           \/ fs[g].pc \notin EngagedPoints /\ gs[g].pc \notin EngagedPoints \cup WaitPoints
        /\ gs[g].pc # "awaitCapacity"
  <2> SUFFICES ASSUME NEW g \in Fibers
               PROVE  /\ Rightly(g, gs[g])
                      /\ \/ Alike(fs[g], gs[g])
                         \/ /\ fs[g].pc \notin EngagedPoints
                            /\ gs[g].pc \notin EngagedPoints \cup WaitPoints
                      /\ gs[g].pc # "awaitCapacity"
    OBVIOUS
  <2>1. Rightly(g, fs[g])
    BY DEF FibersInv
  <2>2. fs[g] \in FiberStates
    BY <2>1 DEF Rightly
  <2>3. CASE fs[g].pc = "awaitCapacity"
    <3> DEFINE r == fs[g]
               q == [r EXCEPT !.pc = r.then, !.then = "idle"]
    <3>1. gs[g] = q
      BY <2>3 DEF Signalled
    <3>2. r.then \in {"enter", "capacity", "deactivate"}
      BY <2>1, <2>3 DEF Rightly, RightWait, WaitPoints
    <3>3. /\ q \in FiberStates /\ q.pc = r.then /\ q.call = r.call /\ q.space = r.space
          /\ q.target = r.target
      BY <2>2, <3>2 DEF FiberStates, Points
    <3> HIDE DEF q
    <3>4. RightPlace(q) /\ RightWait(q)
      BY <2>1, <2>3, <3>2, <3>3 DEF Rightly, RightPlace, RightWait, WaitPoints
    <3>5. Rightly(g, q)
      BY <2>1, <3>3, <3>4 DEF Rightly
    <3> QED BY <2>3, <3>1, <3>2, <3>3, <3>5 DEF EngagedPoints, WaitPoints
  <2>4. CASE fs[g].pc # "awaitCapacity"
    <3>1. gs[g] = fs[g]
      BY <2>4 DEF Signalled
    <3> QED BY <2>1, <2>4, <3>1 DEF Alike
  <2> QED BY <2>3, <2>4
<1>2. gs \in [Fibers -> FiberStates]
  BY <1>1 DEF Signalled, Rightly
<1> QED BY <1>1, <1>2 DEF FibersInv, Calm, NoneAwaits

\* the call that an end of its activation fails
LEMMA FailingRight ==
  ASSUME NEW f \in Fibers, NEW r \in FiberStates, NEW kind \in Outcomes,
         r.call \in {"use", "deactivate", "leave", "turn"},
         f \in Callers => r.call # "turn", f \in Workers => r.call = "turn",
         r.space \in Spaces, r.target = r.space
  PROVE  /\ Rightly(f, Failing(r, kind))
         /\ Failing(r, kind).pc \notin EngagedPoints \cup WaitPoints
<1>1. r \in FiberStates
  OBVIOUS
<1>2. CASE r.call = "use"
  <2> DEFINE q == [r EXCEPT !.pc = "withdraw"]
  <2>1. Failing(r, kind) = q
    BY <1>2 DEF Failing
  <2>2. /\ q \in FiberStates /\ q.pc = "withdraw" /\ q.call = r.call
        /\ q.space = r.space /\ q.target = r.target
    BY <1>1 DEF FiberStates, Points
  <2> HIDE DEF q
  <2>3. RightPlace(q) /\ RightWait(q)
    BY <1>2, <2>2 DEF RightPlace, RightWait, WaitPoints
  <2> QED BY <1>2, <2>1, <2>2, <2>3 DEF Rightly, EngagedPoints, WaitPoints
<1>3. CASE r.call = "deactivate"
  <2>1. Failing(r, kind) = IdleFiber
    BY <1>3 DEF Failing
  <2>2. /\ IdleFiber \in FiberStates /\ IdleFiber.pc = "idle" /\ IdleFiber.call = "none"
        /\ IdleFiber.space = Nobody /\ IdleFiber.target = Nobody
    BY DEF IdleFiber, FiberStates, Points, Commands, Outcomes
  <2>3. RightPlace(IdleFiber) /\ RightWait(IdleFiber)
    BY <2>2 DEF RightPlace, RightWait, WaitPoints
  <2> QED BY <2>1, <2>2, <2>3 DEF Rightly, EngagedPoints, WaitPoints
<1>4. CASE r.call = "leave"
  <2> DEFINE q == [r EXCEPT !.pc = "undo"]
  <2>1. Failing(r, kind) = q
    BY <1>4 DEF Failing
  <2>2. /\ q \in FiberStates /\ q.pc = "undo" /\ q.call = r.call
        /\ q.space = r.space /\ q.target = r.target
    BY <1>1 DEF FiberStates, Points
  <2> HIDE DEF q
  <2>3. RightPlace(q) /\ RightWait(q)
    BY <1>4, <2>2 DEF RightPlace, RightWait, WaitPoints
  <2> QED BY <1>4, <2>1, <2>2, <2>3 DEF Rightly, EngagedPoints, WaitPoints
<1>5. CASE r.call = "turn"
  <2> DEFINE q == [r EXCEPT !.pc = "settle", !.result = kind]
  <2>1. Failing(r, kind) = q
    BY <1>5 DEF Failing
  <2>2. /\ q \in FiberStates /\ q.pc = "settle" /\ q.call = r.call
        /\ q.space = r.space /\ q.target = r.target
    BY <1>1 DEF FiberStates, Points
  <2> HIDE DEF q
  <2>3. RightPlace(q) /\ RightWait(q)
    BY <1>5, <2>2 DEF RightPlace, RightWait, WaitPoints
  <2> QED BY <1>5, <2>1, <2>2, <2>3 DEF Rightly, EngagedPoints, WaitPoints
<1> QED BY <1>2, <1>3, <1>4, <1>5

\* The record with which a call ends.
LEMMA IdleRight ==
  ASSUME NEW f \in Fibers
  PROVE  Rightly(f, IdleFiber) /\ IdleFiber.pc = "idle"
<1>1. /\ IdleFiber \in FiberStates /\ IdleFiber.pc = "idle" /\ IdleFiber.call = "none"
      /\ IdleFiber.space = Nobody /\ IdleFiber.target = Nobody
  BY DEF IdleFiber, FiberStates, Points, Commands, Outcomes
<1>2. RightPlace(IdleFiber) /\ RightWait(IdleFiber)
  BY <1>1 DEF RightPlace, RightWait, WaitPoints
<1> QED BY <1>1, <1>2 DEF Rightly

LEMMA CompletedFibers ==
  ASSUME NEW fs, FibersInv(fs), NEW s \in Spaces, NEW kind \in Outcomes
  PROVE  /\ FibersInv(Completed(fs, s, kind))
         /\ Calm(fs, Completed(fs, s, kind))
         /\ \A g \in Fibers : Completed(fs, s, kind)[g].pc = "awaitTransition" =>
                                Completed(fs, s, kind)[g].space # s
<1> DEFINE gs == Completed(fs, s, kind)
<1>1. \A g \in Fibers :
        /\ Rightly(g, gs[g])
        /\ \/ Alike(fs[g], gs[g])
           \/ fs[g].pc \notin EngagedPoints /\ gs[g].pc \notin EngagedPoints \cup WaitPoints
        /\ gs[g].pc = "awaitTransition" => gs[g].space # s
  <2> SUFFICES ASSUME NEW g \in Fibers
               PROVE  /\ Rightly(g, gs[g])
                      /\ \/ Alike(fs[g], gs[g])
                         \/ /\ fs[g].pc \notin EngagedPoints
                            /\ gs[g].pc \notin EngagedPoints \cup WaitPoints
                      /\ gs[g].pc = "awaitTransition" => gs[g].space # s
    OBVIOUS
  <2> DEFINE r == fs[g]
  <2>1. Rightly(g, r)
    BY DEF FibersInv
  <2>2. r \in FiberStates
    BY <2>1 DEF Rightly
  <2>3. CASE ~(r.pc = "awaitTransition" /\ r.space = s)
    <3>1. gs[g] = r
      BY <2>3 DEF Completed
    <3> QED BY <2>1, <2>3, <3>1 DEF Alike
  <2>4. CASE r.pc = "awaitTransition" /\ r.space = s
    <3>0. r.target = s
      BY <2>1, <2>4 DEF Rightly, RightPlace
    <3>2. r.then \in {"enter", "deactivate"}
      BY <2>1, <2>4 DEF Rightly, RightWait, WaitPoints
    <3>a. CASE kind = "ok"
      <4> DEFINE q == [r EXCEPT !.pc = r.then, !.then = "idle"]
      <4>1. gs[g] = q
        BY <2>4, <3>a DEF Completed
      <4>3. /\ q \in FiberStates /\ q.pc = r.then /\ q.call = r.call /\ q.space = r.space
            /\ q.target = r.target
        BY <2>2, <3>2 DEF FiberStates, Points
      <4> HIDE DEF q
      <4>4. RightPlace(q) /\ RightWait(q)
        BY <2>1, <2>4, <3>0, <3>2, <4>3 DEF Rightly, RightPlace, RightWait, WaitPoints
      <4>5. Rightly(g, q)
        BY <2>1, <4>3, <4>4 DEF Rightly
      <4> QED BY <2>4, <4>1, <3>2, <4>3, <4>5 DEF EngagedPoints, WaitPoints
    <3>b. CASE kind # "ok"
      <4> DEFINE q == [r EXCEPT !.then = "idle"]
      <4>1. gs[g] = Failing(q, kind)
        BY <2>4, <3>b DEF Completed
      <4>2. r.call \in {"use", "deactivate", "leave", "turn"}
        BY <2>1, <2>4 DEF Rightly, RightWait, WaitPoints
      <4>3. q.call = r.call /\ q.space = s /\ q.target = s
        BY <2>2, <2>4, <3>0 DEF FiberStates
      <4>4. /\ Rightly(g, Failing(q, kind))
            /\ Failing(q, kind).pc \notin EngagedPoints \cup WaitPoints
        <5>1. q \in FiberStates
          BY <2>2 DEF FiberStates
        <5> HIDE DEF q
        <5>2. /\ g \in Callers => q.call # "turn"
              /\ g \in Workers => q.call = "turn"
          BY <2>1, <4>2, <4>3 DEF Rightly
        <5> QED BY <4>2, <4>3, <5>1, <5>2, FailingRight
      <4> QED BY <2>4, <4>1, <4>4 DEF EngagedPoints, WaitPoints
    <3> QED BY <3>a, <3>b
  <2> QED BY <2>3, <2>4
<1>2. gs \in [Fibers -> FiberStates]
  BY <1>1 DEF Completed, Rightly
<1> QED BY <1>1, <1>2 DEF FibersInv, Calm

LEMMA ObsoleteFibers ==
  ASSUME NEW fs, FibersInv(fs), NEW s \in Spaces
  PROVE  FibersInv(Obsolete(fs, s)) /\ Calm(fs, Obsolete(fs, s))
<1> DEFINE gs == Obsolete(fs, s)
<1>1. ASSUME NEW g \in Fibers
      PROVE  Rightly(g, gs[g]) /\ Alike(fs[g], gs[g])
  <2> DEFINE r == fs[g]
             q == [r EXCEPT !.current = FALSE]
  <2>1. Rightly(g, r) /\ r \in FiberStates
    BY DEF FibersInv, Rightly
  <2>2. CASE r.space = s
    <3>1. gs[g] = q
      BY <2>2 DEF Obsolete
    <3>2. /\ q \in FiberStates /\ q.pc = r.pc /\ q.call = r.call /\ q.space = r.space
          /\ q.target = r.target /\ q.then = r.then
      BY <2>1 DEF FiberStates
    <3> HIDE DEF q
    <3>3. RightPlace(q) /\ RightWait(q)
      BY <2>1, <3>2 DEF Rightly, RightPlace, RightWait
    <3> QED BY <2>1, <3>1, <3>2, <3>3 DEF Rightly, Alike
  <2>3. CASE r.space # s
    <3>1. gs[g] = r
      BY <2>3 DEF Obsolete
    <3> QED BY <2>1, <3>1 DEF Alike
  <2> QED BY <2>2, <2>3
<1>2. gs \in [Fibers -> FiberStates]
  BY <1>1 DEF Obsolete, Rightly
<1> QED BY <1>1, <1>2 DEF FibersInv, Calm

(***************************************************************************)
(* foregroundResidents, in which no space is twice.                        *)
(***************************************************************************)
NoneTwice(q) == \A i, j \in 1 .. Len(q) : q[i] = q[j] => i = j

LEMMA RemovedFirst ==
  ASSUME NEW S, NEW q \in Seq(S), NEW x, NoneTwice(q)
  PROVE  /\ RemoveFirst(q, x) \in Seq(S) /\ NoneTwice(RemoveFirst(q, x))
         /\ ToSet(RemoveFirst(q, x)) = ToSet(q) \ {x}
<1> DEFINE n == Len(q)
<1>0. n \in Nat /\ DOMAIN q = 1 .. n /\ \A i \in 1 .. n : q[i] \in S
  OBVIOUS
<1>1. CASE ~\E i \in 1 .. n : q[i] = x
  <2>1. RemoveFirst(q, x) = q
    BY <1>1 DEF RemoveFirst
  <2>2. x \notin ToSet(q)
    BY <1>0, <1>1 DEF ToSet
  <2> QED BY <2>1, <2>2
<1>2. CASE \E i \in 1 .. n : q[i] = x
  <2>1. PICK p \in 1 .. n : q[p] = x
    BY <1>2
  <2>2. \A i \in 1 .. n : q[i] = x <=> i = p
    BY <2>1 DEF NoneTwice
  <2>3. {i \in 1 .. Len(q) : q[i] = x} = {p}
    BY <2>2
  <2>4. SelectInSeq(q, LAMBDA v : v = x) = p
    BY <2>3 DEF SelectInSeq, Min
  <2> DEFINE front == SubSeq(q, 1, p - 1)
             back == SubSeq(q, p + 1, Len(q))
             r == front \o back
  <2>5. RemoveFirst(q, x) = r
    BY <2>1, <2>4 DEF RemoveFirst, RemoveAt
  <2>6. n \in Nat /\ p \in Nat /\ p >= 1 /\ p <= n
    BY <1>0, <2>1
  <2>7. /\ front \in Seq(S) /\ Len(front) = p - 1
        /\ \A i \in 1 .. p - 1 : front[i] = q[i]
    BY <2>6
  <2>8. /\ back \in Seq(S) /\ Len(back) = n - p
        /\ \A i \in 1 .. n - p : back[i] = q[p + i]
    BY <2>6
  <2> HIDE DEF front, back
  <2>9. /\ r \in Seq(S) /\ Len(r) = Len(front) + Len(back)
        /\ \A i \in 1 .. Len(front) + Len(back) :
             r[i] = IF i <= Len(front) THEN front[i] ELSE back[i - Len(front)]
    <3>1. front \in Seq(S) /\ back \in Seq(S)
      BY <2>7, <2>8
    <3> QED BY ONLY <3>1, ConcatProperties
  <2> HIDE DEF r, n
  <2>10. Len(r) = n - 1
    BY <2>6, <2>7, <2>8, <2>9
  <2> DEFINE at(i) == IF i < p THEN i ELSE i + 1
  <2>11. ASSUME NEW i \in 1 .. n - 1
         PROVE  r[i] = q[at(i)] /\ at(i) \in 1 .. n /\ at(i) # p
    <3>1. CASE i < p
      <4>1. i <= p - 1 /\ i \in 1 .. p - 1 /\ i \in 1 .. Len(front) + Len(back)
        BY <3>1, <2>6, <2>7, <2>8
      <4>2. r[i] = front[i]
        BY <4>1, <2>7, <2>9
      <4> QED BY <3>1, <4>1, <4>2, <2>6, <2>7
    <3>2. CASE i >= p
      <4>1. ~(i <= p - 1) /\ i - (p - 1) \in 1 .. n - p /\ i \in 1 .. Len(front) + Len(back)
        BY <3>2, <2>6, <2>7, <2>8
      <4>2. r[i] = back[i - (p - 1)]
        BY <4>1, <2>7, <2>9
      <4>3. p + (i - (p - 1)) = i + 1 /\ ~(i < p) /\ i + 1 \in 1 .. n /\ i + 1 # p
        BY <3>2, <2>6
      <4> QED BY <4>1, <4>2, <4>3, <2>8
    <3> QED BY <3>1, <3>2, <2>6
  <2>12. NoneTwice(r)
    <3> SUFFICES ASSUME NEW i \in 1 .. Len(r), NEW j \in 1 .. Len(r), r[i] = r[j]
                 PROVE  i = j
      BY DEF NoneTwice
    <3>1. at(i) = at(j)
      <4>1. i \in 1 .. n - 1 /\ j \in 1 .. n - 1
        BY <2>10
      <4>2. q[at(i)] = q[at(j)] /\ at(i) \in 1 .. n /\ at(j) \in 1 .. n
        BY <4>1, <2>11
      <4> HIDE DEF at
      <4> QED BY <4>2 DEF NoneTwice, n
    <3> QED BY <3>1, <2>6, <2>10
  <2>13. DOMAIN r = 1 .. n - 1 /\ DOMAIN q = 1 .. n
    BY <2>9, <2>10, <1>0
  <2>14. ASSUME NEW y \in ToSet(r) PROVE y \in ToSet(q) /\ y # x
    <3>1. PICK i \in 1 .. n - 1 : y = r[i]
      BY <2>13 DEF ToSet
    <3> HIDE DEF at
    <3> QED BY <3>1, <2>11, <2>2, <2>13 DEF ToSet
  <2>15. ASSUME NEW y \in ToSet(q), y # x PROVE y \in ToSet(r)
    <3>1. PICK k \in 1 .. n : y = q[k]
      BY <2>13 DEF ToSet
    <3>2. k # p
      BY <3>1, <2>15, <2>1
    <3>3. PICK i \in 1 .. n - 1 : at(i) = k
      <4>1. CASE k < p
        BY <4>1, <2>6
      <4>2. CASE k > p
        <5>1. k - 1 \in 1 .. n - 1 /\ at(k - 1) = k
          BY <4>2, <2>6
        <5> QED BY <5>1
      <4> QED BY <3>2, <4>1, <4>2, <2>6
    <3> HIDE DEF at
    <3>4. y = r[i] /\ i \in DOMAIN r
      BY <3>1, <3>3, <2>11, <2>13
    <3> QED BY <3>4 DEF ToSet
  <2> QED BY <2>5, <2>9, <2>12, <2>14, <2>15
<1> QED BY <1>1, <1>2

LEMMA Touched ==
  ASSUME NEW S, NEW q \in Seq(S), NEW x \in S, NoneTwice(q)
  PROVE  /\ Touch(q, x) \in Seq(S) /\ NoneTwice(Touch(q, x))
         /\ ToSet(Touch(q, x)) = ToSet(q) \cup {x}
<1> DEFINE r == RemoveFirst(q, x)
           t == Append(r, x)
<1>1. r \in Seq(S) /\ NoneTwice(r) /\ ToSet(r) = ToSet(q) \ {x}
  BY RemovedFirst
<1>2. Touch(q, x) = t
  BY DEF Touch
<1> HIDE DEF r
<1>3. /\ t \in Seq(S) /\ Len(t) = Len(r) + 1 /\ t[Len(r) + 1] = x /\ Len(r) \in Nat
      /\ DOMAIN r = 1 .. Len(r) /\ DOMAIN t = 1 .. Len(r) + 1
      /\ \A i \in 1 .. Len(r) : t[i] = r[i]
  BY <1>1
<1> HIDE DEF t
<1>4. \A i \in 1 .. Len(r) : t[i] # x
  <2> TAKE i \in 1 .. Len(r)
  <2>1. r[i] \in ToSet(r)
    BY <1>3 DEF ToSet
  <2> QED BY <2>1, <1>1, <1>3
<1>5. NoneTwice(t)
  <2> SUFFICES ASSUME NEW i \in 1 .. Len(t), NEW j \in 1 .. Len(t), t[i] = t[j]
               PROVE  i = j
    BY DEF NoneTwice
  <2>1. CASE i = Len(r) + 1 \/ j = Len(r) + 1
    BY <2>1, <1>3, <1>4
  <2>2. CASE i # Len(r) + 1 /\ j # Len(r) + 1
    <3>1. i \in 1 .. Len(r) /\ j \in 1 .. Len(r)
      BY <2>2, <1>3
    <3> QED BY <3>1, <1>1, <1>3 DEF NoneTwice
  <2> QED BY <2>1, <2>2
<1>6. ToSet(t) = ToSet(r) \cup {x}
  <2>1. ASSUME NEW y \in ToSet(t) PROVE y \in ToSet(r) \cup {x}
    <3>1. PICK i \in 1 .. Len(r) + 1 : y = t[i]
      BY <1>3 DEF ToSet
    <3>2. CASE i = Len(r) + 1
      BY <3>1, <3>2, <1>3
    <3>3. CASE i # Len(r) + 1
      <4>1. i \in 1 .. Len(r)
        BY <3>3, <1>3
      <4> QED BY <3>1, <4>1, <1>3 DEF ToSet
    <3> QED BY <3>2, <3>3
  <2>2. ASSUME NEW y \in ToSet(r) PROVE y \in ToSet(t)
    <3>1. PICK i \in 1 .. Len(r) : y = r[i]
      BY <1>3 DEF ToSet
    <3>2. y = t[i] /\ i \in DOMAIN t
      BY <3>1, <1>3
    <3> QED BY <3>2 DEF ToSet
  <2>3. x \in ToSet(t)
    <3>1. x = t[Len(r) + 1] /\ Len(r) + 1 \in DOMAIN t
      BY <1>3
    <3> QED BY <3>1 DEF ToSet
  <2> QED BY <2>1, <2>2, <2>3
<1>7. x \in S /\ ToSet(r) \cup {x} = ToSet(q) \cup {x}
  BY <1>1
<1> QED BY <1>2, <1>3, <1>5, <1>6, <1>7

ResidentsInv(order, slots) ==
  /\ order \in Seq(Spaces) /\ NoneTwice(order)
  /\ slots \subseteq ToSet(order) /\ slots \subseteq Spaces
  /\ IsFiniteSet(slots) /\ Cardinality(slots) <= ForegroundSlots

LEMMA TouchedResidents ==
  ASSUME NEW order, NEW slots, NEW s \in Spaces, ResidentsInv(order, slots)
  PROVE  ResidentsInv(Touch(order, s), slots) /\ s \in ToSet(Touch(order, s))
<1>1. /\ Touch(order, s) \in Seq(Spaces) /\ NoneTwice(Touch(order, s))
      /\ ToSet(Touch(order, s)) = ToSet(order) \cup {s}
  BY Touched DEF ResidentsInv
<1> QED BY <1>1 DEF ResidentsInv

\* dropForegroundReservation
LEMMA DroppedReservation ==
  ASSUME NEW order, NEW slots, NEW s \in Spaces, ResidentsInv(order, slots)
  PROVE  ResidentsInv(RemoveFirst(order, s), slots \ {s})
<1>1. /\ RemoveFirst(order, s) \in Seq(Spaces) /\ NoneTwice(RemoveFirst(order, s))
      /\ ToSet(RemoveFirst(order, s)) = ToSet(order) \ {s}
  BY RemovedFirst DEF ResidentsInv
<1>2. /\ IsFiniteSet(slots \ {s}) /\ Cardinality(slots \ {s}) \in Nat
      /\ Cardinality(slots) \in Nat /\ Cardinality(slots \ {s}) <= Cardinality(slots)
  BY FS_Subset, FS_CardinalityType DEF ResidentsInv
<1>3. Cardinality(slots \ {s}) <= ForegroundSlots
  BY <1>2, CapacityAssumption DEF ResidentsInv
<1> QED BY <1>1, <1>2, <1>3 DEF ResidentsInv

\* A slot that is free is given to s.
LEMMA GrantedSlot ==
  ASSUME NEW order, NEW slots, NEW s \in Spaces, ResidentsInv(order, slots),
         s \in ToSet(order), Cardinality(slots \ {s}) < ForegroundSlots
  PROVE  ResidentsInv(order, slots \cup {s})
<1>1. CASE s \in slots
  <2>1. slots \cup {s} = slots
    BY <1>1
  <2> QED BY <2>1
<1>2. CASE s \notin slots
  <2>1. slots \ {s} = slots
    BY <1>2
  <2>2. /\ IsFiniteSet(slots \cup {s})
        /\ Cardinality(slots \cup {s}) = Cardinality(slots) + 1
    BY <1>2, FS_AddElement DEF ResidentsInv
  <2>3. Cardinality(slots) \in Nat
    BY FS_CardinalityType DEF ResidentsInv
  <2>4. Cardinality(slots \cup {s}) <= ForegroundSlots
    <3>1. Cardinality(slots) < ForegroundSlots
      BY <2>1
    <3> QED BY <2>2, <2>3, <3>1, CapacityAssumption
  <2> QED BY <2>2, <2>4 DEF ResidentsInv
<1> QED BY <1>1, <1>2

(***************************************************************************)
(* What holds of a space: its entry x, its runtime scope v, the spaces     *)
(* that have a slot, and the fibers that are at it.                        *)
(***************************************************************************)
Holders(fs, s) == {f \in Fibers : fs[f].pc \in {"use", "sync"} /\ fs[f].space = s}

Opens(r, s) == r.pc \in {"retire", "open", "build"} /\ r.space = s

Closes(r, s) == r.pc = "close" /\ r.target = s

Moves(r, s) == Opens(r, s) \/ Closes(r, s)

Reads(r, s) == r.pc = "read" /\ r.space = s

AtSpace(r, s) == Moves(r, s) \/ Reads(r, s) \/ (r.pc \in {"use", "sync"} /\ r.space = s)

CountInv(x, fs, s) ==
  IsFiniteSet(Holders(fs, s)) /\ x.leases = Cardinality(Holders(fs, s))

HolderInv(x, fs, s) ==
  \A f \in Holders(fs, s) :
    /\ x.activation = "Active" /\ x.runtime # "none"
    /\ f \in Callers => x.runtime = "foreground"

TransitionInv(x, fs, s) ==
  /\ x.activation = "Activating" <=> \E f \in Fibers : Opens(fs[f], s)
  /\ x.activation = "Deactivating" <=> \E f \in Fibers : Closes(fs[f], s)
  /\ \A f, g \in Fibers : Moves(fs[f], s) /\ Moves(fs[g], s) => f = g

ScopeInv(x, v, fs, s) ==
  /\ x.activation = "Active" => v = x.runtime /\ v # "none"
  /\ x.activation = "Inactive" => v = "none"
  /\ x.activation = "Deactivating" => v # "none"
  /\ \A f \in Fibers : Opens(fs[f], s) =>
       /\ fs[f].pc = "retire" => v = "background"
       /\ fs[f].pc = "open" => v = "none"
       /\ fs[f].pc = "build" => v = IF f \in Callers THEN "foreground" ELSE "background"

ReaderInv(v, fs, s) ==
  \A g \in Fibers : Reads(fs[g], s) =>
    /\ v # "none"
    /\ \A f \in Fibers : Opens(fs[f], s) => fs[f].pc = "retire"

SlotInv(x, slots, fs, s) ==
  /\ x.activation = "Active" /\ x.runtime = "foreground" => s \in slots
  /\ \A f \in Callers : Opens(fs[f], s) => s \in slots

SpaceInv(x, v, slots, fs, s) ==
  /\ CountInv(x, fs, s) /\ HolderInv(x, fs, s) /\ TransitionInv(x, fs, s)
  /\ ScopeInv(x, v, fs, s) /\ ReaderInv(v, fs, s) /\ SlotInv(x, slots, fs, s)

SameRuntime(x, y) ==
  x.leases = y.leases /\ x.activation = y.activation /\ x.runtime = y.runtime

LEMMA Bystanders ==
  ASSUME NEW x, NEW y, NEW v, NEW slots, NEW granted2, NEW fs, NEW gs, NEW s,
         SpaceInv(x, v, slots, fs, s), SameRuntime(x, y),
         s \in slots => s \in granted2,
         \A g \in Fibers : AtSpace(fs[g], s) \/ AtSpace(gs[g], s) => Alike(fs[g], gs[g])
  PROVE  SpaceInv(y, v, granted2, gs, s)
<1>0. Callers \subseteq Fibers
  BY DEF Fibers
<1>1. \A g \in Fibers :
        /\ Opens(fs[g], s) <=> Opens(gs[g], s)
        /\ Closes(fs[g], s) <=> Closes(gs[g], s)
        /\ Reads(fs[g], s) <=> Reads(gs[g], s)
        /\ fs[g].pc \in {"use", "sync"} /\ fs[g].space = s <=>
           gs[g].pc \in {"use", "sync"} /\ gs[g].space = s
        /\ Opens(fs[g], s) => fs[g].pc = gs[g].pc
  BY DEF AtSpace, Moves, Opens, Closes, Reads, Alike
<1>2. Holders(gs, s) = Holders(fs, s)
  BY <1>1 DEF Holders
<1>3. CountInv(y, gs, s) /\ HolderInv(y, gs, s)
  BY <1>2 DEF SpaceInv, CountInv, HolderInv, SameRuntime
<1>4. TransitionInv(y, gs, s)
  BY <1>1 DEF SpaceInv, TransitionInv, SameRuntime, Moves
<1>5. ScopeInv(y, v, gs, s)
  BY <1>1 DEF SpaceInv, ScopeInv, SameRuntime
<1>6. ReaderInv(v, gs, s)
  BY <1>1 DEF SpaceInv, ReaderInv
<1>7. SlotInv(y, granted2, gs, s)
  BY <1>0, <1>1 DEF SpaceInv, SlotInv, SameRuntime
<1> QED BY <1>3, <1>4, <1>5, <1>6, <1>7 DEF SpaceInv

Loose(r) == r.pc \notin EngagedPoints

LEMMA LooseIsNowhere ==
  ASSUME NEW r, NEW s, Loose(r)
  PROVE  ~AtSpace(r, s)
BY DEF Loose, EngagedPoints, AtSpace, Moves, Opens, Closes, Reads

\* What the fibers other than f are doing at a space.
LEMMA OthersAtSpace ==
  ASSUME NEW f \in Fibers, NEW fs, NEW gs, NEW s, Apart(f, fs, gs)
  PROVE  \A g \in Fibers : g # f =>
           /\ Opens(fs[g], s) <=> Opens(gs[g], s)
           /\ Closes(fs[g], s) <=> Closes(gs[g], s)
           /\ Moves(fs[g], s) <=> Moves(gs[g], s)
           /\ Reads(fs[g], s) <=> Reads(gs[g], s)
           /\ g \in Holders(fs, s) <=> g \in Holders(gs, s)
           /\ fs[g].pc = gs[g].pc
BY DEF Apart, Alike, Opens, Closes, Reads, Moves, Holders

LEMMA HoldersKept ==
  ASSUME NEW f \in Fibers, NEW fs, NEW gs, NEW s, Apart(f, fs, gs),
         f \notin Holders(fs, s), f \notin Holders(gs, s)
  PROVE  Holders(gs, s) = Holders(fs, s)
<1>1. \A g \in Fibers : g # f => (g \in Holders(fs, s) <=> g \in Holders(gs, s))
  BY OthersAtSpace
<1>2. Holders(fs, s) \subseteq Fibers /\ Holders(gs, s) \subseteq Fibers
  BY DEF Holders
<1> QED BY <1>1, <1>2

\* acquire
LEMMA LeaseTaken ==
  ASSUME NEW x, NEW y, NEW v, NEW slots, NEW fs, NEW gs, NEW s, NEW f \in Fibers,
         SpaceInv(x, v, slots, fs, s), Apart(f, fs, gs), Loose(fs[f]),
         gs[f].pc \in {"use", "sync"}, gs[f].space = s,
         x.activation = "Active", x.runtime # "none",
         f \in Callers => x.runtime = "foreground",
         y.activation = x.activation, y.runtime = x.runtime, y.leases = x.leases + 1
  PROVE  SpaceInv(y, v, slots, gs, s)
<1>0. Callers \subseteq Fibers
  BY DEF Fibers
<1>1. \A g \in Fibers : g # f =>
           /\ Opens(fs[g], s) <=> Opens(gs[g], s)
           /\ Closes(fs[g], s) <=> Closes(gs[g], s)
           /\ Moves(fs[g], s) <=> Moves(gs[g], s)
           /\ Reads(fs[g], s) <=> Reads(gs[g], s)
           /\ g \in Holders(fs, s) <=> g \in Holders(gs, s)
           /\ fs[g].pc = gs[g].pc
  BY OthersAtSpace
<1>2. /\ ~Opens(fs[f], s) /\ ~Closes(fs[f], s) /\ ~Reads(fs[f], s) /\ ~Moves(fs[f], s)
      /\ f \notin Holders(fs, s)
  BY LooseIsNowhere DEF AtSpace, Moves, Holders
<1>3. /\ ~Opens(gs[f], s) /\ ~Closes(gs[f], s) /\ ~Reads(gs[f], s) /\ ~Moves(gs[f], s)
      /\ f \in Holders(gs, s)
  BY DEF Opens, Closes, Reads, Moves, Holders
<1>4. Holders(gs, s) = Holders(fs, s) \cup {f}
  <2>1. Holders(fs, s) \subseteq Fibers /\ Holders(gs, s) \subseteq Fibers
    BY DEF Holders
  <2> QED BY <1>1, <1>3, <2>1
<1>5. CountInv(y, gs, s)
  <2>1. IsFiniteSet(Holders(fs, s)) /\ x.leases = Cardinality(Holders(fs, s))
    BY DEF SpaceInv, CountInv
  <2>2. /\ IsFiniteSet(Holders(fs, s) \cup {f})
        /\ Cardinality(Holders(fs, s) \cup {f}) = Cardinality(Holders(fs, s)) + 1
    BY <1>2, <2>1, FS_AddElement
  <2> QED BY <1>4, <2>1, <2>2 DEF CountInv
<1>6. HolderInv(y, gs, s)
  BY <1>4 DEF SpaceInv, HolderInv
<1>7. TransitionInv(y, gs, s)
  BY <1>1, <1>2, <1>3 DEF SpaceInv, TransitionInv
<1>8. ScopeInv(y, v, gs, s)
  BY <1>1, <1>2, <1>3 DEF SpaceInv, ScopeInv
<1>9. ReaderInv(v, gs, s)
  BY <1>1, <1>2, <1>3 DEF SpaceInv, ReaderInv
<1>10. SlotInv(y, slots, gs, s)
  BY <1>0, <1>1, <1>2, <1>3 DEF SpaceInv, SlotInv
<1> QED BY <1>5, <1>6, <1>7, <1>8, <1>9, <1>10 DEF SpaceInv

\* release
LEMMA LeaseGiven ==
  ASSUME NEW x, NEW y, NEW v, NEW slots, NEW fs, NEW gs, NEW s, NEW f \in Fibers,
         SpaceInv(x, v, slots, fs, s), Apart(f, fs, gs), Loose(gs[f]),
         fs[f].pc \in {"use", "sync"}, fs[f].space = s,
         y.activation = x.activation, y.runtime = x.runtime, y.leases = x.leases - 1
  PROVE  SpaceInv(y, v, slots, gs, s)
<1>0. Callers \subseteq Fibers
  BY DEF Fibers
<1>1. \A g \in Fibers : g # f =>
           /\ Opens(fs[g], s) <=> Opens(gs[g], s)
           /\ Closes(fs[g], s) <=> Closes(gs[g], s)
           /\ Moves(fs[g], s) <=> Moves(gs[g], s)
           /\ Reads(fs[g], s) <=> Reads(gs[g], s)
           /\ g \in Holders(fs, s) <=> g \in Holders(gs, s)
           /\ fs[g].pc = gs[g].pc
  BY OthersAtSpace
<1>2. /\ ~Opens(gs[f], s) /\ ~Closes(gs[f], s) /\ ~Reads(gs[f], s) /\ ~Moves(gs[f], s)
      /\ f \notin Holders(gs, s)
  BY LooseIsNowhere DEF AtSpace, Moves, Holders
<1>3. /\ ~Opens(fs[f], s) /\ ~Closes(fs[f], s) /\ ~Reads(fs[f], s) /\ ~Moves(fs[f], s)
      /\ f \in Holders(fs, s)
  BY DEF Opens, Closes, Reads, Moves, Holders
<1>4. Holders(gs, s) = Holders(fs, s) \ {f}
  <2>1. Holders(fs, s) \subseteq Fibers /\ Holders(gs, s) \subseteq Fibers
    BY DEF Holders
  <2> QED BY <1>1, <1>2, <2>1
<1>5. CountInv(y, gs, s)
  <2>1. IsFiniteSet(Holders(fs, s)) /\ x.leases = Cardinality(Holders(fs, s))
    BY DEF SpaceInv, CountInv
  <2>2. /\ IsFiniteSet(Holders(fs, s) \ {f})
        /\ Cardinality(Holders(fs, s) \ {f}) = Cardinality(Holders(fs, s)) - 1
    BY <1>3, <2>1, FS_RemoveElement
  <2> QED BY <1>4, <2>1, <2>2 DEF CountInv
<1>6. HolderInv(y, gs, s)
  BY <1>4 DEF SpaceInv, HolderInv
<1>7. TransitionInv(y, gs, s)
  BY <1>1, <1>2, <1>3 DEF SpaceInv, TransitionInv
<1>8. ScopeInv(y, v, gs, s)
  BY <1>1, <1>2, <1>3 DEF SpaceInv, ScopeInv
<1>9. ReaderInv(v, gs, s)
  BY <1>1, <1>2, <1>3 DEF SpaceInv, ReaderInv
<1>10. SlotInv(y, slots, gs, s)
  BY <1>0, <1>1, <1>2, <1>3 DEF SpaceInv, SlotInv
<1> QED BY <1>5, <1>6, <1>7, <1>8, <1>9, <1>10 DEF SpaceInv

LEMMA MoverIsAlone ==
  ASSUME NEW x, NEW v, NEW slots, NEW fs, NEW s, NEW f \in Fibers,
         SpaceInv(x, v, slots, fs, s), Moves(fs[f], s)
  PROVE  /\ Opens(fs[f], s) => x.activation = "Activating"
         /\ Closes(fs[f], s) => x.activation = "Deactivating"
         /\ Holders(fs, s) = {}
         /\ \A g \in Fibers : g # f =>
              ~Opens(fs[g], s) /\ ~Closes(fs[g], s) /\ ~Moves(fs[g], s)
<1>1. TransitionInv(x, fs, s) /\ HolderInv(x, fs, s)
  BY DEF SpaceInv
<1>2. /\ Opens(fs[f], s) => x.activation = "Activating"
      /\ Closes(fs[f], s) => x.activation = "Deactivating"
  BY <1>1 DEF TransitionInv
<1>3. \A g \in Fibers : g # f => ~Moves(fs[g], s)
  BY <1>1 DEF TransitionInv
<1>4. Holders(fs, s) = {}
  BY <1>1, <1>2 DEF HolderInv, Moves
<1> QED BY <1>2, <1>3, <1>4 DEF Moves

LEMMA NobodyMoves ==
  ASSUME NEW x, NEW v, NEW slots, NEW fs, NEW s,
         SpaceInv(x, v, slots, fs, s), x.activation \in {"Active", "Inactive"}
  PROVE  \A g \in Fibers : ~Opens(fs[g], s) /\ ~Closes(fs[g], s) /\ ~Moves(fs[g], s)
<1>1. TransitionInv(x, fs, s)
  BY DEF SpaceInv
<1> QED BY <1>1 DEF TransitionInv, Moves

\* transition, at the start of a new runtime, which first retires one in the
\* background.
LEMMA OpeningBegun ==
  ASSUME NEW x, NEW y, NEW v, NEW slots, NEW fs, NEW gs, NEW s, NEW f \in Fibers,
         SpaceInv(x, v, slots, fs, s), Apart(f, fs, gs),
         Loose(fs[f]), gs[f].space = s,
         x.leases = 0, y.leases = 0, y.activation = "Activating",
         \/ /\ x.activation = "Active" /\ x.runtime = "background"
            /\ gs[f].pc = "retire"
         \/ x.activation = "Inactive" /\ gs[f].pc = "open",
         f \in Callers => s \in slots
  PROVE  SpaceInv(y, v, slots, gs, s)
<1>0. Callers \subseteq Fibers
  BY DEF Fibers
<1>1. \A g \in Fibers : g # f =>
           /\ Opens(fs[g], s) <=> Opens(gs[g], s)
           /\ Closes(fs[g], s) <=> Closes(gs[g], s)
           /\ Moves(fs[g], s) <=> Moves(gs[g], s)
           /\ Reads(fs[g], s) <=> Reads(gs[g], s)
           /\ g \in Holders(fs, s) <=> g \in Holders(gs, s)
           /\ fs[g].pc = gs[g].pc
  BY OthersAtSpace
<1>2. /\ ~Opens(fs[f], s) /\ ~Closes(fs[f], s) /\ ~Reads(fs[f], s) /\ ~Moves(fs[f], s)
      /\ f \notin Holders(fs, s)
  BY LooseIsNowhere DEF AtSpace, Moves, Holders
<1>3. /\ Opens(gs[f], s) /\ ~Closes(gs[f], s) /\ ~Reads(gs[f], s) /\ Moves(gs[f], s)
      /\ f \notin Holders(gs, s)
  BY DEF Opens, Closes, Reads, Moves, Holders
<1>a. \A g \in Fibers : ~Opens(fs[g], s) /\ ~Closes(fs[g], s) /\ ~Moves(fs[g], s)
  BY NobodyMoves
<1>4. Holders(gs, s) = Holders(fs, s)
  BY <1>2, <1>3, HoldersKept
<1>5. CountInv(y, gs, s)
  BY <1>4 DEF SpaceInv, CountInv, SameRuntime
<1>6. HolderInv(y, gs, s)
  <2>1. Holders(fs, s) = {}
    BY FS_EmptySet DEF SpaceInv, CountInv
  <2> QED BY <1>4, <2>1 DEF HolderInv
<1>7. TransitionInv(y, gs, s)
  BY <1>1, <1>2, <1>3, <1>a DEF SpaceInv, TransitionInv, SameRuntime
<1>8. ScopeInv(y, v, gs, s)
  BY <1>1, <1>2, <1>3, <1>a DEF SpaceInv, ScopeInv, SameRuntime
<1>9. ReaderInv(v, gs, s)
  BY <1>1, <1>2, <1>3, <1>a DEF SpaceInv, ReaderInv, ScopeInv, SameRuntime
<1>10. SlotInv(y, slots, gs, s)
  BY <1>0, <1>1, <1>2, <1>3, <1>a DEF SpaceInv, SlotInv, ScopeInv, SameRuntime
<1> QED BY <1>5, <1>6, <1>7, <1>8, <1>9, <1>10 DEF SpaceInv

\* deactivate, before the runtime is closed
LEMMA ClosingBegun ==
  ASSUME NEW x, NEW y, NEW v, NEW granted2, NEW slots, NEW fs, NEW gs, NEW s, NEW f \in Fibers,
         SpaceInv(x, v, slots, fs, s), Apart(f, fs, gs),
         Loose(fs[f]), gs[f].pc = "close", gs[f].target = s,
         x.activation = "Active", x.leases = 0,
         y.leases = 0, y.activation = "Deactivating"
  PROVE  SpaceInv(y, v, granted2, gs, s)
<1>0. Callers \subseteq Fibers
  BY DEF Fibers
<1>1. \A g \in Fibers : g # f =>
           /\ Opens(fs[g], s) <=> Opens(gs[g], s)
           /\ Closes(fs[g], s) <=> Closes(gs[g], s)
           /\ Moves(fs[g], s) <=> Moves(gs[g], s)
           /\ Reads(fs[g], s) <=> Reads(gs[g], s)
           /\ g \in Holders(fs, s) <=> g \in Holders(gs, s)
           /\ fs[g].pc = gs[g].pc
  BY OthersAtSpace
<1>2. /\ ~Opens(fs[f], s) /\ ~Closes(fs[f], s) /\ ~Reads(fs[f], s) /\ ~Moves(fs[f], s)
      /\ f \notin Holders(fs, s)
  BY LooseIsNowhere DEF AtSpace, Moves, Holders
<1>3. /\ ~Opens(gs[f], s) /\ Closes(gs[f], s) /\ ~Reads(gs[f], s) /\ Moves(gs[f], s)
      /\ f \notin Holders(gs, s)
  BY DEF Opens, Closes, Reads, Moves, Holders
<1>a. \A g \in Fibers : ~Opens(fs[g], s) /\ ~Closes(fs[g], s) /\ ~Moves(fs[g], s)
  BY NobodyMoves
<1>4. Holders(gs, s) = Holders(fs, s)
  BY <1>2, <1>3, HoldersKept
<1>5. CountInv(y, gs, s)
  BY <1>4 DEF SpaceInv, CountInv, SameRuntime
<1>6. HolderInv(y, gs, s)
  <2>1. Holders(fs, s) = {}
    BY FS_EmptySet DEF SpaceInv, CountInv
  <2> QED BY <1>4, <2>1 DEF HolderInv
<1>7. TransitionInv(y, gs, s)
  BY <1>1, <1>2, <1>3, <1>a DEF SpaceInv, TransitionInv, SameRuntime
<1>8. ScopeInv(y, v, gs, s)
  BY <1>1, <1>2, <1>3, <1>a DEF SpaceInv, ScopeInv, SameRuntime
<1>9. ReaderInv(v, gs, s)
  BY <1>1, <1>2, <1>3, <1>a DEF SpaceInv, ReaderInv, ScopeInv, SameRuntime
<1>10. SlotInv(y, granted2, gs, s)
  BY <1>0, <1>1, <1>2, <1>3, <1>a DEF SpaceInv, SlotInv, ScopeInv, SameRuntime
<1> QED BY <1>5, <1>6, <1>7, <1>8, <1>9, <1>10 DEF SpaceInv

\* the retired runtime is closed
LEMMA RuntimeRetired ==
  ASSUME NEW x, NEW y, NEW v, NEW v2, NEW slots, NEW fs, NEW gs, NEW s, NEW f \in Fibers,
         SpaceInv(x, v, slots, fs, s), Apart(f, fs, gs),
         Opens(fs[f], s), Opens(gs[f], s), fs[f].pc = "retire", gs[f].pc = "open",
         SameRuntime(x, y), v2 = "none", \A g \in Fibers : ~Reads(fs[g], s)
  PROVE  SpaceInv(y, v2, slots, gs, s)
<1>0. Callers \subseteq Fibers
  BY DEF Fibers
<1>1. \A g \in Fibers : g # f =>
           /\ Opens(fs[g], s) <=> Opens(gs[g], s)
           /\ Closes(fs[g], s) <=> Closes(gs[g], s)
           /\ Moves(fs[g], s) <=> Moves(gs[g], s)
           /\ Reads(fs[g], s) <=> Reads(gs[g], s)
           /\ g \in Holders(fs, s) <=> g \in Holders(gs, s)
           /\ fs[g].pc = gs[g].pc
  BY OthersAtSpace
<1>2. /\ Opens(fs[f], s) /\ ~Closes(fs[f], s) /\ ~Reads(fs[f], s) /\ Moves(fs[f], s)
      /\ f \notin Holders(fs, s)
  BY DEF Opens, Closes, Reads, Moves, Holders
<1>3. /\ Opens(gs[f], s) /\ ~Closes(gs[f], s) /\ ~Reads(gs[f], s) /\ Moves(gs[f], s)
      /\ f \notin Holders(gs, s)
  BY DEF Opens, Closes, Reads, Moves, Holders
<1>a. /\ Opens(fs[f], s) => x.activation = "Activating"
      /\ Closes(fs[f], s) => x.activation = "Deactivating"
      /\ Holders(fs, s) = {}
      /\ \A g \in Fibers : g # f =>
           ~Opens(fs[g], s) /\ ~Closes(fs[g], s) /\ ~Moves(fs[g], s)
  BY <1>2, MoverIsAlone
<1>4. Holders(gs, s) = Holders(fs, s)
  BY <1>2, <1>3, HoldersKept
<1>5. CountInv(y, gs, s)
  BY <1>4 DEF SpaceInv, CountInv, SameRuntime
<1>6. HolderInv(y, gs, s)
  BY <1>4, <1>a DEF HolderInv
<1>7. TransitionInv(y, gs, s)
  BY <1>1, <1>2, <1>3, <1>a DEF SpaceInv, TransitionInv, SameRuntime
<1>8. ScopeInv(y, v2, gs, s)
  BY <1>1, <1>2, <1>3, <1>a DEF SpaceInv, ScopeInv, SameRuntime
<1>9. ReaderInv(v2, gs, s)
  BY <1>1, <1>2, <1>3, <1>a DEF SpaceInv, ReaderInv, ScopeInv, SameRuntime
<1>10. SlotInv(y, slots, gs, s)
  BY <1>0, <1>1, <1>2, <1>3, <1>a DEF SpaceInv, SlotInv, ScopeInv, SameRuntime
<1> QED BY <1>5, <1>6, <1>7, <1>8, <1>9, <1>10 DEF SpaceInv

\* buildRuntime opens its scope
LEMMA ScopeOpened ==
  ASSUME NEW x, NEW y, NEW v, NEW v2, NEW slots, NEW fs, NEW gs, NEW s, NEW f \in Fibers,
         SpaceInv(x, v, slots, fs, s), Apart(f, fs, gs),
         Opens(fs[f], s), Opens(gs[f], s), fs[f].pc = "open", gs[f].pc = "build",
         SameRuntime(x, y), v2 = IF f \in Callers THEN "foreground" ELSE "background"
  PROVE  SpaceInv(y, v2, slots, gs, s)
<1>0. Callers \subseteq Fibers
  BY DEF Fibers
<1>1. \A g \in Fibers : g # f =>
           /\ Opens(fs[g], s) <=> Opens(gs[g], s)
           /\ Closes(fs[g], s) <=> Closes(gs[g], s)
           /\ Moves(fs[g], s) <=> Moves(gs[g], s)
           /\ Reads(fs[g], s) <=> Reads(gs[g], s)
           /\ g \in Holders(fs, s) <=> g \in Holders(gs, s)
           /\ fs[g].pc = gs[g].pc
  BY OthersAtSpace
<1>2. /\ Opens(fs[f], s) /\ ~Closes(fs[f], s) /\ ~Reads(fs[f], s) /\ Moves(fs[f], s)
      /\ f \notin Holders(fs, s)
  BY DEF Opens, Closes, Reads, Moves, Holders
<1>3. /\ Opens(gs[f], s) /\ ~Closes(gs[f], s) /\ ~Reads(gs[f], s) /\ Moves(gs[f], s)
      /\ f \notin Holders(gs, s)
  BY DEF Opens, Closes, Reads, Moves, Holders
<1>a. /\ Opens(fs[f], s) => x.activation = "Activating"
      /\ Closes(fs[f], s) => x.activation = "Deactivating"
      /\ Holders(fs, s) = {}
      /\ \A g \in Fibers : g # f =>
           ~Opens(fs[g], s) /\ ~Closes(fs[g], s) /\ ~Moves(fs[g], s)
  BY <1>2, MoverIsAlone
<1>4. Holders(gs, s) = Holders(fs, s)
  BY <1>2, <1>3, HoldersKept
<1>5. CountInv(y, gs, s)
  BY <1>4 DEF SpaceInv, CountInv, SameRuntime
<1>6. HolderInv(y, gs, s)
  BY <1>4, <1>a DEF HolderInv
<1>7. TransitionInv(y, gs, s)
  BY <1>1, <1>2, <1>3, <1>a DEF SpaceInv, TransitionInv, SameRuntime
<1>8. ScopeInv(y, v2, gs, s)
  BY <1>1, <1>2, <1>3, <1>a DEF SpaceInv, ScopeInv, SameRuntime
<1>9. ReaderInv(v2, gs, s)
  BY <1>1, <1>2, <1>3, <1>a DEF SpaceInv, ReaderInv, ScopeInv, SameRuntime
<1>10. SlotInv(y, slots, gs, s)
  BY <1>0, <1>1, <1>2, <1>3, <1>a DEF SpaceInv, SlotInv, ScopeInv, SameRuntime
<1> QED BY <1>5, <1>6, <1>7, <1>8, <1>9, <1>10 DEF SpaceInv

\* the runtime is built
LEMMA RuntimeBuilt ==
  ASSUME NEW x, NEW y, NEW v, NEW slots, NEW fs, NEW gs, NEW s, NEW f \in Fibers,
         SpaceInv(x, v, slots, fs, s), Apart(f, fs, gs),
         Opens(fs[f], s), fs[f].pc = "build", Loose(gs[f]),
         y.leases = x.leases, y.activation = "Active", y.runtime = v
  PROVE  SpaceInv(y, v, slots, gs, s)
<1>0. Callers \subseteq Fibers
  BY DEF Fibers
<1>1. \A g \in Fibers : g # f =>
           /\ Opens(fs[g], s) <=> Opens(gs[g], s)
           /\ Closes(fs[g], s) <=> Closes(gs[g], s)
           /\ Moves(fs[g], s) <=> Moves(gs[g], s)
           /\ Reads(fs[g], s) <=> Reads(gs[g], s)
           /\ g \in Holders(fs, s) <=> g \in Holders(gs, s)
           /\ fs[g].pc = gs[g].pc
  BY OthersAtSpace
<1>2. /\ Opens(fs[f], s) /\ ~Closes(fs[f], s) /\ ~Reads(fs[f], s) /\ Moves(fs[f], s)
      /\ f \notin Holders(fs, s)
  BY DEF Opens, Closes, Reads, Moves, Holders
<1>3. /\ ~Opens(gs[f], s) /\ ~Closes(gs[f], s) /\ ~Reads(gs[f], s) /\ ~Moves(gs[f], s)
      /\ f \notin Holders(gs, s)
  BY LooseIsNowhere DEF AtSpace, Moves, Holders
<1>a. /\ Opens(fs[f], s) => x.activation = "Activating"
      /\ Closes(fs[f], s) => x.activation = "Deactivating"
      /\ Holders(fs, s) = {}
      /\ \A g \in Fibers : g # f =>
           ~Opens(fs[g], s) /\ ~Closes(fs[g], s) /\ ~Moves(fs[g], s)
  BY <1>2, MoverIsAlone
<1>4. Holders(gs, s) = Holders(fs, s)
  BY <1>2, <1>3, HoldersKept
<1>5. CountInv(y, gs, s)
  BY <1>4 DEF SpaceInv, CountInv, SameRuntime
<1>6. HolderInv(y, gs, s)
  BY <1>4, <1>a DEF HolderInv
<1>7. TransitionInv(y, gs, s)
  BY <1>1, <1>2, <1>3, <1>a DEF SpaceInv, TransitionInv, SameRuntime
<1>8. ScopeInv(y, v, gs, s)
  BY <1>1, <1>2, <1>3, <1>a DEF SpaceInv, ScopeInv, SameRuntime
<1>9. ReaderInv(v, gs, s)
  BY <1>1, <1>2, <1>3, <1>a DEF SpaceInv, ReaderInv, ScopeInv, SameRuntime
<1>10. SlotInv(y, slots, gs, s)
  BY <1>0, <1>1, <1>2, <1>3, <1>a DEF SpaceInv, SlotInv, ScopeInv, SameRuntime
<1> QED BY <1>5, <1>6, <1>7, <1>8, <1>9, <1>10 DEF SpaceInv

\* the build fails
LEMMA RuntimeNotBuilt ==
  ASSUME NEW x, NEW y, NEW v, NEW v2, NEW granted2, NEW slots, NEW fs, NEW gs, NEW s, NEW f \in Fibers,
         SpaceInv(x, v, slots, fs, s), Apart(f, fs, gs),
         Opens(fs[f], s), fs[f].pc = "build", Loose(gs[f]),
         y.leases = x.leases, y.activation = "Inactive", v2 = "none"
  PROVE  SpaceInv(y, v2, granted2, gs, s)
<1>0. Callers \subseteq Fibers
  BY DEF Fibers
<1>1. \A g \in Fibers : g # f =>
           /\ Opens(fs[g], s) <=> Opens(gs[g], s)
           /\ Closes(fs[g], s) <=> Closes(gs[g], s)
           /\ Moves(fs[g], s) <=> Moves(gs[g], s)
           /\ Reads(fs[g], s) <=> Reads(gs[g], s)
           /\ g \in Holders(fs, s) <=> g \in Holders(gs, s)
           /\ fs[g].pc = gs[g].pc
  BY OthersAtSpace
<1>2. /\ Opens(fs[f], s) /\ ~Closes(fs[f], s) /\ ~Reads(fs[f], s) /\ Moves(fs[f], s)
      /\ f \notin Holders(fs, s)
  BY DEF Opens, Closes, Reads, Moves, Holders
<1>3. /\ ~Opens(gs[f], s) /\ ~Closes(gs[f], s) /\ ~Reads(gs[f], s) /\ ~Moves(gs[f], s)
      /\ f \notin Holders(gs, s)
  BY LooseIsNowhere DEF AtSpace, Moves, Holders
<1>a. /\ Opens(fs[f], s) => x.activation = "Activating"
      /\ Closes(fs[f], s) => x.activation = "Deactivating"
      /\ Holders(fs, s) = {}
      /\ \A g \in Fibers : g # f =>
           ~Opens(fs[g], s) /\ ~Closes(fs[g], s) /\ ~Moves(fs[g], s)
  BY <1>2, MoverIsAlone
<1>4. Holders(gs, s) = Holders(fs, s)
  BY <1>2, <1>3, HoldersKept
<1>5. CountInv(y, gs, s)
  BY <1>4 DEF SpaceInv, CountInv, SameRuntime
<1>6. HolderInv(y, gs, s)
  BY <1>4, <1>a DEF HolderInv
<1>7. TransitionInv(y, gs, s)
  BY <1>1, <1>2, <1>3, <1>a DEF SpaceInv, TransitionInv, SameRuntime
<1>8. ScopeInv(y, v2, gs, s)
  BY <1>1, <1>2, <1>3, <1>a DEF SpaceInv, ScopeInv, SameRuntime
<1>9. ReaderInv(v2, gs, s)
  BY <1>1, <1>2, <1>3, <1>a DEF SpaceInv, ReaderInv, ScopeInv, SameRuntime
<1>10. SlotInv(y, granted2, gs, s)
  BY <1>0, <1>1, <1>2, <1>3, <1>a DEF SpaceInv, SlotInv, ScopeInv, SameRuntime
<1> QED BY <1>5, <1>6, <1>7, <1>8, <1>9, <1>10 DEF SpaceInv

\* the runtime is closed
LEMMA RuntimeClosed ==
  ASSUME NEW x, NEW y, NEW v, NEW v2, NEW slots, NEW fs, NEW gs, NEW s, NEW f \in Fibers,
         SpaceInv(x, v, slots, fs, s), Apart(f, fs, gs),
         Closes(fs[f], s), Loose(gs[f]),
         y.leases = x.leases, y.activation = "Inactive", v2 = "none",
         \A g \in Fibers : ~Reads(fs[g], s)
  PROVE  SpaceInv(y, v2, slots, gs, s)
<1>0. Callers \subseteq Fibers
  BY DEF Fibers
<1>1. \A g \in Fibers : g # f =>
           /\ Opens(fs[g], s) <=> Opens(gs[g], s)
           /\ Closes(fs[g], s) <=> Closes(gs[g], s)
           /\ Moves(fs[g], s) <=> Moves(gs[g], s)
           /\ Reads(fs[g], s) <=> Reads(gs[g], s)
           /\ g \in Holders(fs, s) <=> g \in Holders(gs, s)
           /\ fs[g].pc = gs[g].pc
  BY OthersAtSpace
<1>2. /\ ~Opens(fs[f], s) /\ Closes(fs[f], s) /\ ~Reads(fs[f], s) /\ Moves(fs[f], s)
      /\ f \notin Holders(fs, s)
  BY DEF Opens, Closes, Reads, Moves, Holders
<1>3. /\ ~Opens(gs[f], s) /\ ~Closes(gs[f], s) /\ ~Reads(gs[f], s) /\ ~Moves(gs[f], s)
      /\ f \notin Holders(gs, s)
  BY LooseIsNowhere DEF AtSpace, Moves, Holders
<1>a. /\ Opens(fs[f], s) => x.activation = "Activating"
      /\ Closes(fs[f], s) => x.activation = "Deactivating"
      /\ Holders(fs, s) = {}
      /\ \A g \in Fibers : g # f =>
           ~Opens(fs[g], s) /\ ~Closes(fs[g], s) /\ ~Moves(fs[g], s)
  BY <1>2, MoverIsAlone
<1>4. Holders(gs, s) = Holders(fs, s)
  BY <1>2, <1>3, HoldersKept
<1>5. CountInv(y, gs, s)
  BY <1>4 DEF SpaceInv, CountInv, SameRuntime
<1>6. HolderInv(y, gs, s)
  BY <1>4, <1>a DEF HolderInv
<1>7. TransitionInv(y, gs, s)
  BY <1>1, <1>2, <1>3, <1>a DEF SpaceInv, TransitionInv, SameRuntime
<1>8. ScopeInv(y, v2, gs, s)
  BY <1>1, <1>2, <1>3, <1>a DEF SpaceInv, ScopeInv, SameRuntime
<1>9. ReaderInv(v2, gs, s)
  BY <1>1, <1>2, <1>3, <1>a DEF SpaceInv, ReaderInv, ScopeInv, SameRuntime
<1>10. SlotInv(y, slots, gs, s)
  BY <1>0, <1>1, <1>2, <1>3, <1>a DEF SpaceInv, SlotInv, ScopeInv, SameRuntime
<1> QED BY <1>5, <1>6, <1>7, <1>8, <1>9, <1>10 DEF SpaceInv

\* a permit of the operation gate is taken
LEMMA ReadBegun ==
  ASSUME NEW x, NEW y, NEW v, NEW slots, NEW fs, NEW gs, NEW s, NEW f \in Fibers,
         SpaceInv(x, v, slots, fs, s), Apart(f, fs, gs),
         Loose(fs[f]), Reads(gs[f], s), x.activation = "Active",
         SameRuntime(x, y)
  PROVE  SpaceInv(y, v, slots, gs, s)
<1>0. Callers \subseteq Fibers
  BY DEF Fibers
<1>1. \A g \in Fibers : g # f =>
           /\ Opens(fs[g], s) <=> Opens(gs[g], s)
           /\ Closes(fs[g], s) <=> Closes(gs[g], s)
           /\ Moves(fs[g], s) <=> Moves(gs[g], s)
           /\ Reads(fs[g], s) <=> Reads(gs[g], s)
           /\ g \in Holders(fs, s) <=> g \in Holders(gs, s)
           /\ fs[g].pc = gs[g].pc
  BY OthersAtSpace
<1>2. /\ ~Opens(fs[f], s) /\ ~Closes(fs[f], s) /\ ~Reads(fs[f], s) /\ ~Moves(fs[f], s)
      /\ f \notin Holders(fs, s)
  BY LooseIsNowhere DEF AtSpace, Moves, Holders
<1>3. /\ ~Opens(gs[f], s) /\ ~Closes(gs[f], s) /\ Reads(gs[f], s) /\ ~Moves(gs[f], s)
      /\ f \notin Holders(gs, s)
  BY DEF Opens, Closes, Reads, Moves, Holders
<1>a. \A g \in Fibers : ~Opens(fs[g], s) /\ ~Closes(fs[g], s) /\ ~Moves(fs[g], s)
  BY NobodyMoves
<1>4. Holders(gs, s) = Holders(fs, s)
  BY <1>2, <1>3, HoldersKept
<1>5. CountInv(y, gs, s)
  BY <1>4 DEF SpaceInv, CountInv, SameRuntime
<1>6. HolderInv(y, gs, s)
  BY <1>4 DEF SpaceInv, HolderInv, SameRuntime
<1>7. TransitionInv(y, gs, s)
  BY <1>1, <1>2, <1>3, <1>a DEF SpaceInv, TransitionInv, SameRuntime
<1>8. ScopeInv(y, v, gs, s)
  BY <1>1, <1>2, <1>3, <1>a DEF SpaceInv, ScopeInv, SameRuntime
<1>9. ReaderInv(v, gs, s)
  BY <1>1, <1>2, <1>3, <1>a DEF SpaceInv, ReaderInv, ScopeInv, SameRuntime
<1>10. SlotInv(y, slots, gs, s)
  BY <1>0, <1>1, <1>2, <1>3, <1>a DEF SpaceInv, SlotInv, ScopeInv, SameRuntime
<1> QED BY <1>5, <1>6, <1>7, <1>8, <1>9, <1>10 DEF SpaceInv

\* and given back
LEMMA ReadEnded ==
  ASSUME NEW x, NEW y, NEW v, NEW slots, NEW fs, NEW gs, NEW s, NEW f \in Fibers,
         SpaceInv(x, v, slots, fs, s), Apart(f, fs, gs),
         Reads(fs[f], s), Loose(gs[f]),
         SameRuntime(x, y)
  PROVE  SpaceInv(y, v, slots, gs, s)
<1>0. Callers \subseteq Fibers
  BY DEF Fibers
<1>1. \A g \in Fibers : g # f =>
           /\ Opens(fs[g], s) <=> Opens(gs[g], s)
           /\ Closes(fs[g], s) <=> Closes(gs[g], s)
           /\ Moves(fs[g], s) <=> Moves(gs[g], s)
           /\ Reads(fs[g], s) <=> Reads(gs[g], s)
           /\ g \in Holders(fs, s) <=> g \in Holders(gs, s)
           /\ fs[g].pc = gs[g].pc
  BY OthersAtSpace
<1>2. /\ ~Opens(fs[f], s) /\ ~Closes(fs[f], s) /\ Reads(fs[f], s) /\ ~Moves(fs[f], s)
      /\ f \notin Holders(fs, s)
  BY DEF Opens, Closes, Reads, Moves, Holders
<1>3. /\ ~Opens(gs[f], s) /\ ~Closes(gs[f], s) /\ ~Reads(gs[f], s) /\ ~Moves(gs[f], s)
      /\ f \notin Holders(gs, s)
  BY LooseIsNowhere DEF AtSpace, Moves, Holders
<1>4. Holders(gs, s) = Holders(fs, s)
  BY <1>2, <1>3, HoldersKept
<1>5. CountInv(y, gs, s)
  BY <1>4 DEF SpaceInv, CountInv, SameRuntime
<1>6. HolderInv(y, gs, s)
  BY <1>4 DEF SpaceInv, HolderInv, SameRuntime
<1>7. TransitionInv(y, gs, s)
  BY <1>1, <1>2, <1>3 DEF SpaceInv, TransitionInv, SameRuntime
<1>8. ScopeInv(y, v, gs, s)
  BY <1>1, <1>2, <1>3 DEF SpaceInv, ScopeInv, SameRuntime
<1>9. ReaderInv(v, gs, s)
  BY <1>1, <1>2, <1>3 DEF SpaceInv, ReaderInv, ScopeInv, SameRuntime
<1>10. SlotInv(y, slots, gs, s)
  BY <1>0, <1>1, <1>2, <1>3 DEF SpaceInv, SlotInv, ScopeInv, SameRuntime
<1> QED BY <1>5, <1>6, <1>7, <1>8, <1>9, <1>10 DEF SpaceInv

\* dropForegroundReservation, of a space nobody has or opens in the foreground
LEMMA ReservationDropped ==
  ASSUME NEW x, NEW v, NEW slots, NEW granted2, NEW fs, NEW s,
         SpaceInv(x, v, slots, fs, s),
         ~(x.activation = "Active" /\ x.runtime = "foreground"),
         \A g \in Callers : ~Opens(fs[g], s)
  PROVE  SpaceInv(x, v, granted2, fs, s)
BY DEF SpaceInv, SlotInv

(***************************************************************************)
(* All the spaces, the permits of background runtimes, and what the fibers *)
(* that wait are waiting for.                                              *)
(***************************************************************************)
Scopes == {"none", "foreground", "background"}

SpacesInv(e, l, slots, fs) ==
  /\ e \in [Spaces -> Rememberings] /\ l \in [Spaces -> Scopes]
  /\ \A s \in Spaces : SpaceInv(e[s], l[s], slots, fs, s)

InBackground(l) == {s \in Spaces : l[s] = "background"}

PermitsInv(l) ==
  IsFiniteSet(InBackground(l)) /\ Cardinality(InBackground(l)) <= BackgroundSlots

Moving(x) == x.activation \in {"Activating", "Deactivating"}

NoSlot(e, slots, s) ==
  /\ ~(e[s].activation = "Active" /\ e[s].runtime = "foreground")
  /\ Cardinality(slots \ {s}) >= ForegroundSlots
  /\ \A r \in slots \ {s} : e[r].activation = "Active" => e[r].leases # 0

FiberAwaits(e, slots, r) ==
  /\ r.pc = "awaitTransition" => Moving(e[r.space])
  /\ r.pc = "awaitCapacity" /\ r.then # "capacity" => e[r.space].leases > 0
  /\ r.pc = "awaitCapacity" /\ r.then = "capacity" => NoSlot(e, slots, r.space)

AwaitsInv(e, slots, fs) == \A f \in Fibers : FiberAwaits(e, slots, fs[f])

LEMMA CalmSpaces ==
  ASSUME NEW e, NEW l, NEW slots, NEW fs, NEW e2 \in [Spaces -> Rememberings],
         NEW granted2, NEW gs,
         SpacesInv(e, l, slots, fs), Calm(fs, gs), slots \subseteq granted2,
         \A s \in Spaces : SameRuntime(e[s], e2[s])
  PROVE  SpacesInv(e2, l, granted2, gs)
<1>1. ASSUME NEW s \in Spaces, NEW g \in Fibers, AtSpace(fs[g], s) \/ AtSpace(gs[g], s)
      PROVE  Alike(fs[g], gs[g])
  <2>1. \/ Alike(fs[g], gs[g])
        \/ fs[g].pc \notin EngagedPoints /\ gs[g].pc \notin EngagedPoints
    BY DEF Calm
  <2>2. ~(Loose(fs[g]) /\ Loose(gs[g]))
    BY <1>1, LooseIsNowhere
  <2> QED BY <2>1, <2>2 DEF Loose
<1>2. ASSUME NEW s \in Spaces
      PROVE  SpaceInv(e2[s], l[s], granted2, gs, s)
  <2>1. SpaceInv(e[s], l[s], slots, fs, s) /\ SameRuntime(e[s], e2[s])
    BY DEF SpacesInv
  <2>2. s \in slots => s \in granted2
    OBVIOUS
  <2> QED BY <1>1, <2>1, <2>2, Bystanders
<1> QED BY <1>2 DEF SpacesInv

\* A step of f at the space s, which leaves the other spaces as they were.
LEMMA StepAtSpace ==
  ASSUME NEW e, NEW l, NEW slots, NEW fs, NEW e2 \in [Spaces -> Rememberings],
         NEW l2 \in [Spaces -> Scopes], NEW granted2, NEW gs,
         NEW f \in Fibers, NEW s \in Spaces,
         SpacesInv(e, l, slots, fs), Apart(f, fs, gs),
         Loose(fs[f]) \/ AtSpace(fs[f], s), Loose(gs[f]) \/ AtSpace(gs[f], s),
         \A t \in Spaces : t # s =>
           SameRuntime(e[t], e2[t]) /\ l2[t] = l[t] /\ (t \in slots => t \in granted2),
         SpaceInv(e2[s], l2[s], granted2, gs, s)
  PROVE  SpacesInv(e2, l2, granted2, gs)
<1>1. ASSUME NEW t \in Spaces, t # s
      PROVE  SpaceInv(e2[t], l2[t], granted2, gs, t)
  <2>1. SpaceInv(e[t], l[t], slots, fs, t) /\ SameRuntime(e[t], e2[t]) /\ l2[t] = l[t]
        /\ (t \in slots => t \in granted2)
    BY <1>1 DEF SpacesInv
  <2>2. \A r : AtSpace(r, s) => ~AtSpace(r, t)
    BY <1>1 DEF AtSpace, Moves, Opens, Closes, Reads
  <2>3. ~AtSpace(fs[f], t) /\ ~AtSpace(gs[f], t)
    BY <2>2, LooseIsNowhere
  <2>4. \A g \in Fibers : AtSpace(fs[g], t) \/ AtSpace(gs[g], t) => Alike(fs[g], gs[g])
    BY <2>3 DEF Apart
  <2>5. SpaceInv(e2[t], l[t], granted2, gs, t)
    BY <2>1, <2>4, Bystanders
  <2> QED BY <2>1, <2>5
<1>2. \A t \in Spaces : SpaceInv(e2[t], l2[t], granted2, gs, t)
  BY <1>1
<1> QED BY <1>2 DEF SpacesInv

\* What a fiber waits for stays so when runtimes and slots do.
LEMMA AwaitsKept ==
  ASSUME NEW e, NEW e2, NEW slots, NEW fs, NEW gs, NEW s \in Spaces, NEW f \in Fibers,
         FibersInv(fs), FibersInv(gs), slots \subseteq Spaces, AwaitsInv(e, slots, fs),
         FiberAwaits(e2, slots, gs[f]),
         \A g \in Fibers : g # f /\ gs[g].pc \in WaitPoints => Alike(fs[g], gs[g]),
         \A t \in Spaces : t # s => SameRuntime(e[t], e2[t]),
         \/ Moving(e2[s]) \/ ~Moving(e[s])
         \/ \A g \in Fibers : gs[g].pc = "awaitTransition" => gs[g].space # s,
         e[s].leases > 0 => e2[s].leases > 0,
         e2[s].activation = "Active" =>
           /\ e[s].activation = "Active"
           /\ e2[s].runtime = "foreground" => e[s].runtime = "foreground"
           /\ e2[s].leases = 0 => e[s].leases = 0
  PROVE  AwaitsInv(e2, slots, gs)
<1> SUFFICES ASSUME NEW g \in Fibers, g # f
             PROVE  FiberAwaits(e2, slots, gs[g])
  BY DEF AwaitsInv
<1>0. gs[g].pc \in WaitPoints => gs[g].space \in Spaces
  BY DEF FibersInv, Rightly, RightPlace, WaitPoints
<1>1. gs[g].pc \in WaitPoints =>
        /\ FiberAwaits(e, slots, fs[g]) /\ Alike(fs[g], gs[g])
        /\ FiberAwaits(e, slots, gs[g])
  BY DEF AwaitsInv, FiberAwaits, Alike
<1>2. ASSUME gs[g].pc = "awaitTransition"
      PROVE  Moving(e2[gs[g].space])
  <2>1. Moving(e[gs[g].space]) /\ gs[g].space \in Spaces
    BY <1>0, <1>1, <1>2 DEF FiberAwaits, WaitPoints
  <2>2. CASE gs[g].space = s
    BY <1>2, <2>1, <2>2
  <2>3. CASE gs[g].space # s
    BY <2>1, <2>3 DEF SameRuntime, Moving
  <2> QED BY <2>2, <2>3
<1>3. ASSUME gs[g].pc = "awaitCapacity", gs[g].then # "capacity"
      PROVE  e2[gs[g].space].leases > 0
  <2>1. e[gs[g].space].leases > 0 /\ gs[g].space \in Spaces
    BY <1>0, <1>1, <1>3 DEF FiberAwaits, WaitPoints
  <2>2. CASE gs[g].space = s
    BY <2>1, <2>2
  <2>3. CASE gs[g].space # s
    BY <2>1, <2>3 DEF SameRuntime
  <2> QED BY <2>2, <2>3
<1>4. ASSUME gs[g].pc = "awaitCapacity", gs[g].then = "capacity"
      PROVE  NoSlot(e2, slots, gs[g].space)
  <2> DEFINE t == gs[g].space
  <2>1. NoSlot(e, slots, t) /\ t \in Spaces
    BY <1>0, <1>1, <1>4 DEF FiberAwaits, WaitPoints
  <2> HIDE DEF t
  <2>2. ~(e2[t].activation = "Active" /\ e2[t].runtime = "foreground")
    BY <2>1 DEF NoSlot, SameRuntime
  <2>3. ASSUME NEW r \in slots \ {t}, e2[r].activation = "Active"
        PROVE  e2[r].leases # 0
    <3>1. r \in Spaces /\ (e[r].activation = "Active" => e[r].leases # 0)
      BY <2>1 DEF NoSlot
    <3>2. CASE r = s
      BY <2>3, <3>1, <3>2
    <3>3. CASE r # s
      BY <2>3, <3>1, <3>3 DEF SameRuntime
    <3> QED BY <3>2, <3>3
  <2> QED BY <2>1, <2>2, <2>3 DEF NoSlot, t
<1> QED BY <1>2, <1>3, <1>4 DEF FiberAwaits

LEMMA SameAwaits ==
  ASSUME NEW e, NEW e2, NEW slots, NEW fs, NEW gs, FibersInv(fs), FibersInv(gs),
         slots \subseteq Spaces, AwaitsInv(e, slots, fs),
         \A g \in Fibers : gs[g].pc \in WaitPoints => Alike(fs[g], gs[g]),
         \A t \in Spaces : SameRuntime(e[t], e2[t])
  PROVE  AwaitsInv(e2, slots, gs)
<1> SUFFICES ASSUME NEW g \in Fibers
             PROVE  FiberAwaits(e2, slots, gs[g])
  BY DEF AwaitsInv
<1>0. gs[g].pc \in WaitPoints => gs[g].space \in Spaces
  BY DEF FibersInv, Rightly, RightPlace, WaitPoints
<1>1. gs[g].pc \in WaitPoints => FiberAwaits(e, slots, gs[g])
  BY DEF AwaitsInv, FiberAwaits, Alike
<1>2. gs[g].pc = "awaitTransition" => Moving(e2[gs[g].space])
  BY <1>0, <1>1 DEF FiberAwaits, WaitPoints, SameRuntime, Moving
<1>3. gs[g].pc = "awaitCapacity" /\ gs[g].then # "capacity" => e2[gs[g].space].leases > 0
  BY <1>0, <1>1 DEF FiberAwaits, WaitPoints, SameRuntime
<1>4. ASSUME gs[g].pc = "awaitCapacity", gs[g].then = "capacity"
      PROVE  NoSlot(e2, slots, gs[g].space)
  BY <1>0, <1>1, <1>4 DEF FiberAwaits, WaitPoints, SameRuntime, NoSlot
<1> QED BY <1>2, <1>3, <1>4 DEF FiberAwaits

\* After signalCapacity only transitions are awaited.
LEMMA SignalledAwaits ==
  ASSUME NEW e, NEW e2, NEW slots, NEW granted2, NEW fs, NEW gs, NEW s \in Spaces,
         NEW f \in Fibers, FibersInv(gs), AwaitsInv(e, slots, fs), NoneAwaits(gs),
         gs[f].pc \notin WaitPoints,
         \A g \in Fibers : g # f /\ gs[g].pc \in WaitPoints => Alike(fs[g], gs[g]),
         \A t \in Spaces : t # s => SameRuntime(e[t], e2[t]),
         \/ Moving(e2[s]) \/ ~Moving(e[s])
         \/ \A g \in Fibers : gs[g].pc = "awaitTransition" => gs[g].space # s
  PROVE  AwaitsInv(e2, granted2, gs)
<1> SUFFICES ASSUME NEW g \in Fibers
             PROVE  FiberAwaits(e2, granted2, gs[g])
  BY DEF AwaitsInv
<1>1. gs[g].pc # "awaitCapacity"
  BY DEF NoneAwaits
<1>2. ASSUME gs[g].pc = "awaitTransition"
      PROVE  Moving(e2[gs[g].space])
  <2>1. g # f /\ gs[g].pc \in WaitPoints
    BY <1>2 DEF WaitPoints
  <2>2. Alike(fs[g], gs[g]) /\ gs[g].space \in Spaces
    BY <2>1, <1>2 DEF FibersInv, Rightly, RightPlace
  <2>3. Moving(e[gs[g].space])
    BY <1>2, <2>2 DEF AwaitsInv, FiberAwaits, Alike
  <2>4. CASE gs[g].space = s
    BY <1>2, <2>3, <2>4
  <2>5. CASE gs[g].space # s
    BY <2>2, <2>3, <2>5 DEF SameRuntime, Moving
  <2> QED BY <2>4, <2>5
<1> QED BY <1>1, <1>2 DEF FiberAwaits

Precedes == {ss \in Nat \X Nat : ss[1] < ss[2]}

LEMMA LeastIndex ==
  ASSUME NEW I \in SUBSET Nat, I # {}
  PROVE  \E i \in I : \A j \in I : i <= j
<1>1. IsWellFoundedOn(Precedes, Nat)
  BY NatLessThanWellFounded DEF OpToRel, Precedes
<1>2. PICK i \in I : \A j \in I : ~(<<j, i>> \in Precedes)
  BY <1>1, WFMin
<1>3. \A j \in I : ~(j < i)
  BY <1>2 DEF Precedes
<1> QED BY <1>3

\* The victim of an eviction is one of those that may be evicted.
LEMMA LeastIsIn ==
  ASSUME NEW order \in Seq(Spaces), NEW V, V \subseteq ToSet(order), V # {}
  PROVE  LeastRecentlyUsed(V, order) \in V
<1> DEFINE I == {i \in DOMAIN order : order[i] \in V}
<1>1. DOMAIN order = 1 .. Len(order) /\ Len(order) \in Nat
  OBVIOUS
<1>2. I \in SUBSET Nat /\ I # {}
  BY <1>1 DEF ToSet
<1>3. PICK i \in I : \A j \in I : i <= j
  <2> HIDE DEF I
  <2> QED BY <1>2, LeastIndex
<1>5. i \in DOMAIN order /\ order[i] \in V /\ \A j \in DOMAIN order : order[j] \in V => i <= j
  BY <1>3
<1>6. \E k \in DOMAIN order :
        order[k] \in V /\ \A j \in DOMAIN order : order[j] \in V => k <= j
  BY <1>5
<1> QED BY <1>6 DEF LeastRecentlyUsed

(***************************************************************************)
(* The inductive invariant.                                                *)
(***************************************************************************)
BookInv ==
  /\ queue \in Seq(Spaces) /\ retries \subseteq Spaces /\ waits \subseteq Spaces
  /\ pending \subseteq Spaces /\ calls \in Nat /\ disturbances \in Nat

ResidencyInv ==
  /\ FibersInv(fiber)
  /\ SpacesInv(entry, live, foregroundAdmitted, fiber)
  /\ PermitsInv(live)
  /\ ResidentsInv(residents, foregroundAdmitted)
  /\ AwaitsInv(entry, foregroundAdmitted, fiber)
  /\ BookInv

(***************************************************************************)
(* Records of entries and of fibers.                                       *)
(***************************************************************************)
LEMMA Noted ==
  ASSUME NEW x \in Rememberings, NEW b \in BOOLEAN
  PROVE  /\ [x EXCEPT !.joined = b] \in Rememberings /\ SameRuntime(x, [x EXCEPT !.joined = b])
         /\ [x EXCEPT !.leaving = b] \in Rememberings /\ SameRuntime(x, [x EXCEPT !.leaving = b])
         /\ [x EXCEPT !.due = b] \in Rememberings /\ SameRuntime(x, [x EXCEPT !.due = b])
         /\ [x EXCEPT !.foreground = b] \in Rememberings
         /\ SameRuntime(x, [x EXCEPT !.foreground = b])
         /\ [x EXCEPT !.preempted = b] \in Rememberings
         /\ SameRuntime(x, [x EXCEPT !.preempted = b])
         /\ [x EXCEPT !.failed = b] \in Rememberings /\ SameRuntime(x, [x EXCEPT !.failed = b])
BY DEF Rememberings, SameRuntime

LEMMA EntryNoted ==
  ASSUME NEW e \in [Spaces -> Rememberings], NEW s \in Spaces, NEW x \in Rememberings,
         SameRuntime(e[s], x)
  PROVE  /\ [e EXCEPT ![s] = x] \in [Spaces -> Rememberings]
         /\ \A t \in Spaces : SameRuntime(e[t], [e EXCEPT ![s] = x][t])
BY DEF SameRuntime

LEMMA SameEntries ==
  ASSUME NEW e
  PROVE  \A t \in Spaces : SameRuntime(e[t], e[t])
BY DEF SameRuntime

LEMMA SameRuntimeIsTransitive ==
  ASSUME NEW e, NEW e1, NEW e2, \A t \in Spaces : SameRuntime(e[t], e1[t]),
         \A t \in Spaces : SameRuntime(e1[t], e2[t])
  PROVE  \A t \in Spaces : SameRuntime(e[t], e2[t])
BY DEF SameRuntime

Suits(p, call) ==
  /\ p \in {"capacity", "retire", "use", "withdraw"} => call = "use"
  /\ p \in {"enter", "open", "build", "built"} => call \in {"use", "turn"}
  /\ p = "read" => call = "read"
  /\ p = "deactivate" => call \in {"deactivate", "leave"}
  /\ p \in {"delete", "undo"} => call = "leave"
  /\ p \in {"sync", "settle"} => call = "turn"
  /\ p \in {"close", "count"} => call \in {"use", "deactivate", "leave", "turn"}

\* A fiber goes on to the point p of its call, or waits at p, to go on to n.
Placed(r, p) == [r EXCEPT !.pc = p]

WaitingAt(r, p, n) == [r EXCEPT !.pc = p, !.then = n]

LEMMA PlacedRight ==
  ASSUME NEW f \in Fibers, NEW r, NEW p \in Points, Rightly(f, r), r.pc # "idle",
         p \notin WaitPoints, p # "idle", Suits(p, r.call),
         r.target = r.space \/ (p \in {"close", "count"} /\ r.call = "use")
  PROVE  /\ Rightly(f, Placed(r, p))
         /\ Placed(r, p).pc = p /\ Placed(r, p).call = r.call
         /\ Placed(r, p).space = r.space /\ Placed(r, p).target = r.target
<1> DEFINE q == Placed(r, p)
<1>1. r \in FiberStates
  BY DEF Rightly
<1>2. /\ q \in FiberStates /\ q.pc = p /\ q.call = r.call /\ q.space = r.space
      /\ q.target = r.target /\ q.then = r.then
  BY <1>1 DEF FiberStates, Placed
<1> HIDE DEF q
<1>3. RightPlace(q) /\ RightWait(q)
  BY <1>2 DEF Rightly, RightPlace, RightWait, Suits, WaitPoints
<1> QED BY <1>2, <1>3 DEF Rightly, q

LEMMA WaitingRight ==
  ASSUME NEW f \in Fibers, NEW r, NEW p \in WaitPoints, NEW n, Rightly(f, r), r.pc # "idle",
         r.target = r.space,
         \/ r.call = "use" /\ n \in {"enter", "capacity"}
         \/ r.call \in {"deactivate", "leave"} /\ n = "deactivate"
         \/ r.call = "turn" /\ n = "enter",
         p = "awaitTransition" => n # "capacity"
  PROVE  /\ Rightly(f, WaitingAt(r, p, n))
         /\ WaitingAt(r, p, n).pc = p /\ WaitingAt(r, p, n).space = r.space
         /\ WaitingAt(r, p, n).then = n
<1> DEFINE q == WaitingAt(r, p, n)
<1>1. r \in FiberStates /\ p \in Points /\ n \in {"enter", "capacity", "deactivate"}
  BY DEF Rightly, WaitPoints, Points
<1>2. /\ q \in FiberStates /\ q.pc = p /\ q.call = r.call /\ q.space = r.space
      /\ q.target = r.target /\ q.then = n
  BY <1>1 DEF FiberStates, WaitingAt
<1> HIDE DEF q
<1>3. RightPlace(q) /\ RightWait(q)
  BY <1>2 DEF Rightly, RightPlace, RightWait, WaitPoints
<1> QED BY <1>2, <1>3 DEF Rightly, q

LEMMA GotoPlaces ==
  ASSUME NEW f \in Fibers, NEW p, NEW n
  PROVE  /\ Goto(f, p) = [fiber EXCEPT ![f] = Placed(fiber[f], p)]
         /\ Await(f, p, n) = [fiber EXCEPT ![f] = WaitingAt(fiber[f], p, n)]
BY DEF Goto, Await, Placed, WaitingAt

LEMMA FiberRight ==
  ASSUME FibersInv(fiber), NEW f \in Fibers
  PROVE  /\ Rightly(f, fiber[f]) /\ fiber[f] \in FiberStates
         /\ fiber[f].pc # "idle" => fiber[f].space \in Spaces /\ fiber[f].target \in Spaces
         /\ fiber[f].pc \notin {"close", "count"} \/ fiber[f].call # "use" =>
              fiber[f].target = fiber[f].space
BY DEF FibersInv, Rightly, RightPlace

\* A call that ends, having held nothing.
LEMMA DoneLoosely ==
  ASSUME FibersInv(fiber), NEW f \in Fibers, Loose(fiber[f])
  PROVE  FibersInv(Done(f)) /\ Calm(fiber, Done(f))
<1>1. Rightly(f, IdleFiber) /\ IdleFiber.pc \notin EngagedPoints \cup WaitPoints
  BY IdleRight DEF EngagedPoints, WaitPoints
<1> QED BY <1>1, LooseMove DEF Done, Loose

\* A fiber that holds nothing goes on to p, where it holds nothing.
LEMMA GotoLoosely ==
  ASSUME FibersInv(fiber), NEW f \in Fibers, NEW p \in Points, Loose(fiber[f]),
         fiber[f].pc # "idle", p \notin EngagedPoints \cup WaitPoints, p # "idle",
         Suits(p, fiber[f].call), fiber[f].target = fiber[f].space
  PROVE  FibersInv(Goto(f, p)) /\ Calm(fiber, Goto(f, p))
<1> DEFINE q == Placed(fiber[f], p)
<1>1. Rightly(f, fiber[f])
  BY FiberRight
<1>2. Rightly(f, q) /\ q.pc = p
  <2>1. p \notin WaitPoints
    OBVIOUS
  <2> QED BY <1>1, <2>1, PlacedRight
<1>3. Goto(f, p) = [fiber EXCEPT ![f] = q]
  BY GotoPlaces
<1> HIDE DEF q
<1>4. fiber[f].pc \notin EngagedPoints /\ q.pc \notin EngagedPoints \cup WaitPoints
  BY <1>2 DEF Loose
<1>5. FibersInv([fiber EXCEPT ![f] = q]) /\ Calm(fiber, [fiber EXCEPT ![f] = q])
  BY <1>2, <1>4, LooseMove
<1> QED BY <1>3, <1>5

(***************************************************************************)
(* Steps that take nothing and give nothing back.                          *)
(***************************************************************************)
LEMMA QuietStep ==
  ASSUME ResidencyInv, FibersInv(fiber'), Calm(fiber, fiber'),
         entry' \in [Spaces -> Rememberings], \A t \in Spaces : SameRuntime(entry[t], entry'[t]),
         live' = live, residents' = residents, foregroundAdmitted' = foregroundAdmitted,
         BookInv'
  PROVE  ResidencyInv'
<1>1. SpacesInv(entry', live, foregroundAdmitted, fiber')
  BY CalmSpaces DEF ResidencyInv
<1>2. AwaitsInv(entry', foregroundAdmitted, fiber')
  <2>1. foregroundAdmitted \subseteq Spaces
    BY DEF ResidencyInv, ResidentsInv
  <2>2. \A g \in Fibers : fiber'[g].pc \in WaitPoints => Alike(fiber[g], fiber'[g])
    BY DEF Calm
  <2>3. FibersInv(fiber) /\ AwaitsInv(entry, foregroundAdmitted, fiber)
    BY DEF ResidencyInv
  <2> QED BY <2>1, <2>2, <2>3, SameAwaits
<1> QED BY <1>1, <1>2 DEF ResidencyInv

LEMMA SpaceEntriesAre ==
  ASSUME ResidencyInv
  PROVE  /\ entry \in [Spaces -> Rememberings] /\ live \in [Spaces -> Scopes]
         /\ \A s \in Spaces : entry[s] \in Rememberings
         /\ \A s \in Spaces : SpaceInv(entry[s], live[s], foregroundAdmitted, fiber, s)
BY DEF ResidencyInv, SpacesInv

\* enqueueBackground, at the end of a step.
LEMMA Enqueued ==
  ASSUME NEW s \in Spaces, NEW e \in [Spaces -> Rememberings], NEW fs, NEW condition,
         FibersInv(fs), queue \in Seq(Spaces), retries \subseteq Spaces,
         Enqueue(s, e, fs) \/ NoEnqueue(e, fs) \/ EnqueueIf(condition, s, e, fs)
  PROVE  /\ FibersInv(fiber') /\ Calm(fs, fiber')
         /\ entry' \in [Spaces -> Rememberings]
         /\ \A t \in Spaces : SameRuntime(e[t], entry'[t])
         /\ queue' \in Seq(Spaces) /\ retries' \subseteq Spaces
<1>1. Enqueue(s, e, fs) \/ NoEnqueue(e, fs)
  BY DEF EnqueueIf
<1>2. Calm(fs, fs)
  BY DEF Calm, Alike
<1>3. \A t \in Spaces : SameRuntime(e[t], e[t])
  BY SameEntries
<1>4. CASE entry' = e /\ fiber' = fs /\ UNCHANGED <<queue, retries>>
  BY <1>2, <1>3, <1>4
<1>5. CASE Enqueue(s, e, fs) /\ e[s].leaving
  <2> DEFINE x == [e[s] EXCEPT !.due = TRUE]
  <2>1. entry' = [e EXCEPT ![s] = x] /\ fiber' = fs /\ UNCHANGED <<queue, retries>>
    BY <1>5 DEF Enqueue
  <2>2. x \in Rememberings /\ SameRuntime(e[s], x)
    BY Noted
  <2> HIDE DEF x
  <2> QED BY <1>2, <2>1, <2>2, EntryNoted
<1>6. CASE Enqueue(s, e, fs) /\ ~e[s].leaving /\ s \notin ToSet(queue)
  <2>1. /\ entry' = e /\ fiber' = Obsolete(fs, s)
        /\ queue' = Append(queue, s) /\ retries' = retries \ {s}
    BY <1>6 DEF Enqueue
  <2>2. queue' \in Seq(Spaces) /\ retries' \subseteq Spaces
    BY <2>1
  <2>3. FibersInv(fiber') /\ Calm(fs, fiber')
    BY <2>1, ObsoleteFibers
  <2> QED BY <1>3, <2>1, <2>2, <2>3
<1>7. Enqueue(s, e, fs) =>
        \/ entry' = e /\ fiber' = fs /\ UNCHANGED <<queue, retries>>
        \/ e[s].leaving
        \/ ~e[s].leaving /\ s \notin ToSet(queue)
  BY DEF Enqueue
<1> QED BY <1>1, <1>4, <1>5, <1>6, <1>7 DEF NoEnqueue

LEMMA EnqueuedQuietly ==
  ASSUME ResidencyInv, NEW s \in Spaces, NEW e \in [Spaces -> Rememberings], NEW fs,
         NEW condition, FibersInv(fs), Calm(fiber, fs),
         \A t \in Spaces : SameRuntime(entry[t], e[t]),
         Enqueue(s, e, fs) \/ NoEnqueue(e, fs) \/ EnqueueIf(condition, s, e, fs),
         live' = live, residents' = residents, foregroundAdmitted' = foregroundAdmitted,
         pending' = pending, waits' \subseteq Spaces, calls' \in Nat, disturbances' \in Nat
  PROVE  ResidencyInv'
<1>1. /\ FibersInv(fiber') /\ Calm(fs, fiber')
      /\ entry' \in [Spaces -> Rememberings]
      /\ \A t \in Spaces : SameRuntime(e[t], entry'[t])
      /\ queue' \in Seq(Spaces) /\ retries' \subseteq Spaces
  BY Enqueued DEF ResidencyInv, BookInv
<1>2. Calm(fiber, fiber')
  BY <1>1, CalmIsTransitive
<1>3. \A t \in Spaces : SameRuntime(entry[t], entry'[t])
  BY <1>1, SameRuntimeIsTransitive
<1>4. BookInv'
  BY <1>1 DEF ResidencyInv, BookInv
<1> QED BY <1>1, <1>2, <1>3, <1>4, QuietStep

LEMMA IsCaller ==
  ASSUME FibersInv(fiber), NEW f \in Fibers
  PROVE  /\ fiber[f].call \in {"use", "read", "deactivate", "leave"} => f \in Callers
         /\ fiber[f].call = "turn" => f \in Workers /\ f \notin Callers
         /\ f \in Callers /\ fiber[f].pc # "idle" =>
              fiber[f].call \in {"use", "read", "deactivate", "leave"}
         /\ f \in Workers => fiber[f].call \in {"none", "turn"}
<1>1. Rightly(f, fiber[f])
  BY FiberRight
<1>2. fiber[f].call \in Commands /\ (fiber[f].pc = "idle" <=> fiber[f].call = "none")
  BY <1>1 DEF Rightly, FiberStates, RightPlace
<1>3. f \in Callers \/ f \in Workers
  BY DEF Fibers
<1> QED BY <1>1, <1>2, <1>3 DEF Rightly, Commands

LEMMA TurnedAwayStep ==
  ASSUME ResidencyInv, NEW f \in Fibers, TurnedAway(f)
  PROVE  ResidencyInv'
<1> DEFINE s == fiber[f].space
<1>0. FibersInv(fiber) /\ entry \in [Spaces -> Rememberings]
  BY SpaceEntriesAre DEF ResidencyInv
<1>1. /\ fiber[f].pc = "enter" /\ s \in Spaces /\ fiber[f].target = s /\ Loose(fiber[f])
      /\ fiber[f].call \in {"use", "turn"}
  BY <1>0, FiberRight DEF TurnedAway, Loose, EngagedPoints, Rightly, RightPlace
<1>2. BookInv'
  BY DEF TurnedAway, ResidencyInv, BookInv, storeVars, workVars, boundVars
<1>3. /\ live' = live /\ residents' = residents /\ foregroundAdmitted' = foregroundAdmitted
  BY DEF TurnedAway, storeVars, slotVars
<1>4. CASE f \in Callers
  <2>1. fiber' = Goto(f, "withdraw") /\ entry' = entry
    BY <1>4 DEF TurnedAway, Foreground
  <2>2. fiber[f].call = "use"
    BY <1>0, <1>1, <1>4, IsCaller
  <2>3. FibersInv(fiber') /\ Calm(fiber, fiber')
    BY <1>0, <1>1, <2>1, <2>2, GotoLoosely DEF Points, EngagedPoints, WaitPoints, Suits
  <2> QED BY <1>0, <1>2, <1>3, <2>1, <2>3, SameEntries, QuietStep
<1>5. CASE f \notin Callers
  <2>1. fiber' = Done(f) /\ entry' = [entry EXCEPT ![s] = [entry[s] EXCEPT !.due = TRUE]]
    BY <1>5 DEF TurnedAway, Foreground
  <2>2. FibersInv(fiber') /\ Calm(fiber, fiber')
    BY <1>0, <1>1, <2>1, DoneLoosely
  <2>3. /\ [entry[s] EXCEPT !.due = TRUE] \in Rememberings
        /\ SameRuntime(entry[s], [entry[s] EXCEPT !.due = TRUE])
    BY <1>0, <1>1, Noted
  <2>4. /\ entry' \in [Spaces -> Rememberings]
        /\ \A t \in Spaces : SameRuntime(entry[t], entry'[t])
    BY <1>0, <1>1, <2>1, <2>3, EntryNoted
  <2> QED BY <1>2, <1>3, <2>2, <2>4, QuietStep
<1> QED BY <1>4, <1>5

LEMMA AfterCloseRight ==
  ASSUME FibersInv(fiber), NEW f \in Fibers, fiber[f].pc = "count"
  PROVE  FibersInv(AfterClose(f)) /\ Calm(fiber, AfterClose(f))
<1> DEFINE r == fiber[f]
<1>1. /\ Rightly(f, r) /\ r \in FiberStates /\ r.space \in Spaces /\ Loose(r)
      /\ r.call \in {"use", "deactivate", "leave", "turn"}
      /\ r.call # "use" => r.target = r.space
  BY FiberRight DEF Rightly, RightPlace, Loose, EngagedPoints
<1>2. CASE r.call = "use"
  <2> DEFINE q == [r EXCEPT !.pc = "capacity", !.target = r.space]
  <2>1. AfterClose(f) = [fiber EXCEPT ![f] = q]
    BY <1>2 DEF AfterClose
  <2>2. /\ q \in FiberStates /\ q.pc = "capacity" /\ q.call = r.call /\ q.space = r.space
        /\ q.target = r.space /\ q.then = r.then
    BY <1>1 DEF FiberStates, Points
  <2> HIDE DEF q
  <2>3. RightPlace(q) /\ RightWait(q)
    BY <1>1, <1>2, <2>2 DEF RightPlace, RightWait, WaitPoints
  <2>4. Rightly(f, q)
    BY <1>1, <2>2, <2>3 DEF Rightly
  <2>5. q.pc \notin EngagedPoints \cup WaitPoints
    BY <2>2 DEF EngagedPoints, WaitPoints
  <2>6. fiber[f].pc \notin EngagedPoints
    BY <1>1 DEF Loose
  <2>7. FibersInv([fiber EXCEPT ![f] = q]) /\ Calm(fiber, [fiber EXCEPT ![f] = q])
    BY <2>4, <2>5, <2>6, LooseMove
  <2> QED BY <2>1, <2>7
<1>3. CASE r.call = "deactivate" \/ (r.call = "turn" /\ r.result = "ok")
  <2>1. AfterClose(f) = Done(f)
    BY <1>3 DEF AfterClose
  <2> QED BY <1>1, <2>1, DoneLoosely
<1>4. CASE r.call = "leave"
  <2>1. AfterClose(f) = Goto(f, "delete")
    BY <1>4 DEF AfterClose
  <2>2. FibersInv(Goto(f, "delete")) /\ Calm(fiber, Goto(f, "delete"))
    BY <1>1, <1>4, GotoLoosely DEF Points, EngagedPoints, WaitPoints, Suits
  <2> QED BY <2>1, <2>2
<1>5. CASE r.call = "turn" /\ r.result # "ok"
  <2>1. AfterClose(f) = Goto(f, "settle")
    BY <1>5 DEF AfterClose
  <2>2. FibersInv(Goto(f, "settle")) /\ Calm(fiber, Goto(f, "settle"))
    BY <1>1, <1>5, GotoLoosely DEF Points, EngagedPoints, WaitPoints, Suits
  <2> QED BY <2>1, <2>2
<1>6. \/ r.call = "use"
      \/ r.call = "deactivate" \/ (r.call = "turn" /\ r.result = "ok")
      \/ r.call = "leave"
      \/ r.call = "turn" /\ r.result # "ok"
  <2>1. r.call \in {"use", "deactivate", "leave", "turn"}
    BY <1>1
  <2> QED BY <2>1
<1> HIDE DEF r
<1> QED BY <1>2, <1>3, <1>4, <1>5, <1>6

LEMMA CountStep ==
  ASSUME ResidencyInv, NEW f \in Fibers, Count(f)
  PROVE  ResidencyInv'
<1> DEFINE v == fiber[f].target
           condition == fiber[f].result = "ok" /\ v \in pending
<1>0. FibersInv(fiber) /\ entry \in [Spaces -> Rememberings]
  BY SpaceEntriesAre DEF ResidencyInv
<1>1. fiber[f].pc = "count" /\ v \in Spaces
  BY <1>0, FiberRight DEF Count
<1>2. FibersInv(AfterClose(f)) /\ Calm(fiber, AfterClose(f))
  BY <1>0, <1>1, AfterCloseRight
<1>3. EnqueueIf(condition, v, entry, AfterClose(f))
  BY DEF Count
<1>4. /\ live' = live /\ residents' = residents /\ foregroundAdmitted' = foregroundAdmitted
      /\ pending' = pending /\ waits' \subseteq Spaces /\ calls' \in Nat /\ disturbances' \in Nat
  BY DEF Count, storeVars, slotVars, boundVars, ResidencyInv, BookInv
<1> HIDE DEF v, condition
<1> QED BY <1>0, <1>1, <1>2, <1>3, <1>4, SameEntries, EnqueuedQuietly

LEMMA DeleteStep ==
  ASSUME ResidencyInv, NEW c \in Callers, DeleteMembership(c)
  PROVE  ResidencyInv'
<1> DEFINE s == fiber[c].space
           x == [entry[s] EXCEPT !.joined = FALSE]
<1>0. FibersInv(fiber) /\ entry \in [Spaces -> Rememberings] /\ c \in Fibers
  BY SpaceEntriesAre DEF ResidencyInv, Fibers
<1>1. fiber[c].pc = "delete" /\ s \in Spaces /\ Loose(fiber[c])
  BY <1>0, FiberRight DEF DeleteMembership, Loose, EngagedPoints
<1>2. FibersInv(Done(c)) /\ Calm(fiber, Done(c))
  BY <1>0, <1>1, DoneLoosely
<1>3. fiber' = Obsolete(Done(c), s) /\ entry' = [entry EXCEPT ![s] = x]
  BY DEF DeleteMembership
<1>4. FibersInv(fiber') /\ Calm(Done(c), fiber')
  BY <1>1, <1>2, <1>3, ObsoleteFibers
<1>5. Calm(fiber, fiber')
  BY <1>2, <1>4, CalmIsTransitive
<1>6. x \in Rememberings /\ SameRuntime(entry[s], x)
  BY <1>0, <1>1, Noted
<1> HIDE DEF x
<1>7. /\ entry' \in [Spaces -> Rememberings]
      /\ \A t \in Spaces : SameRuntime(entry[t], entry'[t])
  BY <1>0, <1>1, <1>3, <1>6, EntryNoted
<1>8. BookInv'
  BY DEF DeleteMembership, ResidencyInv, BookInv, boundVars
<1>9. /\ live' = live /\ residents' = residents /\ foregroundAdmitted' = foregroundAdmitted
  BY DEF DeleteMembership, slotVars
<1> QED BY <1>4, <1>5, <1>7, <1>8, <1>9, QuietStep

LEMMA DeleteFailsStep ==
  ASSUME ResidencyInv, NEW c \in Callers, DeleteFails(c)
  PROVE  ResidencyInv'
<1>0. FibersInv(fiber) /\ entry \in [Spaces -> Rememberings] /\ c \in Fibers
  BY SpaceEntriesAre DEF ResidencyInv, Fibers
<1>1. /\ fiber[c].pc = "delete" /\ Loose(fiber[c]) /\ fiber[c].call = "leave"
      /\ fiber[c].target = fiber[c].space
  BY <1>0, FiberRight DEF DeleteFails, Loose, EngagedPoints, Rightly, RightPlace
<1>2. fiber' = Goto(c, "undo") /\ entry' = entry
  BY DEF DeleteFails
<1>3. FibersInv(fiber') /\ Calm(fiber, fiber')
  BY <1>0, <1>1, <1>2, GotoLoosely DEF Points, EngagedPoints, WaitPoints, Suits
<1>4. /\ live' = live /\ residents' = residents /\ foregroundAdmitted' = foregroundAdmitted
      /\ BookInv'
  BY DEF DeleteFails, Disturb, ResidencyInv, BookInv, storeVars, slotVars, workVars
<1> QED BY <1>0, <1>2, <1>3, <1>4, SameEntries, QuietStep

LEMMA UndoStep ==
  ASSUME ResidencyInv, NEW c \in Callers, Undo(c)
  PROVE  ResidencyInv'
<1> DEFINE s == fiber[c].space
           y == [entry[s] EXCEPT !.leaving = FALSE]
           x == [y EXCEPT !.due = FALSE]
           e == [entry EXCEPT ![s] = x]
           condition == entry[s].due
<1>0. FibersInv(fiber) /\ entry \in [Spaces -> Rememberings] /\ c \in Fibers
  BY SpaceEntriesAre DEF ResidencyInv, Fibers
<1>1. fiber[c].pc = "undo" /\ s \in Spaces /\ Loose(fiber[c])
  BY <1>0, FiberRight DEF Undo, Loose, EngagedPoints
<1>2. FibersInv(Done(c)) /\ Calm(fiber, Done(c))
  BY <1>0, <1>1, DoneLoosely
<1>3. EnqueueIf(condition, s, e, Done(c))
  <2>1. e = [entry EXCEPT ![s].leaving = FALSE, ![s].due = FALSE]
    BY <1>0, <1>1
  <2> QED BY <2>1 DEF Undo
<1>4. x \in Rememberings /\ SameRuntime(entry[s], x)
  <2>1. y \in Rememberings /\ SameRuntime(entry[s], y)
    BY <1>0, <1>1, Noted
  <2> HIDE DEF y
  <2>2. x \in Rememberings /\ SameRuntime(y, x)
    BY <2>1, Noted
  <2> QED BY <2>1, <2>2 DEF SameRuntime
<1> HIDE DEF x, condition
<1>5. e \in [Spaces -> Rememberings] /\ \A t \in Spaces : SameRuntime(entry[t], e[t])
  BY <1>0, <1>1, <1>4, EntryNoted
<1>6. /\ live' = live /\ residents' = residents /\ foregroundAdmitted' = foregroundAdmitted
      /\ pending' = pending /\ waits' \subseteq Spaces /\ calls' \in Nat /\ disturbances' \in Nat
  BY DEF Undo, storeVars, slotVars, boundVars, ResidencyInv, BookInv
<1> HIDE DEF e
<1> QED BY <1>1, <1>2, <1>3, <1>5, <1>6, EnqueuedQuietly

LEMMA TakeWorkStep ==
  ASSUME ResidencyInv, NEW w \in Workers, TakeWork(w)
  PROVE  ResidencyInv'
<1> DEFINE s == Head(queue)
           r == [IdleFiber EXCEPT !.pc = "enter", !.call = "turn", !.space = s,
                                  !.target = s, !.current = TRUE]
<1>0. FibersInv(fiber) /\ entry \in [Spaces -> Rememberings] /\ w \in Fibers
  BY SpaceEntriesAre DEF ResidencyInv, Fibers
<1>1. fiber[w] = IdleFiber /\ queue # <<>> /\ queue' = Tail(queue)
  BY DEF TakeWork
<1>2. s \in Spaces /\ queue' \in Seq(Spaces)
  BY <1>1 DEF ResidencyInv, BookInv
<1>3. BookInv'
  BY <1>2 DEF TakeWork, ResidencyInv, BookInv, storeVars, boundVars
<1>4. /\ live' = live /\ residents' = residents /\ foregroundAdmitted' = foregroundAdmitted
  BY DEF TakeWork, storeVars, slotVars
<1>5. Calm(fiber, fiber)
  BY DEF Calm, Alike
<1>6. CASE entry' = entry /\ fiber' = fiber
  BY <1>0, <1>3, <1>4, <1>5, <1>6, SameEntries, QuietStep
<1>7. CASE entry' = [entry EXCEPT ![s] = [entry[s] EXCEPT !.due = TRUE]] /\ fiber' = fiber
  <2>1. /\ [entry[s] EXCEPT !.due = TRUE] \in Rememberings
        /\ SameRuntime(entry[s], [entry[s] EXCEPT !.due = TRUE])
    BY <1>0, <1>2, Noted
  <2>2. /\ entry' \in [Spaces -> Rememberings]
        /\ \A t \in Spaces : SameRuntime(entry[t], entry'[t])
    BY <1>0, <1>2, <1>7, <2>1, EntryNoted
  <2> QED BY <1>0, <1>3, <1>4, <1>5, <1>7, <2>2, QuietStep
<1>8. CASE entry' = entry /\ fiber' = [fiber EXCEPT ![w] = r]
  <2>1. /\ r \in FiberStates /\ r.pc = "enter" /\ r.call = "turn" /\ r.space = s
        /\ r.target = s
    BY <1>2 DEF IdleFiber, FiberStates, Points, Commands, Outcomes
  <2>2. w \notin Callers
    BY CapacityAssumption
  <2> HIDE DEF r, s
  <2>3. RightPlace(r) /\ RightWait(r)
    BY <1>2, <2>1 DEF RightPlace, RightWait, WaitPoints
  <2>4. Rightly(w, r)
    BY <2>1, <2>2, <2>3 DEF Rightly
  <2>5. fiber[w].pc \notin EngagedPoints /\ r.pc \notin EngagedPoints \cup WaitPoints
    BY <1>1, <2>1, IdleRight, <1>0 DEF EngagedPoints, WaitPoints
  <2>6. FibersInv(fiber') /\ Calm(fiber, fiber')
    BY <1>0, <1>8, <2>4, <2>5, LooseMove
  <2> QED BY <1>0, <1>3, <1>4, <1>8, <2>6, SameEntries, QuietStep
<1> QED BY <1>6, <1>7, <1>8 DEF TakeWork

LEMMA SettleStep ==
  ASSUME ResidencyInv, NEW w \in Workers, Settle(w)
  PROVE  ResidencyInv'
<1> DEFINE s == fiber[w].space
<1>0. FibersInv(fiber) /\ entry \in [Spaces -> Rememberings] /\ w \in Fibers
  BY SpaceEntriesAre DEF ResidencyInv, Fibers
<1>1. fiber[w].pc = "settle" /\ s \in Spaces /\ Loose(fiber[w])
  BY <1>0, FiberRight DEF Settle, Loose, EngagedPoints
<1>2. FibersInv(Done(w)) /\ Calm(fiber, Done(w))
  BY <1>0, <1>1, DoneLoosely
<1>3. BookInv'
  BY <1>1 DEF Settle, ResidencyInv, BookInv, storeVars, boundVars
<1>4. /\ live' = live /\ residents' = residents /\ foregroundAdmitted' = foregroundAdmitted
  BY DEF Settle, storeVars, slotVars
<1>5. FibersInv(fiber') /\ Calm(fiber, fiber')
  <2>1. CASE fiber' = Done(w)
    BY <1>2, <2>1
  <2>2. CASE fiber' = Obsolete(Done(w), s)
    <3>1. FibersInv(fiber') /\ Calm(Done(w), fiber')
      BY <1>1, <1>2, <2>2, ObsoleteFibers
    <3> QED BY <1>2, <3>1, CalmIsTransitive
  <2> QED BY <2>1, <2>2 DEF Settle
<1>6. /\ entry' \in [Spaces -> Rememberings]
      /\ \A t \in Spaces : SameRuntime(entry[t], entry'[t])
  <2>1. CASE entry' = entry
    BY <1>0, <2>1, SameEntries
  <2>2. ASSUME NEW b \in BOOLEAN, entry' = [entry EXCEPT ![s] = [entry[s] EXCEPT !.failed = b]]
        PROVE  /\ entry' \in [Spaces -> Rememberings]
               /\ \A t \in Spaces : SameRuntime(entry[t], entry'[t])
    <3>1. /\ [entry[s] EXCEPT !.failed = b] \in Rememberings
          /\ SameRuntime(entry[s], [entry[s] EXCEPT !.failed = b])
      BY <1>0, <1>1, Noted
    <3> QED BY <1>0, <1>1, <2>2, <3>1, EntryNoted
  <2> QED BY <2>1, <2>2 DEF Settle
<1> QED BY <1>3, <1>4, <1>5, <1>6, QuietStep

LEMMA RetryStep ==
  ASSUME ResidencyInv, NEW s \in Spaces, Retry(s)
  PROVE  ResidencyInv'
<1>0. FibersInv(fiber) /\ entry \in [Spaces -> Rememberings]
  BY SpaceEntriesAre DEF ResidencyInv
<1>1. queue' \in Seq(Spaces)
  BY DEF Retry, ResidencyInv, BookInv
<1>2. BookInv'
  BY <1>1 DEF Retry, ResidencyInv, BookInv, storeVars, boundVars
<1>3. /\ live' = live /\ residents' = residents /\ foregroundAdmitted' = foregroundAdmitted
      /\ fiber' = fiber
  BY DEF Retry, storeVars, slotVars
<1>4. Calm(fiber, fiber)
  BY DEF Calm, Alike
<1>5. /\ entry' \in [Spaces -> Rememberings]
      /\ \A t \in Spaces : SameRuntime(entry[t], entry'[t])
  <2>1. CASE entry' = entry
    BY <1>0, <2>1, SameEntries
  <2>2. CASE entry' = [entry EXCEPT ![s] = [entry[s] EXCEPT !.due = TRUE]]
    <3>1. /\ [entry[s] EXCEPT !.due = TRUE] \in Rememberings
          /\ SameRuntime(entry[s], [entry[s] EXCEPT !.due = TRUE])
      BY <1>0, Noted
    <3> QED BY <1>0, <2>2, <3>1, EntryNoted
  <2> QED BY <2>1, <2>2 DEF Retry
<1> QED BY <1>0, <1>2, <1>3, <1>4, <1>5, QuietStep

LEMMA RenewStep ==
  ASSUME ResidencyInv, NEW s \in Spaces, Renew(s)
  PROVE  ResidencyInv'
<1>0. FibersInv(fiber) /\ entry \in [Spaces -> Rememberings]
  BY SpaceEntriesAre DEF ResidencyInv
<1>1. Calm(fiber, fiber)
  BY DEF Calm, Alike
<1>2. Enqueue(s, entry, fiber)
  BY DEF Renew
<1>3. /\ live' = live /\ residents' = residents /\ foregroundAdmitted' = foregroundAdmitted
      /\ pending' = pending /\ waits' \subseteq Spaces /\ calls' \in Nat /\ disturbances' \in Nat
  BY DEF Renew, storeVars, slotVars, boundVars, ResidencyInv, BookInv
<1> QED BY <1>0, <1>1, <1>2, <1>3, SameEntries, EnqueuedQuietly

LEMMA ForegroundSyncStep ==
  ASSUME ResidencyInv, NEW s \in Spaces, ForegroundSync(s)
  PROVE  ResidencyInv'
<1>0. FibersInv(fiber) /\ entry \in [Spaces -> Rememberings]
  BY SpaceEntriesAre DEF ResidencyInv
<1>1. /\ entry' = [entry EXCEPT ![s] = [entry[s] EXCEPT !.failed = FALSE]]
      /\ fiber' = Obsolete(fiber, s)
  BY DEF ForegroundSync
<1>2. /\ [entry[s] EXCEPT !.failed = FALSE] \in Rememberings
      /\ SameRuntime(entry[s], [entry[s] EXCEPT !.failed = FALSE])
  BY <1>0, Noted
<1>3. /\ entry' \in [Spaces -> Rememberings]
      /\ \A t \in Spaces : SameRuntime(entry[t], entry'[t])
  BY <1>0, <1>1, <1>2, EntryNoted
<1>4. FibersInv(fiber') /\ Calm(fiber, fiber')
  BY <1>0, <1>1, ObsoleteFibers
<1>5. BookInv'
  BY DEF ForegroundSync, ResidencyInv, BookInv, boundVars
<1>6. /\ live' = live /\ residents' = residents /\ foregroundAdmitted' = foregroundAdmitted
  BY DEF ForegroundSync, slotVars
<1> QED BY <1>3, <1>4, <1>5, <1>6, QuietStep

LEMMA InterruptStep ==
  ASSUME ResidencyInv, NEW c \in Callers, Interrupt(c)
  PROVE  ResidencyInv'
<1> DEFINE r == fiber[c]
           q == [r EXCEPT !.then = "idle"]
<1>0. FibersInv(fiber) /\ entry \in [Spaces -> Rememberings] /\ c \in Fibers
  BY SpaceEntriesAre DEF ResidencyInv, Fibers
<1>1. /\ r.pc \in WaitPoints /\ r.call \in {"use", "deactivate"}
      /\ fiber' = [fiber EXCEPT ![c] = Failing(q, "interrupted")]
  BY DEF Interrupt, WaitPoints
<1>2. r \in FiberStates /\ r.space \in Spaces /\ r.target = r.space
  BY <1>0, <1>1, FiberRight DEF WaitPoints
<1>3. q \in FiberStates /\ q.call = r.call /\ q.space = r.space /\ q.target = r.target
  BY <1>2 DEF FiberStates
<1> HIDE DEF q
<1>4. /\ Rightly(c, Failing(q, "interrupted"))
      /\ Failing(q, "interrupted").pc \notin EngagedPoints \cup WaitPoints
  <2>1. /\ c \in Callers => q.call # "turn"
        /\ c \in Workers => q.call = "turn"
    BY <1>1, <1>3, CapacityAssumption
  <2> QED BY <1>0, <1>1, <1>2, <1>3, <2>1, FailingRight DEF Outcomes
<1>5. r.pc \notin EngagedPoints
  BY <1>1 DEF WaitPoints, EngagedPoints
<1>6. FibersInv(fiber') /\ Calm(fiber, fiber')
  BY <1>0, <1>1, <1>4, <1>5, LooseMove
<1>7. /\ live' = live /\ residents' = residents /\ foregroundAdmitted' = foregroundAdmitted
      /\ BookInv' /\ entry' = entry
  BY DEF Interrupt, Disturb, ResidencyInv, BookInv, storeVars, slotVars, workVars
<1> QED BY <1>0, <1>6, <1>7, SameEntries, QuietStep

(***************************************************************************)
(* Steps of one fiber at its space.                                        *)
(***************************************************************************)
LEMMA GotoMoves ==
  ASSUME FibersInv(fiber), NEW f \in Fibers, NEW p \in Points, fiber[f].pc # "idle",
         p \notin WaitPoints, p # "idle", Suits(p, fiber[f].call),
         fiber[f].target = fiber[f].space \/ (p \in {"close", "count"} /\ fiber[f].call = "use")
  PROVE  /\ FibersInv(Goto(f, p)) /\ Apart(f, fiber, Goto(f, p))
         /\ Goto(f, p)[f].pc = p /\ Goto(f, p)[f].call = fiber[f].call
         /\ Goto(f, p)[f].space = fiber[f].space /\ Goto(f, p)[f].target = fiber[f].target
<1>1. Rightly(f, fiber[f])
  BY FiberRight
<1> DEFINE q == Placed(fiber[f], p)
<1>2. /\ Rightly(f, q) /\ q.pc = p /\ q.call = fiber[f].call
      /\ q.space = fiber[f].space /\ q.target = fiber[f].target
  BY <1>1, PlacedRight
<1>3. Goto(f, p) = [fiber EXCEPT ![f] = q]
  BY GotoPlaces
<1> HIDE DEF q
<1>4. /\ FibersInv([fiber EXCEPT ![f] = q]) /\ [fiber EXCEPT ![f] = q][f] = q
      /\ Apart(f, fiber, [fiber EXCEPT ![f] = q])
  BY <1>2, ReplacedRight
<1> QED BY <1>2, <1>3, <1>4

LEMMA AwaitMoves ==
  ASSUME FibersInv(fiber), NEW f \in Fibers, NEW p \in WaitPoints, NEW n,
         fiber[f].pc # "idle", fiber[f].target = fiber[f].space,
         \/ fiber[f].call = "use" /\ n \in {"enter", "capacity"}
         \/ fiber[f].call \in {"deactivate", "leave"} /\ n = "deactivate"
         \/ fiber[f].call = "turn" /\ n = "enter",
         p = "awaitTransition" => n # "capacity"
  PROVE  /\ FibersInv(Await(f, p, n)) /\ Apart(f, fiber, Await(f, p, n))
         /\ Await(f, p, n)[f].pc = p /\ Await(f, p, n)[f].then = n
         /\ Await(f, p, n)[f].space = fiber[f].space
<1>1. Rightly(f, fiber[f])
  BY FiberRight
<1> DEFINE q == WaitingAt(fiber[f], p, n)
<1>2. Rightly(f, q) /\ q.pc = p /\ q.space = fiber[f].space /\ q.then = n
  BY <1>1, WaitingRight
<1>3. Await(f, p, n) = [fiber EXCEPT ![f] = q]
  BY GotoPlaces
<1> HIDE DEF q
<1>4. /\ FibersInv([fiber EXCEPT ![f] = q]) /\ [fiber EXCEPT ![f] = q][f] = q
      /\ Apart(f, fiber, [fiber EXCEPT ![f] = q])
  BY <1>2, ReplacedRight
<1> QED BY <1>2, <1>3, <1>4

LEMMA DoneMoves ==
  ASSUME FibersInv(fiber), NEW f \in Fibers
  PROVE  /\ FibersInv(Done(f)) /\ Apart(f, fiber, Done(f)) /\ Done(f)[f].pc = "idle"
         /\ Loose(Done(f)[f])
<1>1. /\ FibersInv([fiber EXCEPT ![f] = IdleFiber]) /\ [fiber EXCEPT ![f] = IdleFiber][f] = IdleFiber
      /\ Apart(f, fiber, [fiber EXCEPT ![f] = IdleFiber])
  BY IdleRight, ReplacedRight
<1> QED BY <1>1, IdleRight DEF Done, Loose, EngagedPoints

\* A step that changes who is at the space s, and awaits nothing.
LEMMA StirringStep ==
  ASSUME ResidencyInv, NEW f \in Fibers, NEW s \in Spaces,
         FibersInv(fiber'), Apart(f, fiber, fiber'), fiber'[f].pc \notin WaitPoints,
         Loose(fiber[f]) \/ AtSpace(fiber[f], s), Loose(fiber'[f]) \/ AtSpace(fiber'[f], s),
         entry' \in [Spaces -> Rememberings], \A t \in Spaces : SameRuntime(entry[t], entry'[t]),
         live' \in [Spaces -> Scopes], \A t \in Spaces : t # s => live'[t] = live[t],
         PermitsInv(live'), residents' = residents, foregroundAdmitted' = foregroundAdmitted,
         SpaceInv(entry'[s], live'[s], foregroundAdmitted, fiber', s), BookInv'
  PROVE  ResidencyInv'
<1>1. SpacesInv(entry', live', foregroundAdmitted, fiber')
  BY StepAtSpace DEF ResidencyInv
<1>2. AwaitsInv(entry', foregroundAdmitted, fiber')
  <2>1. foregroundAdmitted \subseteq Spaces
    BY DEF ResidencyInv, ResidentsInv
  <2>2. \A g \in Fibers : fiber'[g].pc \in WaitPoints => Alike(fiber[g], fiber'[g])
    BY DEF Apart
  <2>3. FibersInv(fiber) /\ AwaitsInv(entry, foregroundAdmitted, fiber)
    BY DEF ResidencyInv
  <2> QED BY <2>1, <2>2, <2>3, SameAwaits
<1> QED BY <1>1, <1>2 DEF ResidencyInv

LEMMA FewerPermits ==
  ASSUME NEW l, NEW l2, PermitsInv(l), InBackground(l2) \subseteq InBackground(l)
  PROVE  PermitsInv(l2)
<1>1. /\ IsFiniteSet(InBackground(l2))
      /\ Cardinality(InBackground(l2)) <= Cardinality(InBackground(l))
  BY FS_Subset DEF PermitsInv
<1>2. Cardinality(InBackground(l)) \in Nat /\ Cardinality(InBackground(l2)) \in Nat
  BY <1>1, FS_CardinalityType DEF PermitsInv
<1> QED BY <1>1, <1>2, CapacityAssumption DEF PermitsInv

LEMMA ReadStep ==
  ASSUME ResidencyInv, NEW c \in Callers, Read(c)
  PROVE  ResidencyInv'
<1> DEFINE s == fiber[c].space
<1>0. FibersInv(fiber) /\ c \in Fibers
  BY DEF ResidencyInv, Fibers
<1>1. Reads(fiber[c], s) /\ s \in Spaces
  BY <1>0, FiberRight DEF Read, Reads
<1>2. /\ fiber' = Done(c) /\ entry' = entry /\ live' = live /\ residents' = residents
      /\ foregroundAdmitted' = foregroundAdmitted
  BY DEF Read, storeVars, slotVars
<1>3. BookInv'
  BY DEF Read, ResidencyInv, BookInv, storeVars, workVars, boundVars
<1>4. /\ FibersInv(fiber') /\ Apart(c, fiber, fiber') /\ fiber'[c].pc = "idle"
      /\ Loose(fiber'[c])
  BY <1>0, <1>2, DoneMoves
<1>5. SameRuntime(entry[s], entry[s]) /\ \A t \in Spaces : SameRuntime(entry[t], entry'[t])
  BY <1>2 DEF SameRuntime
<1>6. SpaceInv(entry[s], live[s], foregroundAdmitted, fiber', s)
  <2>1. SpaceInv(entry[s], live[s], foregroundAdmitted, fiber, s)
    BY <1>1, SpaceEntriesAre
  <2> QED BY <1>0, <1>1, <1>4, <1>5, <2>1, ReadEnded
<1>7. AtSpace(fiber[c], s)
  BY <1>1 DEF AtSpace
<1>8. fiber'[c].pc \notin WaitPoints
  BY <1>4 DEF WaitPoints
<1>9. PermitsInv(live') /\ live' \in [Spaces -> Scopes] /\ entry' \in [Spaces -> Rememberings]
  BY <1>2, SpaceEntriesAre DEF ResidencyInv
<1> HIDE DEF s
<1>10. /\ \A t \in Spaces : t # s => live'[t] = live[t]
       /\ SpaceInv(entry'[s], live'[s], foregroundAdmitted, fiber', s)
  BY <1>2, <1>6
<1> QED BY <1>0, <1>1, <1>2, <1>3, <1>4, <1>5, <1>7, <1>8, <1>9, <1>10, StirringStep

LEMMA RetireStep ==
  ASSUME ResidencyInv, NEW c \in Callers, Retire(c)
  PROVE  ResidencyInv'
<1> DEFINE s == fiber[c].space
<1>0. FibersInv(fiber) /\ c \in Fibers
  BY DEF ResidencyInv, Fibers
<1>1. /\ Opens(fiber[c], s) /\ s \in Spaces /\ fiber[c].pc = "retire"
      /\ fiber[c].call = "use" /\ fiber[c].target = fiber[c].space
  BY <1>0, FiberRight DEF Retire, Opens, Rightly, RightPlace
<1>2. /\ fiber' = Goto(c, "open") /\ entry' = entry /\ residents' = residents
      /\ live' = [live EXCEPT ![s] = "none"] /\ foregroundAdmitted' = foregroundAdmitted
  BY DEF Retire, slotVars
<1>3. BookInv'
  BY DEF Retire, ResidencyInv, BookInv, workVars, boundVars
<1>4. /\ FibersInv(fiber') /\ Apart(c, fiber, fiber') /\ fiber'[c].pc = "open"
      /\ fiber'[c].space = s
  BY <1>0, <1>1, <1>2, GotoMoves DEF Points, WaitPoints, Suits
<1>5. SameRuntime(entry[s], entry[s]) /\ \A t \in Spaces : SameRuntime(entry[t], entry'[t])
  BY <1>2 DEF SameRuntime
<1>6. Opens(fiber'[c], s)
  BY <1>4 DEF Opens
<1>7. \A g \in Fibers : ~Reads(fiber[g], s)
  <2>1. \A g \in Fibers : fiber[g].pc = "read" => g \in Callers
    BY <1>0, FiberRight, IsCaller DEF Rightly, RightPlace
  <2> QED BY <2>1 DEF Retire, Unused, Reads
<1>8. live' \in [Spaces -> Scopes] /\ live'[s] = "none" /\ \A t \in Spaces : t # s => live'[t] = live[t]
  BY <1>1, <1>2, SpaceEntriesAre DEF Scopes
<1>9. SpaceInv(entry[s], live'[s], foregroundAdmitted, fiber', s)
  <2>1. SpaceInv(entry[s], live[s], foregroundAdmitted, fiber, s)
    BY <1>1, SpaceEntriesAre
  <2> QED BY <1>0, <1>1, <1>4, <1>5, <1>6, <1>7, <1>8, <2>1, RuntimeRetired
<1>10. AtSpace(fiber[c], s) /\ AtSpace(fiber'[c], s)
  BY <1>1, <1>6 DEF AtSpace, Moves
<1>11. fiber'[c].pc \notin WaitPoints
  BY <1>4 DEF WaitPoints
<1>12. PermitsInv(live') /\ entry' \in [Spaces -> Rememberings]
  <2>1. InBackground(live') \subseteq InBackground(live)
    BY <1>8 DEF InBackground
  <2>2. PermitsInv(live)
    BY DEF ResidencyInv
  <2> QED BY <1>2, <2>1, <2>2, FewerPermits, SpaceEntriesAre
<1> HIDE DEF s
<1>13. SpaceInv(entry'[s], live'[s], foregroundAdmitted, fiber', s)
  BY <1>2, <1>9
<1> QED BY <1>0, <1>1, <1>2, <1>3, <1>4, <1>5, <1>8, <1>10, <1>11, <1>12, <1>13, StirringStep

LEMMA OpenScopeStep ==
  ASSUME ResidencyInv, NEW f \in Fibers, OpenScope(f)
  PROVE  ResidencyInv'
<1> DEFINE s == fiber[f].space
           kind == IF f \in Callers THEN "foreground" ELSE "background"
<1>0. FibersInv(fiber)
  BY DEF ResidencyInv
<1>1. /\ Opens(fiber[f], s) /\ s \in Spaces /\ fiber[f].pc = "open"
      /\ fiber[f].call \in {"use", "turn"} /\ fiber[f].target = fiber[f].space
  BY <1>0, FiberRight DEF OpenScope, Opens, Rightly, RightPlace
<1>2. /\ fiber' = Goto(f, "build") /\ entry' = entry /\ residents' = residents
      /\ live' = [live EXCEPT ![s] = kind] /\ foregroundAdmitted' = foregroundAdmitted
  BY DEF OpenScope, slotVars, Foreground
<1>3. BookInv'
  BY DEF OpenScope, ResidencyInv, BookInv, workVars, boundVars
<1>4. /\ FibersInv(fiber') /\ Apart(f, fiber, fiber') /\ fiber'[f].pc = "build"
      /\ fiber'[f].space = s
  BY <1>0, <1>1, <1>2, GotoMoves DEF Points, WaitPoints, Suits
<1>5. SameRuntime(entry[s], entry[s]) /\ \A t \in Spaces : SameRuntime(entry[t], entry'[t])
  BY <1>2 DEF SameRuntime
<1>6. Opens(fiber'[f], s)
  BY <1>4 DEF Opens
<1>7. /\ live' \in [Spaces -> Scopes] /\ live'[s] = kind
      /\ \A t \in Spaces : t # s => live'[t] = live[t]
  BY <1>1, <1>2, SpaceEntriesAre DEF Scopes
<1>8. SpaceInv(entry[s], live[s], foregroundAdmitted, fiber, s)
  BY <1>1, SpaceEntriesAre
<1>9. SpaceInv(entry[s], live'[s], foregroundAdmitted, fiber', s)
  BY <1>0, <1>1, <1>4, <1>5, <1>6, <1>7, <1>8, ScopeOpened
<1>10. AtSpace(fiber[f], s) /\ AtSpace(fiber'[f], s)
  BY <1>1, <1>6 DEF AtSpace, Moves
<1>11. fiber'[f].pc \notin WaitPoints
  BY <1>4 DEF WaitPoints
<1>12. PermitsInv(live')
  <2>0. PermitsInv(live) /\ live[s] = "none"
    BY <1>1, <1>8 DEF ResidencyInv, SpaceInv, ScopeInv
  <2>1. CASE f \in Callers
    <3>1. InBackground(live') \subseteq InBackground(live)
      BY <1>7, <2>1 DEF InBackground
    <3> QED BY <2>0, <3>1, FewerPermits
  <2>2. CASE f \notin Callers
    <3>1. InBackground(live') = InBackground(live) \cup {s} /\ s \notin InBackground(live)
      BY <1>1, <1>7, <2>0, <2>2 DEF InBackground
    <3>2. /\ IsFiniteSet(InBackground(live) \cup {s})
          /\ Cardinality(InBackground(live) \cup {s}) = Cardinality(InBackground(live)) + 1
      BY <2>0, <3>1, FS_AddElement DEF PermitsInv
    <3>3. BackgroundSlots - Cardinality(InBackground(live)) > 0
      BY <2>2 DEF OpenScope, Foreground, Permits, InBackground
    <3>4. Cardinality(InBackground(live)) \in Nat
      BY <2>0, FS_CardinalityType DEF PermitsInv
    <3> QED BY <3>1, <3>2, <3>3, <3>4, CapacityAssumption DEF PermitsInv
  <2> QED BY <2>1, <2>2
<1> HIDE DEF s
<1>13. SpaceInv(entry'[s], live'[s], foregroundAdmitted, fiber', s) /\ entry' \in [Spaces -> Rememberings]
  BY <1>2, <1>9, SpaceEntriesAre
<1> QED BY <1>0, <1>1, <1>2, <1>3, <1>4, <1>5, <1>7, <1>10, <1>11, <1>12, <1>13, StirringStep

\* A call begins, at the point p.
Beginning(call, p, s) == [IdleFiber EXCEPT !.call = call, !.pc = p, !.space = s, !.target = s]

LEMMA BeginningRight ==
  ASSUME NEW c \in Callers, NEW s \in Spaces, NEW call, NEW p,
         \/ call = "use" /\ p = "enter"
         \/ call = "read" /\ p = "read"
         \/ call \in {"deactivate", "leave"} /\ p = "deactivate"
  PROVE  /\ Rightly(c, Beginning(call, p, s)) /\ Beginning(call, p, s).pc = p
         /\ Beginning(call, p, s).space = s
<1> DEFINE q == Beginning(call, p, s)
<1>1. call \in Commands \ {"turn", "none"} /\ p \in Points
  BY DEF Commands, Points
<1>2. /\ q \in FiberStates /\ q.pc = p /\ q.call = call /\ q.space = s /\ q.target = s
  BY <1>1 DEF Beginning, IdleFiber, FiberStates, Points, Outcomes
<1> HIDE DEF q
<1>3. RightPlace(q) /\ RightWait(q)
  BY <1>2 DEF RightPlace, RightWait, WaitPoints
<1>4. c \notin Workers
  BY CapacityAssumption
<1> QED BY <1>1, <1>2, <1>3, <1>4 DEF Rightly, q

LEMMA CallStep ==
  ASSUME ResidencyInv, NEW c \in Callers, Call(c)
  PROVE  ResidencyInv'
<1>0. /\ FibersInv(fiber) /\ c \in Fibers /\ fiber[c] = IdleFiber /\ Loose(fiber[c])
      /\ fiber[c].pc \notin EngagedPoints
  BY IdleRight DEF ResidencyInv, Fibers, Call, Loose, EngagedPoints
<1>1. /\ live' = live /\ residents' = residents /\ foregroundAdmitted' = foregroundAdmitted
  BY DEF Call, storeVars, slotVars
<1>2. BookInv'
  BY DEF Call, ResidencyInv, BookInv, storeVars, workVars
<1>3. PICK s \in Spaces, kind \in Kinds :
        \/ /\ fiber' = [fiber EXCEPT ![c] = Beginning("use", "enter", s)] /\ entry' = entry
        \/ /\ Active(s) /\ fiber' = [fiber EXCEPT ![c] = Beginning("read", "read", s)]
           /\ entry' = entry
        \/ /\ fiber' = [fiber EXCEPT ![c] = Beginning("deactivate", "deactivate", s)]
           /\ entry' = entry
        \/ /\ fiber' = [fiber EXCEPT ![c] = Beginning("leave", "deactivate", s)]
           /\ entry' = [entry EXCEPT ![s] = [entry[s] EXCEPT !.leaving = TRUE]]
  BY DEF Call, Beginning
<1>4. /\ entry' \in [Spaces -> Rememberings]
      /\ \A t \in Spaces : SameRuntime(entry[t], entry'[t])
  <2>1. CASE entry' = entry
    BY <2>1, SpaceEntriesAre, SameEntries
  <2>2. CASE entry' = [entry EXCEPT ![s] = [entry[s] EXCEPT !.leaving = TRUE]]
    <3>1. /\ [entry[s] EXCEPT !.leaving = TRUE] \in Rememberings
          /\ SameRuntime(entry[s], [entry[s] EXCEPT !.leaving = TRUE])
      BY SpaceEntriesAre, Noted
    <3> QED BY <2>2, <3>1, SpaceEntriesAre, EntryNoted
  <2> QED BY <1>3, <2>1, <2>2
<1>5. ASSUME NEW call, NEW p, fiber' = [fiber EXCEPT ![c] = Beginning(call, p, s)],
             \/ call = "use" /\ p = "enter"
             \/ call \in {"deactivate", "leave"} /\ p = "deactivate"
      PROVE  ResidencyInv'
  <2> DEFINE q == Beginning(call, p, s)
  <2>1. Rightly(c, q) /\ q.pc = p
    BY <1>5, BeginningRight
  <2>2. q.pc \notin EngagedPoints \cup WaitPoints
    BY <1>5, <2>1 DEF EngagedPoints, WaitPoints
  <2> HIDE DEF q
  <2>3. FibersInv([fiber EXCEPT ![c] = q]) /\ Calm(fiber, [fiber EXCEPT ![c] = q])
    BY <1>0, <2>1, <2>2, LooseMove
  <2>4. FibersInv(fiber') /\ Calm(fiber, fiber')
    BY <1>5, <2>3 DEF q
  <2> QED BY <1>1, <1>2, <1>4, <2>4, QuietStep
<1>6. CASE Active(s) /\ fiber' = [fiber EXCEPT ![c] = Beginning("read", "read", s)]
  <2> DEFINE q == Beginning("read", "read", s)
  <2>1. Rightly(c, q) /\ q.pc = "read" /\ q.space = s
    BY BeginningRight
  <2> HIDE DEF q
  <2>2. /\ FibersInv([fiber EXCEPT ![c] = q]) /\ [fiber EXCEPT ![c] = q][c] = q
        /\ Apart(c, fiber, [fiber EXCEPT ![c] = q])
    BY <1>0, <2>1, ReplacedRight
  <2>3. FibersInv(fiber') /\ fiber'[c] = q /\ Apart(c, fiber, fiber')
    BY <1>6, <2>2 DEF q
  <2>4. Reads(fiber'[c], s) /\ fiber'[c].pc \notin WaitPoints /\ AtSpace(fiber'[c], s)
    BY <2>1, <2>3 DEF Reads, WaitPoints, AtSpace
  <2>5. SpaceInv(entry'[s], live[s], foregroundAdmitted, fiber', s)
    <3>1. SpaceInv(entry[s], live[s], foregroundAdmitted, fiber, s)
      BY SpaceEntriesAre
    <3>2. entry[s].activation = "Active" /\ SameRuntime(entry[s], entry'[s])
      BY <1>4, <1>6 DEF Active
    <3> QED BY <1>0, <2>3, <2>4, <3>1, <3>2, ReadBegun
  <2>6. PermitsInv(live') /\ live' \in [Spaces -> Scopes] /\ \A t \in Spaces : t # s => live'[t] = live[t]
    BY <1>1, SpaceEntriesAre DEF ResidencyInv
  <2>7. SpaceInv(entry'[s], live'[s], foregroundAdmitted, fiber', s)
    BY <1>1, <2>5
  <2> QED BY <1>0, <1>1, <1>2, <1>4, <2>3, <2>4, <2>6, <2>7, StirringStep
<1> QED BY <1>3, <1>5, <1>6

(***************************************************************************)
(* Steps that signal capacity or settle a transition.                      *)
(***************************************************************************)
LEMMA CalmKeepsNoneAt ==
  ASSUME NEW fs, NEW gs, NEW s, Calm(fs, gs),
         \A g \in Fibers : fs[g].pc = "awaitTransition" => fs[g].space # s
  PROVE  \A g \in Fibers : gs[g].pc = "awaitTransition" => gs[g].space # s
BY DEF Calm, Alike, WaitPoints

LEMMA SettledFibers ==
  ASSUME NEW fs, FibersInv(fs), NEW s \in Spaces, NEW kind \in Outcomes
  PROVE  LET gs == Completed(Signalled(fs), s, kind)
         IN /\ FibersInv(gs) /\ Calm(fs, gs) /\ NoneAwaits(gs)
            /\ \A g \in Fibers : gs[g].pc = "awaitTransition" => gs[g].space # s
<1>1. FibersInv(Signalled(fs)) /\ Calm(fs, Signalled(fs)) /\ NoneAwaits(Signalled(fs))
  BY SignalledFibers
<1> DEFINE hs == Signalled(fs)
           gs == Completed(hs, s, kind)
<1> HIDE DEF hs
<1>2. /\ FibersInv(gs) /\ Calm(hs, gs)
      /\ \A g \in Fibers : gs[g].pc = "awaitTransition" => gs[g].space # s
  BY <1>1, CompletedFibers DEF hs
<1> HIDE DEF gs
<1>3. Calm(fs, gs) /\ NoneAwaits(gs)
  BY <1>1, <1>2, CalmIsTransitive, CalmKeepsNoneAwaiting DEF hs
<1> QED BY <1>2, <1>3 DEF gs, hs

LEMMA WokenStep ==
  ASSUME ResidencyInv, NEW f \in Fibers, NEW s \in Spaces, NEW fs, NEW e,
         FibersInv(fs), Apart(f, fiber, fs), fs[f].pc \notin WaitPoints,
         Loose(fiber[f]) \/ AtSpace(fiber[f], s), Loose(fs[f]) \/ AtSpace(fs[f], s),
         e \in [Spaces -> Rememberings], \A t \in Spaces : t # s => SameRuntime(entry[t], e[t]),
         SpaceInv(e[s], live'[s], foregroundAdmitted', fs, s),
         \/ Moving(e[s]) \/ ~Moving(entry[s])
         \/ \A g \in Fibers : fiber'[g].pc = "awaitTransition" => fiber'[g].space # s,
         FibersInv(fiber'), Calm(fs, fiber'), NoneAwaits(fiber'),
         entry' \in [Spaces -> Rememberings], \A t \in Spaces : SameRuntime(e[t], entry'[t]),
         live' \in [Spaces -> Scopes], PermitsInv(live'), ResidentsInv(residents', foregroundAdmitted'),
         \A t \in Spaces : t # s =>
           live'[t] = live[t] /\ (t \in foregroundAdmitted => t \in foregroundAdmitted'),
         BookInv'
  PROVE  ResidencyInv'
<1>1. SpacesInv(e, live', foregroundAdmitted', fs)
  BY StepAtSpace DEF ResidencyInv
<1>2. SpacesInv(entry', live', foregroundAdmitted', fiber')
  BY <1>1, CalmSpaces
<1>3. AwaitsInv(entry', foregroundAdmitted', fiber')
  <2>1. fiber'[f].pc \notin WaitPoints
    BY DEF Calm, Alike
  <2>2. \A g \in Fibers : g # f /\ fiber'[g].pc \in WaitPoints => Alike(fiber[g], fiber'[g])
    BY DEF Calm, Apart, Alike
  <2>3. \A t \in Spaces : t # s => SameRuntime(entry[t], entry'[t])
    BY DEF SameRuntime
  <2>4. \/ Moving(entry'[s]) \/ ~Moving(entry[s])
        \/ \A g \in Fibers : fiber'[g].pc = "awaitTransition" => fiber'[g].space # s
    BY DEF SameRuntime, Moving
  <2>5. AwaitsInv(entry, foregroundAdmitted, fiber)
    BY DEF ResidencyInv
  <2> QED BY <2>1, <2>2, <2>3, <2>4, <2>5, SignalledAwaits
<1> QED BY <1>2, <1>3 DEF ResidencyInv

LEMMA BuiltStep ==
  ASSUME ResidencyInv, NEW f \in Fibers, Built(f)
  PROVE  ResidencyInv'
<1> DEFINE s == fiber[f].space
           r == fiber[f]
           q == [r EXCEPT !.pc = "built", !.retired = FALSE]
           fs == [fiber EXCEPT ![f] = q]
           after == Completed(Signalled(fs), s, "ok")
           x == [entry[s] EXCEPT !.runtime = live[s], !.activation = "Active"]
<1>0. FibersInv(fiber) /\ entry \in [Spaces -> Rememberings]
  BY SpaceEntriesAre DEF ResidencyInv
<1>1. /\ Opens(fiber[f], s) /\ s \in Spaces /\ fiber[f].pc = "build"
      /\ Rightly(f, r) /\ r.call \in {"use", "turn"} /\ r.target = r.space
  BY <1>0, FiberRight DEF Built, Opens, Rightly, RightPlace
<1>2. Rightly(f, q) /\ q.pc = "built"
  <2>1. r \in FiberStates
    BY <1>1 DEF Rightly
  <2>2. /\ q \in FiberStates /\ q.pc = "built" /\ q.call = r.call /\ q.space = r.space
        /\ q.target = r.target /\ q.then = r.then
    BY <2>1 DEF FiberStates, Points
  <2> HIDE DEF q
  <2>3. RightPlace(q) /\ RightWait(q)
    BY <1>1, <2>2 DEF Rightly, RightPlace, RightWait, WaitPoints
  <2> QED BY <1>1, <2>2, <2>3 DEF Rightly
<1> HIDE DEF q
<1>3. FibersInv(fs) /\ fs[f] = q /\ Apart(f, fiber, fs)
  BY <1>0, <1>2, ReplacedRight
<1>4. Loose(fs[f]) /\ fs[f].pc \notin WaitPoints
  BY <1>2, <1>3 DEF Loose, EngagedPoints, WaitPoints
<1>5. /\ entry' = [entry EXCEPT ![s] = x] /\ live' = live /\ residents' = residents
      /\ foregroundAdmitted' = foregroundAdmitted
      /\ fiber' = after \/ fiber' = Obsolete(after, s)
  <2>1. fs = [fiber EXCEPT ![f].pc = "built", ![f].retired = FALSE]
    BY DEF q
  <2>2. x = [entry[s] EXCEPT !.runtime = live[s], !.activation = "Active"]
    OBVIOUS
  <2>3. entry' = [entry EXCEPT ![s] = x]
    BY <1>0, <1>1 DEF Built
  <2> QED BY <2>1, <2>3 DEF Built, storeVars, slotVars
<1>6. BookInv'
  BY DEF Built, ResidencyInv, BookInv, storeVars, boundVars
<1>7. /\ FibersInv(after) /\ Calm(fs, after) /\ NoneAwaits(after)
      /\ \A g \in Fibers : after[g].pc = "awaitTransition" => after[g].space # s
  <2> HIDE DEF fs, s
  <2> QED BY <1>1, <1>3, SettledFibers DEF Outcomes
<1> HIDE DEF after, fs
<1>8. /\ FibersInv(fiber') /\ Calm(fs, fiber') /\ NoneAwaits(fiber')
      /\ \A g \in Fibers : fiber'[g].pc = "awaitTransition" => fiber'[g].space # s
  <2>1. CASE fiber' = after
    BY <1>7, <2>1
  <2>2. CASE fiber' = Obsolete(after, s)
    <3>1. FibersInv(fiber') /\ Calm(after, fiber')
      BY <1>1, <1>7, <2>2, ObsoleteFibers
    <3> QED BY <1>7, <3>1, CalmIsTransitive, CalmKeepsNoneAwaiting, CalmKeepsNoneAt
  <2> QED BY <1>5, <2>1, <2>2
<1>9. SpaceInv(entry[s], live[s], foregroundAdmitted, fiber, s) /\ live[s] \in Scopes
  BY <1>1, SpaceEntriesAre
<1>10. /\ x \in Rememberings /\ x.leases = entry[s].leases
       /\ x.activation = "Active" /\ x.runtime = live[s]
  <2>1. entry[s] \in Rememberings /\ live[s] \in Scopes
    BY <1>0, <1>1, <1>9
  <2> HIDE DEF s
  <2> QED BY ONLY <2>1 DEF Rememberings, Scopes, x
<1> HIDE DEF x
<1>11. SpaceInv(x, live[s], foregroundAdmitted, fs, s)
  BY <1>1, <1>3, <1>4, <1>9, <1>10, RuntimeBuilt
<1>12. /\ entry' \in [Spaces -> Rememberings] /\ entry'[s] = x
       /\ \A t \in Spaces : t # s => SameRuntime(entry[t], entry'[t])
  BY <1>0, <1>1, <1>5, <1>10 DEF SameRuntime
<1>13. \A t \in Spaces : SameRuntime(entry'[t], entry'[t])
  BY DEF SameRuntime
<1>14. AtSpace(fiber[f], s)
  BY <1>1 DEF AtSpace, Moves
<1>15. /\ live' \in [Spaces -> Scopes] /\ PermitsInv(live')
       /\ ResidentsInv(residents', foregroundAdmitted')
       /\ \A t \in Spaces : t # s =>
            live'[t] = live[t] /\ (t \in foregroundAdmitted => t \in foregroundAdmitted')
       /\ SpaceInv(entry'[s], live'[s], foregroundAdmitted', fs, s)
  BY <1>5, <1>11, <1>12, SpaceEntriesAre DEF ResidencyInv
<1> HIDE DEF s
<1> QED BY <1>1, <1>3, <1>4, <1>6, <1>8, <1>12, <1>13, <1>14, <1>15, WokenStep

LEMMA BuildFailsStep ==
  ASSUME ResidencyInv, NEW f \in Fibers, BuildFails(f)
  PROVE  ResidencyInv'
<1> DEFINE s == fiber[f].space
           r == fiber[f]
           x == [entry[s] EXCEPT !.activation = "Inactive", !.foreground = FALSE]
           e == [entry EXCEPT ![s] = x]
           condition == fiber[f].retired
           with(kind) == [fiber EXCEPT ![f] = Failing(r, kind)]
           failed(kind) == Completed(Signalled(with(kind)), s,
                                     IF kind = "interrupted" THEN "ok" ELSE kind)
<1>0. FibersInv(fiber) /\ entry \in [Spaces -> Rememberings]
  BY SpaceEntriesAre DEF ResidencyInv
<1>1. /\ Opens(fiber[f], s) /\ s \in Spaces /\ fiber[f].pc = "build"
      /\ r \in FiberStates /\ r.call \in {"use", "turn"} /\ r.target = r.space
  BY <1>0, FiberRight DEF BuildFails, Opens, Rightly, RightPlace
<1>2. PICK kind \in {"transient", "terminal", "interrupted"} :
        EnqueueIf(condition, s, e, failed(kind))
  <2>1. e = [entry EXCEPT ![s].activation = "Inactive", ![s].foreground = FALSE]
    BY <1>0, <1>1
  <2> QED BY <2>1 DEF BuildFails
<1> DEFINE q == Failing(r, kind)
           fs == [fiber EXCEPT ![f] = q]
           outcome == IF kind = "interrupted" THEN "ok" ELSE kind
           after == Completed(Signalled(fs), s, outcome)
<1>3. Rightly(f, q) /\ q.pc \notin EngagedPoints \cup WaitPoints
  <2>1. /\ f \in Callers => r.call # "turn"
        /\ f \in Workers => r.call = "turn"
    BY <1>0, <1>1, IsCaller
  <2>2. kind \in Outcomes /\ r.call \in {"use", "deactivate", "leave", "turn"}
    BY <1>1 DEF Outcomes
  <2> HIDE DEF q
  <2> QED BY <1>1, <2>1, <2>2, FailingRight DEF q
<1> HIDE DEF q
<1>4. FibersInv(fs) /\ fs[f] = q /\ Apart(f, fiber, fs)
  BY <1>0, <1>3, ReplacedRight
<1>5. Loose(fs[f]) /\ fs[f].pc \notin WaitPoints
  BY <1>3, <1>4 DEF Loose
<1>6. /\ FibersInv(after) /\ Calm(fs, after) /\ NoneAwaits(after)
      /\ \A g \in Fibers : after[g].pc = "awaitTransition" => after[g].space # s
  <2>1. outcome \in Outcomes
    BY DEF Outcomes
  <2> HIDE DEF fs, s, outcome
  <2> QED BY <1>1, <1>4, <2>1, SettledFibers
<1>7. EnqueueIf(condition, s, e, after)
  BY <1>2 DEF q
<1> HIDE DEF after, fs, condition
<1>8. x \in Rememberings /\ x.leases = entry[s].leases /\ x.activation = "Inactive"
  BY <1>0, <1>1 DEF Rememberings
<1> HIDE DEF x
<1>9. /\ e \in [Spaces -> Rememberings] /\ e[s] = x
      /\ \A t \in Spaces : t # s => SameRuntime(entry[t], e[t])
  BY <1>0, <1>1, <1>8 DEF SameRuntime
<1> HIDE DEF e
<1>10. queue \in Seq(Spaces) /\ retries \subseteq Spaces
  BY DEF ResidencyInv, BookInv
<1>11. /\ FibersInv(fiber') /\ Calm(after, fiber')
       /\ entry' \in [Spaces -> Rememberings] /\ \A t \in Spaces : SameRuntime(e[t], entry'[t])
       /\ queue' \in Seq(Spaces) /\ retries' \subseteq Spaces
  BY <1>1, <1>6, <1>7, <1>9, <1>10, Enqueued
<1>12. /\ Calm(fs, fiber') /\ NoneAwaits(fiber')
       /\ \A g \in Fibers : fiber'[g].pc = "awaitTransition" => fiber'[g].space # s
  <2> HIDE DEF s
  <2>1. Calm(fs, fiber')
    BY <1>6, <1>11, CalmIsTransitive
  <2>2. NoneAwaits(fiber')
    BY <1>6, <1>11, CalmKeepsNoneAwaiting
  <2>3. \A g \in Fibers : fiber'[g].pc = "awaitTransition" => fiber'[g].space # s
    <3>1. PICK hs : hs = fiber'
      OBVIOUS
    <3>2. Calm(after, hs)
      BY <1>11, <3>1
    <3>3. \A g \in Fibers : after[g].pc = "awaitTransition" => after[g].space # s
      BY <1>6
    <3>4. \A g \in Fibers : hs[g].pc = "awaitTransition" => hs[g].space # s
      BY ONLY <3>2, <3>3, CalmKeepsNoneAt
    <3> QED BY <3>1, <3>4
  <2> QED BY <2>1, <2>2, <2>3
<1>13. /\ live' = [live EXCEPT ![s] = "none"] /\ residents' = RemoveFirst(residents, s)
       /\ foregroundAdmitted' = foregroundAdmitted \ {s}
  BY DEF BuildFails, DropReservation
<1>14. BookInv'
  <2>1. pending' = pending /\ waits' = waits /\ calls' \in Nat /\ disturbances' \in Nat
    BY DEF BuildFails, Disturb, boundVars, ResidencyInv, BookInv
  <2> QED BY <1>11, <2>1 DEF ResidencyInv, BookInv
<1>15. /\ live' \in [Spaces -> Scopes] /\ live'[s] = "none"
       /\ \A t \in Spaces : t # s =>
            live'[t] = live[t] /\ (t \in foregroundAdmitted => t \in foregroundAdmitted')
  BY <1>1, <1>13, SpaceEntriesAre DEF Scopes
<1>16. PermitsInv(live')
  <2>1. InBackground(live') \subseteq InBackground(live)
    BY <1>15 DEF InBackground
  <2> QED BY <2>1, FewerPermits DEF ResidencyInv
<1>17. ResidentsInv(residents', foregroundAdmitted')
  <2>1. ResidentsInv(residents, foregroundAdmitted)
    BY DEF ResidencyInv
  <2> QED BY <1>1, <1>13, <2>1, DroppedReservation
<1>18. SpaceInv(e[s], live'[s], foregroundAdmitted', fs, s)
  <2>1. SpaceInv(entry[s], live[s], foregroundAdmitted, fiber, s)
    BY <1>1, SpaceEntriesAre
  <2>2. e[s].leases = entry[s].leases /\ e[s].activation = "Inactive"
    BY <1>8, <1>9
  <2> QED BY <1>1, <1>4, <1>5, <1>15, <2>1, <2>2, RuntimeNotBuilt
<1>19. AtSpace(fiber[f], s)
  BY <1>1 DEF AtSpace, Moves
<1> HIDE DEF s
<1> QED BY <1>1, <1>4, <1>5, <1>9, <1>11, <1>12, <1>14, <1>15, <1>16, <1>17, <1>18, <1>19, WokenStep

LEMMA UseStep ==
  ASSUME ResidencyInv, NEW c \in Callers, Use(c)
  PROVE  ResidencyInv'
<1> DEFINE s == fiber[c].space
           fs == Done(c)
           x == [entry[s] EXCEPT !.leases = @ - 1]
<1>0. FibersInv(fiber) /\ entry \in [Spaces -> Rememberings] /\ c \in Fibers
  BY SpaceEntriesAre DEF ResidencyInv, Fibers
<1>1. fiber[c].pc = "use" /\ s \in Spaces /\ AtSpace(fiber[c], s)
  BY <1>0, FiberRight DEF Use, AtSpace
<1>2. FibersInv(fs) /\ Apart(c, fiber, fs) /\ fs[c].pc = "idle" /\ Loose(fs[c])
  BY <1>0, DoneMoves
<1>3. fs[c].pc \notin WaitPoints
  BY <1>2 DEF WaitPoints
<1>4. /\ entry' = [entry EXCEPT ![s] = x] /\ live' = live /\ residents' = residents
      /\ foregroundAdmitted' = foregroundAdmitted /\ fiber' = Signalled(fs)
  BY <1>0, <1>1 DEF Use, slotVars
<1> HIDE DEF fs
<1>5. FibersInv(fiber') /\ Calm(fs, fiber') /\ NoneAwaits(fiber')
  BY <1>2, <1>4, SignalledFibers
<1>6. BookInv'
  BY <1>1 DEF Use, ResidencyInv, BookInv, workVars, boundVars
<1>7. SpaceInv(entry[s], live[s], foregroundAdmitted, fiber, s)
  BY <1>1, SpaceEntriesAre
<1>8. /\ x \in Rememberings /\ x.leases = entry[s].leases - 1
      /\ x.activation = entry[s].activation /\ x.runtime = entry[s].runtime
  BY <1>0, <1>1 DEF Rememberings
<1> HIDE DEF x
<1>9. SpaceInv(x, live[s], foregroundAdmitted, fs, s)
  BY <1>0, <1>1, <1>2, <1>7, <1>8, LeaseGiven
<1>10. ~Moving(entry[s])
  <2>1. c \in Holders(fiber, s)
    BY <1>0, <1>1 DEF Holders
  <2> QED BY <1>7, <2>1 DEF SpaceInv, HolderInv, Moving
<1>11. /\ entry' \in [Spaces -> Rememberings] /\ entry'[s] = x
       /\ \A t \in Spaces : t # s => SameRuntime(entry[t], entry'[t])
       /\ \A t \in Spaces : SameRuntime(entry'[t], entry'[t])
  BY <1>0, <1>1, <1>4, <1>8 DEF SameRuntime
<1>12. /\ live' \in [Spaces -> Scopes] /\ PermitsInv(live')
       /\ ResidentsInv(residents', foregroundAdmitted')
       /\ \A t \in Spaces : t # s =>
            live'[t] = live[t] /\ (t \in foregroundAdmitted => t \in foregroundAdmitted')
       /\ SpaceInv(entry'[s], live'[s], foregroundAdmitted', fs, s)
  BY <1>4, <1>9, <1>11, SpaceEntriesAre DEF ResidencyInv
<1> HIDE DEF s
<1> QED BY <1>0, <1>1, <1>2, <1>3, <1>5, <1>6, <1>10, <1>11, <1>12, WokenStep

LEMMA CloseStep ==
  ASSUME ResidencyInv, NEW f \in Fibers, Close(f)
  PROVE  ResidencyInv'
<1> DEFINE v == fiber[f].target
           fs == Goto(f, "count")
           x == [entry[v] EXCEPT !.activation = "Inactive", !.runtime = "none",
                                 !.preempted = FALSE]
<1>0. FibersInv(fiber) /\ entry \in [Spaces -> Rememberings]
  BY SpaceEntriesAre DEF ResidencyInv
<1>1. /\ fiber[f].pc = "close" /\ v \in Spaces /\ Closes(fiber[f], v)
      /\ fiber[f].call \in {"use", "deactivate", "leave", "turn"}
      /\ fiber[f].target = fiber[f].space \/ fiber[f].call = "use"
  <2>1. PICK r : r = fiber[f] /\ Rightly(f, r) /\ r.pc = "close"
    BY <1>0, FiberRight DEF Close
  <2>2. /\ r.target \in Spaces /\ r.call \in {"use", "deactivate", "leave", "turn"}
        /\ r.target = r.space \/ r.call = "use"
    BY ONLY <2>1 DEF Rightly, RightPlace
  <2> QED BY <2>1, <2>2 DEF Closes
<1>2. FibersInv(fs) /\ Apart(f, fiber, fs) /\ fs[f].pc = "count"
  BY <1>0, <1>1, GotoMoves DEF Points, WaitPoints, Suits
<1>3. /\ entry' = [entry EXCEPT ![v] = x] /\ live' = [live EXCEPT ![v] = "none"]
      /\ residents' = residents /\ foregroundAdmitted' = foregroundAdmitted
      /\ fiber' = Completed(fs, v, "ok")
  <2>1. /\ entry' = [entry EXCEPT ![v].activation = "Inactive", ![v].runtime = "none",
                                  ![v].preempted = FALSE]
        /\ live' = [live EXCEPT ![v] = "none"] /\ UNCHANGED slotVars
        /\ fiber' = Completed(fs, v, "ok")
    BY DEF Close
  <2>2. entry' = [entry EXCEPT ![v] = x]
    <3>1. entry \in [Spaces -> Rememberings] /\ v \in Spaces
      BY <1>0, <1>1
    <3> HIDE DEF v
    <3> QED BY <2>1, <3>1
  <2> HIDE DEF v, fs, x
  <2> QED BY <2>1, <2>2 DEF slotVars
<1> HIDE DEF fs
<1>4. /\ FibersInv(fiber') /\ Calm(fs, fiber')
      /\ \A g \in Fibers : fiber'[g].pc = "awaitTransition" => fiber'[g].space # v
  <2> HIDE DEF v
  <2> QED BY <1>1, <1>2, <1>3, CompletedFibers DEF Outcomes
<1>5. Loose(fs[f]) /\ fs[f].pc \notin WaitPoints
  BY <1>2 DEF Loose, EngagedPoints, WaitPoints
<1>6. BookInv'
  BY DEF Close, ResidencyInv, BookInv, workVars, boundVars
<1>7. \A g \in Fibers : ~Reads(fiber[g], v)
  <2>1. \A g \in Fibers : fiber[g].pc = "read" => g \in Callers
    BY <1>0, FiberRight, IsCaller DEF Rightly, RightPlace
  <2> QED BY <2>1 DEF Close, Unused, Reads
<1>8. x \in Rememberings /\ x.leases = entry[v].leases /\ x.activation = "Inactive"
  <2>1. entry[v] \in Rememberings
    BY <1>0, <1>1
  <2> HIDE DEF v
  <2> QED BY ONLY <2>1 DEF Rememberings, x
<1> HIDE DEF x
<1>9. /\ entry' \in [Spaces -> Rememberings] /\ entry'[v] = x
      /\ \A t \in Spaces : t # v => SameRuntime(entry[t], entry'[t])
      /\ \A t \in Spaces : SameRuntime(entry'[t], entry'[t])
  BY <1>0, <1>1, <1>3, <1>8 DEF SameRuntime
<1>10. /\ live' \in [Spaces -> Scopes] /\ live'[v] = "none"
       /\ \A t \in Spaces : t # v => live'[t] = live[t]
  BY <1>1, <1>3, SpaceEntriesAre DEF Scopes
<1>11. SpaceInv(entry'[v], live'[v], foregroundAdmitted, fs, v)
  <2>1. SpaceInv(entry[v], live[v], foregroundAdmitted, fiber, v)
    BY <1>1, SpaceEntriesAre
  <2>2. entry'[v].leases = entry[v].leases /\ entry'[v].activation = "Inactive"
    BY <1>8, <1>9
  <2> QED BY <1>1, <1>2, <1>5, <1>7, <1>10, <2>1, <2>2, RuntimeClosed
<1>12. SpacesInv(entry', live', foregroundAdmitted, fs)
  <2>1. AtSpace(fiber[f], v)
    BY <1>1 DEF AtSpace, Moves
  <2>2. SpacesInv(entry, live, foregroundAdmitted, fiber)
    BY DEF ResidencyInv
  <2> HIDE DEF v
  <2> QED BY <1>1, <1>2, <1>5, <1>9, <1>10, <1>11, <2>1, <2>2, StepAtSpace
<1>13. SpacesInv(entry', live', foregroundAdmitted, fiber')
  BY <1>4, <1>9, <1>12, CalmSpaces
<1>14. PermitsInv(live')
  <2>1. InBackground(live') \subseteq InBackground(live)
    BY <1>10 DEF InBackground
  <2> QED BY <2>1, FewerPermits DEF ResidencyInv
<1>15. AwaitsInv(entry', foregroundAdmitted, fiber')
  <2>1. fiber'[f].pc \notin WaitPoints
    BY <1>4, <1>5 DEF Calm, Alike
  <2>2. FiberAwaits(entry', foregroundAdmitted, fiber'[f])
    BY <2>1 DEF FiberAwaits, WaitPoints
  <2>3. \A g \in Fibers : g # f /\ fiber'[g].pc \in WaitPoints => Alike(fiber[g], fiber'[g])
    BY <1>2, <1>4 DEF Calm, Apart, Alike
  <2>4. foregroundAdmitted \subseteq Spaces /\ AwaitsInv(entry, foregroundAdmitted, fiber)
    BY DEF ResidencyInv, ResidentsInv
  <2>5. /\ entry[v].leases > 0 => entry'[v].leases > 0
        /\ entry'[v].activation # "Active"
    BY <1>8, <1>9
  <2>6. FibersInv(fiber) /\ FibersInv(fiber') /\ v \in Spaces
    BY <1>0, <1>1, <1>4
  <2>7. \A t \in Spaces : t # v => SameRuntime(entry[t], entry'[t])
    BY <1>9
  <2>8. \A g \in Fibers : fiber'[g].pc = "awaitTransition" => fiber'[g].space # v
    BY <1>4
  <2> HIDE DEF v
  <2>9. PICK e2, gs : e2 = entry' /\ gs = fiber'
    OBVIOUS
  <2>10. AwaitsInv(e2, foregroundAdmitted, gs)
    BY <2>2, <2>3, <2>4, <2>5, <2>6, <2>7, <2>8, <2>9, AwaitsKept
  <2> QED BY <2>9, <2>10
<1> QED BY <1>3, <1>4, <1>6, <1>13, <1>14, <1>15 DEF ResidencyInv

\* deactivate: f starts to close the runtime of v.
LEMMA StartClosingStep ==
  ASSUME ResidencyInv, NEW f \in Callers, NEW v \in Spaces, NEW e \in [Spaces -> Rememberings],
         NEW order, \A t \in Spaces : SameRuntime(entry[t], e[t]),
         ResidentsInv(order, foregroundAdmitted), StartClosing(f, v, e, order),
         fiber[f].pc \in {"enter", "capacity", "deactivate"},
         v = fiber[f].space \/ fiber[f].call = "use",
         entry[v].activation = "Active", entry[v].leases = 0,
         live' = live, BookInv'
  PROVE  ResidencyInv'
<1> DEFINE r == fiber[f]
           q == [r EXCEPT !.pc = "close", !.target = v]
           fs == [fiber EXCEPT ![f] = q]
           x == [e[v] EXCEPT !.activation = "Deactivating", !.foreground = FALSE]
<1>0. FibersInv(fiber) /\ f \in Fibers /\ fiber \in [Fibers -> FiberStates]
  BY DEF ResidencyInv, Fibers, FibersInv
<1>1. /\ Rightly(f, r) /\ r \in FiberStates /\ Loose(r) /\ r.space \in Spaces
      /\ r.call \in {"use", "deactivate", "leave"}
  <2>1. Rightly(f, r) /\ r.pc \in {"enter", "capacity", "deactivate"}
    BY <1>0, FiberRight
  <2> QED BY <2>1 DEF Rightly, RightPlace, Loose, EngagedPoints
<1>2. Rightly(f, q) /\ q.pc = "close" /\ q.target = v
  <2>1. /\ q \in FiberStates /\ q.pc = "close" /\ q.call = r.call /\ q.space = r.space
        /\ q.target = v /\ q.then = r.then
    BY <1>1 DEF FiberStates, Points
  <2> HIDE DEF q
  <2>2. RightPlace(q) /\ RightWait(q)
    BY <1>1, <2>1 DEF RightPlace, RightWait, WaitPoints
  <2> QED BY <1>1, <2>1, <2>2 DEF Rightly
<1>3. fiber' = Signalled(fs)
  <2>1. fiber' = [Signalled(fiber) EXCEPT ![f].pc = "close", ![f].target = v]
    BY DEF StartClosing
  <2>2. Signalled(fiber)[f] = fiber[f]
    BY <1>0 DEF Signalled
  <2>3. fiber' = [Signalled(fiber) EXCEPT ![f] = q]
    <3>1. f \in DOMAIN Signalled(fiber)
      BY <1>0 DEF Signalled
    <3> QED BY <2>1, <2>2, <3>1
  <2>4. fs[f] = q /\ \A g \in Fibers : g # f => fs[g] = fiber[g]
    BY <1>0
  <2> HIDE DEF fs, q
  <2>5. Signalled(fs)[f] = q
    BY <1>0, <1>2, <2>4 DEF Signalled
  <2>6. \A g \in Fibers : g # f => Signalled(fs)[g] = Signalled(fiber)[g]
    BY <2>4 DEF Signalled
  <2>7. \A g \in Fibers : fiber'[g] = Signalled(fs)[g]
    BY <1>0, <2>3, <2>5, <2>6 DEF Signalled
  <2>8. Signalled(fs) = [g \in Fibers |-> Signalled(fs)[g]] /\ fiber' = [g \in Fibers |-> fiber'[g]]
    BY <2>3 DEF Signalled
  <2> QED BY <2>7, <2>8
<1> HIDE DEF q
<1>4. FibersInv(fs) /\ fs[f] = q /\ Apart(f, fiber, fs)
  BY <1>0, <1>2, ReplacedRight
<1>5. fs[f].pc \notin WaitPoints /\ Closes(fs[f], v) /\ AtSpace(fs[f], v)
  BY <1>2, <1>4 DEF WaitPoints, Closes, AtSpace, Moves
<1> HIDE DEF fs
<1>6. FibersInv(fiber') /\ Calm(fs, fiber') /\ NoneAwaits(fiber')
  BY <1>3, <1>4, SignalledFibers
<1>7. /\ entry' = [e EXCEPT ![v] = x] /\ residents' = RemoveFirst(order, v)
      /\ foregroundAdmitted' = foregroundAdmitted \ {v}
  BY DEF StartClosing
<1>8. x \in Rememberings /\ x.leases = 0 /\ x.activation = "Deactivating"
  BY DEF Rememberings, SameRuntime
<1> HIDE DEF x
<1>9. /\ entry' \in [Spaces -> Rememberings] /\ entry'[v] = x
      /\ \A t \in Spaces : t # v => SameRuntime(entry[t], entry'[t])
      /\ \A t \in Spaces : SameRuntime(entry'[t], entry'[t])
      /\ Moving(entry'[v])
  BY <1>7, <1>8 DEF SameRuntime, Moving
<1>10. SpaceInv(entry'[v], live[v], foregroundAdmitted', fs, v)
  <2>1. SpaceInv(entry[v], live[v], foregroundAdmitted, fiber, v)
    BY SpaceEntriesAre
  <2>2. fs[f].pc = "close" /\ fs[f].target = v
    BY <1>2, <1>4
  <2>3. entry'[v].leases = 0 /\ entry'[v].activation = "Deactivating"
    BY <1>8, <1>9
  <2> QED BY <1>0, <1>1, <1>4, <2>1, <2>2, <2>3, ClosingBegun
<1>11. /\ live' \in [Spaces -> Scopes] /\ PermitsInv(live')
       /\ \A t \in Spaces : t # v =>
            live'[t] = live[t] /\ (t \in foregroundAdmitted => t \in foregroundAdmitted')
       /\ SpaceInv(entry'[v], live'[v], foregroundAdmitted', fs, v)
  BY <1>7, <1>10, SpaceEntriesAre DEF ResidencyInv
<1>12. ResidentsInv(residents', foregroundAdmitted')
  BY <1>7, DroppedReservation
<1> QED BY <1>0, <1>1, <1>4, <1>5, <1>6, <1>9, <1>11, <1>12, WokenStep

LEMMA LooseSpaces ==
  ASSUME NEW e, NEW l, NEW slots, NEW fs, NEW e2 \in [Spaces -> Rememberings], NEW gs,
         NEW f \in Fibers, SpacesInv(e, l, slots, fs), Apart(f, fs, gs),
         Loose(fs[f]), Loose(gs[f]), \A s \in Spaces : SameRuntime(e[s], e2[s])
  PROVE  SpacesInv(e2, l, slots, gs)
<1>1. ASSUME NEW s \in Spaces
      PROVE  SpaceInv(e2[s], l[s], slots, gs, s)
  <2>1. SpaceInv(e[s], l[s], slots, fs, s)
    BY DEF SpacesInv
  <2>2. \A g \in Fibers : AtSpace(fs[g], s) \/ AtSpace(gs[g], s) => Alike(fs[g], gs[g])
    BY LooseIsNowhere DEF Apart
  <2> QED BY <2>1, <2>2, Bystanders
<1> QED BY <1>1 DEF SpacesInv

\* A fiber that holds nothing starts to wait.
LEMMA AwaitBegun ==
  ASSUME FibersInv(fiber), NEW f \in Fibers, NEW p \in WaitPoints, NEW n,
         NEW slots \in SUBSET Spaces, NEW e, NEW e2 \in [Spaces -> Rememberings],
         SpacesInv(e, live, slots, fiber), AwaitsInv(e, slots, fiber),
         \A t \in Spaces : SameRuntime(e[t], e2[t]),
         Loose(fiber[f]), fiber[f].pc # "idle", fiber[f].target = fiber[f].space,
         \/ fiber[f].call = "use" /\ n \in {"enter", "capacity"}
         \/ fiber[f].call \in {"deactivate", "leave"} /\ n = "deactivate"
         \/ fiber[f].call = "turn" /\ n = "enter",
         p = "awaitTransition" => n # "capacity" /\ Moving(e2[fiber[f].space]),
         p = "awaitCapacity" /\ n # "capacity" => e2[fiber[f].space].leases > 0,
         p = "awaitCapacity" /\ n = "capacity" => NoSlot(e2, slots, fiber[f].space)
  PROVE  /\ FibersInv(Await(f, p, n))
         /\ SpacesInv(e2, live, slots, Await(f, p, n))
         /\ AwaitsInv(e2, slots, Await(f, p, n))
<1> DEFINE gs == Await(f, p, n)
<1>1. /\ FibersInv(gs) /\ Apart(f, fiber, gs) /\ gs[f].pc = p /\ gs[f].then = n
      /\ gs[f].space = fiber[f].space
  BY AwaitMoves
<1> HIDE DEF gs
<1>2. Loose(gs[f])
  BY <1>1 DEF Loose, EngagedPoints, WaitPoints
<1>3. SpacesInv(e2, live, slots, gs)
  BY <1>1, <1>2, LooseSpaces
<1>4. FiberAwaits(e2, slots, gs[f])
  BY <1>1 DEF FiberAwaits, WaitPoints
<1>5. AwaitsInv(e2, slots, gs)
  <2>1. fiber[f].space \in Spaces
    BY FiberRight
  <2>2. \A g \in Fibers : g # f /\ gs[g].pc \in WaitPoints => Alike(fiber[g], gs[g])
    BY <1>1 DEF Apart
  <2>3. SameRuntime(e[fiber[f].space], e2[fiber[f].space])
    BY <2>1
  <2> QED BY <1>1, <1>4, <2>1, <2>2, <2>3, AwaitsKept DEF SameRuntime, Moving
<1> QED BY <1>1, <1>3, <1>5 DEF gs

LEMMA DeactivateStep ==
  ASSUME ResidencyInv, NEW c \in Callers, Deactivate(c)
  PROVE  ResidencyInv'
<1> DEFINE s == fiber[c].space
           r == fiber[c]
<1>0. FibersInv(fiber) /\ entry \in [Spaces -> Rememberings] /\ c \in Fibers
  BY SpaceEntriesAre DEF ResidencyInv, Fibers
<1>1. /\ r.pc = "deactivate" /\ s \in Spaces /\ r.target = s /\ r \in FiberStates
      /\ r.call \in {"deactivate", "leave"} /\ Loose(r) /\ r.pc \notin EngagedPoints
  BY <1>0, FiberRight DEF Deactivate, Rightly, RightPlace, Loose, EngagedPoints
<1>2. BookInv' /\ live' = live
  BY DEF Deactivate, ResidencyInv, BookInv, storeVars, workVars, boundVars
<1>3. /\ foregroundAdmitted \in SUBSET Spaces
      /\ SpacesInv(entry, live, foregroundAdmitted, fiber)
      /\ AwaitsInv(entry, foregroundAdmitted, fiber)
      /\ ResidentsInv(residents, foregroundAdmitted) /\ PermitsInv(live)
  BY DEF ResidencyInv, ResidentsInv
<1>4. CASE /\ fiber' = [fiber EXCEPT ![c] = Failing(r, "terminal")]
           /\ UNCHANGED <<entry, slotVars>>
  <2> DEFINE q == Failing(r, "terminal")
  <2>1. Rightly(c, q) /\ q.pc \notin EngagedPoints \cup WaitPoints
    <3>1. c \notin Workers /\ r.call # "turn"
      BY <1>1, CapacityAssumption
    <3>2. r.call \in {"use", "deactivate", "leave", "turn"} /\ "terminal" \in Outcomes
      BY <1>1 DEF Outcomes
    <3> HIDE DEF q
    <3> QED BY <1>0, <1>1, <3>1, <3>2, FailingRight DEF q
  <2> HIDE DEF q
  <2>2. FibersInv([fiber EXCEPT ![c] = q]) /\ Calm(fiber, [fiber EXCEPT ![c] = q])
    BY <1>0, <1>1, <2>1, LooseMove
  <2>3. FibersInv(fiber') /\ Calm(fiber, fiber')
    BY <1>4, <2>2 DEF q
  <2>4. entry' = entry /\ residents' = residents /\ foregroundAdmitted' = foregroundAdmitted
    BY <1>4 DEF slotVars
  <2> QED BY <1>0, <1>2, <2>3, <2>4, SameEntries, QuietStep
<1>5. CASE /\ fiber' = (IF r.call = "leave" THEN Goto(c, "delete") ELSE Done(c))
           /\ UNCHANGED <<entry, slotVars>>
  <2>1. CASE r.call = "leave"
    <3>1. FibersInv(Goto(c, "delete")) /\ Calm(fiber, Goto(c, "delete"))
      BY <1>0, <1>1, <2>1, GotoLoosely DEF Points, EngagedPoints, WaitPoints, Suits
    <3> QED BY <1>0, <1>2, <1>5, <2>1, <3>1, SameEntries, QuietStep DEF slotVars
  <2>2. CASE r.call # "leave"
    <3>1. FibersInv(Done(c)) /\ Calm(fiber, Done(c))
      BY <1>0, <1>1, DoneLoosely
    <3> QED BY <1>0, <1>2, <1>5, <2>2, <3>1, SameEntries, QuietStep DEF slotVars
  <2> QED BY <2>1, <2>2
<1>6. CASE /\ Moving(entry[s]) /\ fiber' = Await(c, "awaitTransition", "deactivate")
           /\ UNCHANGED <<entry, slotVars>>
  <2>1. \A t \in Spaces : SameRuntime(entry[t], entry[t])
    BY SameEntries
  <2>2. /\ FibersInv(fiber') /\ SpacesInv(entry, live, foregroundAdmitted, fiber')
        /\ AwaitsInv(entry, foregroundAdmitted, fiber')
    BY <1>0, <1>1, <1>3, <1>6, <2>1, AwaitBegun DEF WaitPoints
  <2> QED BY <1>2, <1>3, <1>6, <2>2 DEF ResidencyInv, slotVars
<1>7. CASE /\ entry[s].leases > 0
           /\ entry' = [entry EXCEPT ![s] = [entry[s] EXCEPT !.preempted = TRUE]]
           /\ fiber' = Await(c, "awaitCapacity", "deactivate")
           /\ UNCHANGED slotVars
  <2>1. /\ [entry[s] EXCEPT !.preempted = TRUE] \in Rememberings
        /\ SameRuntime(entry[s], [entry[s] EXCEPT !.preempted = TRUE])
    BY <1>0, <1>1, Noted
  <2>2. /\ entry' \in [Spaces -> Rememberings]
        /\ \A t \in Spaces : SameRuntime(entry[t], entry'[t])
    BY <1>0, <1>1, <1>7, <2>1, EntryNoted
  <2>3. entry'[s].leases > 0
    BY <1>1, <1>7, <2>2 DEF SameRuntime
  <2>4. /\ FibersInv(fiber') /\ SpacesInv(entry', live, foregroundAdmitted, fiber')
        /\ AwaitsInv(entry', foregroundAdmitted, fiber')
    BY <1>0, <1>1, <1>3, <1>7, <2>2, <2>3, AwaitBegun DEF WaitPoints
  <2> QED BY <1>2, <1>3, <1>7, <2>4 DEF ResidencyInv, slotVars
<1>8. CASE /\ Active(s) /\ entry[s].leases = 0 /\ StartClosing(c, s, entry, residents)
  <2>1. /\ entry[s].activation = "Active"
        /\ r.pc \in {"enter", "capacity", "deactivate"}
    BY <1>1, <1>8 DEF Active
  <2> QED BY <1>0, <1>1, <1>2, <1>3, <1>8, <2>1, SameEntries, StartClosingStep
<1>9. \/ /\ fiber' = [fiber EXCEPT ![c] = Failing(r, "terminal")]
         /\ UNCHANGED <<entry, slotVars>>
      \/ /\ fiber' = (IF r.call = "leave" THEN Goto(c, "delete") ELSE Done(c))
         /\ UNCHANGED <<entry, slotVars>>
      \/ /\ entry[s].activation \in {"Activating", "Deactivating"}
         /\ fiber' = Await(c, "awaitTransition", "deactivate")
         /\ UNCHANGED <<entry, slotVars>>
      \/ /\ entry[s].leases > 0
         /\ entry' = [entry EXCEPT ![s] = [entry[s] EXCEPT !.preempted = TRUE]]
         /\ fiber' = Await(c, "awaitCapacity", "deactivate")
         /\ UNCHANGED slotVars
      \/ /\ Active(s) /\ entry[s].leases = 0 /\ StartClosing(c, s, entry, residents)
  BY <1>0, <1>1 DEF Deactivate
<1> QED BY <1>4, <1>5, <1>6, <1>7, <1>8, <1>9 DEF Moving

LEMMA ResultNoted ==
  ASSUME NEW fs, FibersInv(fs), NEW f \in Fibers, NEW result \in Outcomes
  PROVE  FibersInv([fs EXCEPT ![f].result = result]) /\ Calm(fs, [fs EXCEPT ![f].result = result])
<1> DEFINE r == fs[f]
           q == [r EXCEPT !.result = result]
           gs == [fs EXCEPT ![f] = q]
<1>1. Rightly(f, r)
  BY DEF FibersInv
<1>2. r \in FiberStates
  BY <1>1 DEF Rightly
<1>3. /\ q \in FiberStates /\ q.pc = r.pc /\ q.call = r.call /\ q.space = r.space
      /\ q.target = r.target /\ q.then = r.then
  BY <1>2 DEF FiberStates
<1>4. gs = [fs EXCEPT ![f].result = result]
  OBVIOUS
<1> HIDE DEF q
<1>5. RightPlace(q) /\ RightWait(q)
  BY <1>1, <1>3 DEF Rightly, RightPlace, RightWait
<1>6. Rightly(f, q)
  BY <1>1, <1>3, <1>5 DEF Rightly
<1>7. FibersInv(gs) /\ gs[f] = q /\ Apart(f, fs, gs)
  BY <1>6, ReplacedRight
<1> HIDE DEF gs
<1>8. Calm(fs, gs)
  BY <1>3, <1>7 DEF Calm, Apart, Alike
<1> QED BY <1>4, <1>7, <1>8

\* The end of a background turn, which released its lease: e are the entries.
LEMMA EndTurnStep ==
  ASSUME ResidencyInv, NEW w \in Workers, NEW e \in [Spaces -> Rememberings],
         NEW result \in Outcomes, fiber[w].pc = "sync",
         \A t \in Spaces : t # fiber[w].space => SameRuntime(entry[t], e[t]),
         e[fiber[w].space].leases = entry[fiber[w].space].leases - 1,
         e[fiber[w].space].activation = entry[fiber[w].space].activation,
         e[fiber[w].space].runtime = entry[fiber[w].space].runtime,
         EndTurn(w, e, result), live' = live, BookInv'
  PROVE  ResidencyInv'
<1> DEFINE s == fiber[w].space
<1>0. FibersInv(fiber) /\ w \in Fibers
  BY DEF ResidencyInv, Fibers
<1>1. /\ s \in Spaces /\ fiber[w].target = s /\ fiber[w].call = "turn"
      /\ AtSpace(fiber[w], s) /\ fiber[w].pc \in {"use", "sync"}
  BY <1>0, FiberRight DEF Rightly, RightPlace, AtSpace
<1>2. /\ SpaceInv(entry[s], live[s], foregroundAdmitted, fiber, s)
      /\ ResidentsInv(residents, foregroundAdmitted) /\ PermitsInv(live)
      /\ live \in [Spaces -> Scopes]
  BY <1>1, SpaceEntriesAre DEF ResidencyInv
<1>3. entry[s].activation = "Active"
  <2>1. w \in Holders(fiber, s)
    BY <1>0, <1>1 DEF Holders
  <2> QED BY <1>2, <2>1 DEF SpaceInv, HolderInv
<1>4. ASSUME NEW gs, Apart(w, fiber, gs), Loose(gs[w])
      PROVE  SpaceInv(e[s], live[s], foregroundAdmitted, gs, s)
  BY <1>0, <1>1, <1>2, <1>4, LeaseGiven
<1>5. ASSUME NEW fs, FibersInv(fs), fiber' = Signalled([fs EXCEPT ![w].result = result])
      PROVE  FibersInv(fiber') /\ Calm(fs, fiber') /\ NoneAwaits(fiber')
  <2> DEFINE gs == [fs EXCEPT ![w].result = result]
  <2>1. FibersInv(gs) /\ Calm(fs, gs)
    BY <1>0, <1>5, ResultNoted
  <2>2. fiber' = Signalled(gs)
    BY <1>5
  <2> HIDE DEF gs
  <2>3. FibersInv(fiber') /\ Calm(gs, fiber') /\ NoneAwaits(fiber')
    BY <2>1, <2>2, SignalledFibers
  <2> QED BY <2>1, <2>3, CalmIsTransitive
<1>6. CASE Surrendered(e, s)
  <2> DEFINE fs == IF result = "ok" THEN Done(w) ELSE Goto(w, "settle")
  <2>1. /\ entry' = e /\ residents' = residents /\ foregroundAdmitted' = foregroundAdmitted
        /\ fiber' = Signalled([fs EXCEPT ![w].result = result])
    BY <1>6 DEF EndTurn, slotVars
  <2>2. /\ FibersInv(fs) /\ Apart(w, fiber, fs) /\ fs[w].pc \in {"idle", "settle"}
    <3>1. FibersInv(Done(w)) /\ Apart(w, fiber, Done(w)) /\ Done(w)[w].pc = "idle"
      BY <1>0, DoneMoves
    <3>2. PICK p : p = "settle"
      OBVIOUS
    <3>3. p \in Points /\ p \notin WaitPoints /\ p # "idle" /\ Suits(p, fiber[w].call)
      BY <1>1, <3>2 DEF Points, WaitPoints, Suits
    <3>4. fiber[w].pc # "idle" /\ fiber[w].target = fiber[w].space
      BY <1>1
    <3>5. FibersInv(Goto(w, p)) /\ Apart(w, fiber, Goto(w, p)) /\ Goto(w, p)[w].pc = p
      BY <1>0, <3>3, <3>4, GotoMoves
    <3> QED BY <3>1, <3>2, <3>5
  <2> HIDE DEF fs
  <2>3. Loose(fs[w]) /\ fs[w].pc \notin WaitPoints
    BY <2>2 DEF Loose, EngagedPoints, WaitPoints
  <2>4. FibersInv(fiber') /\ Calm(fs, fiber') /\ NoneAwaits(fiber')
    BY <1>5, <2>1, <2>2
  <2>5. SpaceInv(e[s], live[s], foregroundAdmitted, fs, s)
    BY <1>4, <2>2, <2>3
  <2>6. ~Moving(entry[s])
    BY <1>3 DEF Moving
  <2>7. \A t \in Spaces : SameRuntime(e[t], entry'[t])
    BY <2>1 DEF SameRuntime
  <2>8. /\ entry' \in [Spaces -> Rememberings] /\ live' \in [Spaces -> Scopes]
        /\ PermitsInv(live') /\ ResidentsInv(residents', foregroundAdmitted')
        /\ \A t \in Spaces : t # s =>
             live'[t] = live[t] /\ (t \in foregroundAdmitted => t \in foregroundAdmitted')
        /\ SpaceInv(e[s], live'[s], foregroundAdmitted', fs, s)
    BY <1>2, <2>1, <2>5
  <2>9. \A t \in Spaces : t # s => SameRuntime(entry[t], e[t])
    OBVIOUS
  <2> HIDE DEF s
  <2> QED BY <1>0, <1>1, <2>2, <2>3, <2>4, <2>6, <2>7, <2>8, <2>9, WokenStep
<1>7. CASE ~Surrendered(e, s)
  <2> DEFINE fs == Goto(w, "close")
             mid == Done(w)
             x == [e[s] EXCEPT !.activation = "Deactivating"]
  <2>1. /\ entry' = [e EXCEPT ![s] = x]
        /\ fiber' = Signalled([fs EXCEPT ![w].result = result])
        /\ residents' = RemoveFirst(residents, s)
        /\ foregroundAdmitted' = foregroundAdmitted \ {s}
    BY <1>7 DEF EndTurn, DropReservation
  <2>2. FibersInv(mid) /\ Apart(w, fiber, mid) /\ Loose(mid[w])
    BY <1>0, DoneMoves
  <2>3. FibersInv(fs) /\ Apart(w, fiber, fs) /\ fs[w].pc = "close" /\ fs[w].target = s
    <3>1. PICK p : p = "close"
      OBVIOUS
    <3>2. p \in Points /\ p \notin WaitPoints /\ p # "idle" /\ Suits(p, fiber[w].call)
      BY <1>0, <1>1, <3>1 DEF Points, WaitPoints, Suits
    <3>3. /\ FibersInv(fiber) /\ w \in Fibers /\ fiber[w].pc # "idle"
          /\ fiber[w].target = fiber[w].space /\ fiber[w].target = s
      BY <1>0, <1>1
    <3> HIDE DEF s
    <3>4. /\ FibersInv(Goto(w, p)) /\ Apart(w, fiber, Goto(w, p)) /\ Goto(w, p)[w].pc = p
          /\ Goto(w, p)[w].target = fiber[w].target
      BY <3>2, <3>3, GotoMoves
    <3> QED BY <3>1, <3>3, <3>4 DEF fs
  <2> HIDE DEF fs, mid
  <2>4. Apart(w, mid, fs)
    BY <2>2, <2>3 DEF Apart, Alike
  <2>5. AtSpace(fs[w], s) /\ fs[w].pc \notin WaitPoints
    BY <2>3 DEF AtSpace, Moves, Closes, WaitPoints
  <2>6. FibersInv(fiber') /\ Calm(fs, fiber') /\ NoneAwaits(fiber')
    BY <1>5, <2>1, <2>3
  <2>7. SpaceInv(e[s], live[s], foregroundAdmitted, mid, s)
    BY <1>4, <2>2
  <2>8. e[s].leases = 0
    <3>1. e[s].leases = Cardinality(Holders(mid, s)) /\ IsFiniteSet(Holders(mid, s))
      BY <2>7 DEF SpaceInv, CountInv
    <3>2. e[s].leases \in Nat
      BY <3>1, FS_CardinalityType
    <3>3. ~(e[s].leases > 0)
      BY <1>7 DEF Surrendered
    <3> DEFINE n == e[s].leases
    <3>4. n \in Nat /\ ~(n > 0)
      BY <3>2, <3>3
    <3> HIDE DEF n
    <3>5. n = 0
      BY <3>4
    <3> QED BY <3>5 DEF n
  <2>9. x \in Rememberings /\ x.leases = 0 /\ x.activation = "Deactivating"
    BY <1>1, <2>8 DEF Rememberings
  <2> HIDE DEF x
  <2>10. /\ entry' \in [Spaces -> Rememberings] /\ entry'[s] = x
         /\ \A t \in Spaces : t # s => SameRuntime(entry[t], entry'[t])
         /\ \A t \in Spaces : SameRuntime(entry'[t], entry'[t])
         /\ Moving(entry'[s])
    BY <1>1, <2>1, <2>9 DEF SameRuntime, Moving
  <2>11. SpaceInv(entry'[s], live[s], foregroundAdmitted', fs, s)
    <3>1. e[s].activation = "Active" /\ entry'[s].leases = 0 /\ entry'[s].activation = "Deactivating"
      BY <1>3, <2>9, <2>10
    <3> HIDE DEF s
    <3> QED BY <1>0, <2>2, <2>3, <2>4, <2>7, <2>8, <3>1, ClosingBegun
  <2>12. /\ live' \in [Spaces -> Scopes] /\ PermitsInv(live')
         /\ \A t \in Spaces : t # s =>
              live'[t] = live[t] /\ (t \in foregroundAdmitted => t \in foregroundAdmitted')
         /\ SpaceInv(entry'[s], live'[s], foregroundAdmitted', fs, s)
    BY <1>2, <2>1, <2>11
  <2>13. ResidentsInv(residents', foregroundAdmitted')
    BY <1>1, <1>2, <2>1, DroppedReservation
  <2> HIDE DEF s
  <2> QED BY <1>0, <1>1, <2>3, <2>5, <2>6, <2>10, <2>12, <2>13, WokenStep
<1> QED BY <1>6, <1>7

LEMMA SyncStep ==
  ASSUME ResidencyInv, NEW w \in Workers,
         Sync(w) \/ Preempted(w) \/ SyncFails(w)
  PROVE  ResidencyInv'
<1> DEFINE s == fiber[w].space
           x == [entry[s] EXCEPT !.leases = @ - 1]
           y == [x EXCEPT !.failed = FALSE]
<1>0. FibersInv(fiber) /\ w \in Fibers /\ entry \in [Spaces -> Rememberings]
  BY SpaceEntriesAre DEF ResidencyInv, Fibers
<1>1. fiber[w].pc = "sync" /\ s \in Spaces
  <2>1. fiber[w].pc = "sync"
    BY DEF Sync, Preempted, SyncFails
  <2> QED BY <1>0, <2>1, FiberRight
<1>2. /\ x \in Rememberings /\ x.leases = entry[s].leases - 1
      /\ x.activation = entry[s].activation /\ x.runtime = entry[s].runtime
  BY <1>0, <1>1 DEF Rememberings
<1>3. y \in Rememberings /\ SameRuntime(x, y)
  <2> HIDE DEF x
  <2> QED BY <1>2, Noted
<1>4. Released(w) = [entry EXCEPT ![s] = x]
  BY DEF Released
<1>5. live' = live /\ BookInv'
  BY <1>1 DEF Sync, Preempted, SyncFails, Disturb, storeVars, workVars, boundVars, ResidencyInv, BookInv
<1>6. [Released(w) EXCEPT ![s].failed = FALSE] = [entry EXCEPT ![s] = y]
  <2>1. Released(w)[s] = x
    BY <1>0, <1>1, <1>4
  <2> HIDE DEF x
  <2> QED BY <1>0, <1>1, <1>4, <2>1
<1>7. PICK z \in Rememberings, result \in Outcomes :
        /\ z.leases = entry[s].leases - 1
        /\ z.activation = entry[s].activation /\ z.runtime = entry[s].runtime
        /\ EndTurn(w, [entry EXCEPT ![s] = z], result)
  <2>0. /\ y.leases = entry[s].leases - 1
        /\ y.activation = entry[s].activation /\ y.runtime = entry[s].runtime
    <3> HIDE DEF x, y
    <3> QED BY <1>2, <1>3 DEF SameRuntime
  <2> HIDE DEF x, y
  <2>1. CASE Sync(w)
    <3>1. EndTurn(w, [entry EXCEPT ![s] = y], "ok")
      BY <1>6, <2>1 DEF Sync
    <3> QED BY <1>3, <2>0, <3>1 DEF Outcomes
  <2>2. CASE Preempted(w)
    <3>1. EndTurn(w, [entry EXCEPT ![s] = x], "ok")
      BY <1>4, <2>2 DEF Preempted
    <3> QED BY <1>2, <3>1 DEF Outcomes
  <2>3. CASE SyncFails(w)
    <3>1. PICK kind \in {"transient", "terminal", "credential"} :
            EndTurn(w, [entry EXCEPT ![s] = x], kind)
      BY <1>4, <2>3 DEF SyncFails
    <3> QED BY <1>2, <3>1 DEF Outcomes
  <2> QED BY <2>1, <2>2, <2>3
<1> DEFINE e == [entry EXCEPT ![s] = z]
<1>8. /\ e \in [Spaces -> Rememberings] /\ e[s] = z
      /\ \A t \in Spaces : t # s => SameRuntime(entry[t], e[t])
  BY <1>0, <1>1 DEF SameRuntime
<1>9. EndTurn(w, e, result)
  BY <1>7
<1> HIDE DEF e
<1> QED BY <1>1, <1>5, <1>7, <1>8, <1>9, EndTurnStep

(***************************************************************************)
(* Activations.                                                            *)
(***************************************************************************)
Residing(e, l, order, slots, fs) ==
  /\ FibersInv(fs) /\ SpacesInv(e, l, slots, fs) /\ AwaitsInv(e, slots, fs)
  /\ ResidentsInv(order, slots)

LEMMA Activating ==
  ASSUME FibersInv(fiber), NEW f \in Fibers, fiber[f].pc \in {"enter", "capacity", "built"}
  PROVE  /\ fiber[f].space \in Spaces /\ fiber[f].target = fiber[f].space
         /\ fiber[f].call \in {"use", "turn"} /\ Loose(fiber[f]) /\ fiber[f].pc # "idle"
         /\ fiber[f].call = IF f \in Callers THEN "use" ELSE "turn"
<1>1. /\ fiber[f].space \in Spaces /\ fiber[f].target = fiber[f].space
      /\ fiber[f].call \in {"use", "turn"} /\ Loose(fiber[f])
  BY FiberRight DEF Rightly, RightPlace, Loose, EngagedPoints
<1> QED BY <1>1, IsCaller

LEMMA LeaseStep ==
  ASSUME NEW e \in [Spaces -> Rememberings], NEW order, NEW slots,
         Residing(e, live, order, slots, fiber), NEW f \in Fibers,
         fiber[f].pc \in {"enter", "capacity", "built"},
         e[fiber[f].space].activation = "Active", e[fiber[f].space].runtime # "none",
         f \in Callers => e[fiber[f].space].runtime = "foreground",
         Lease(f, e, order)
  PROVE  Residing(entry', live, residents', slots, fiber')
<1> DEFINE s == fiber[f].space
           x == [e[s] EXCEPT !.leases = @ + 1]
           p == IF f \in Callers THEN "use" ELSE "sync"
<1>0. /\ FibersInv(fiber) /\ SpacesInv(e, live, slots, fiber) /\ AwaitsInv(e, slots, fiber)
      /\ ResidentsInv(order, slots) /\ slots \subseteq Spaces
  BY DEF Residing, ResidentsInv
<1>1. /\ s \in Spaces /\ fiber[f].target = s /\ Loose(fiber[f]) /\ fiber[f].pc # "idle"
      /\ Suits(p, fiber[f].call)
  BY <1>0, Activating DEF Suits
<1>2. /\ entry' = [e EXCEPT ![s] = x] /\ fiber' = Goto(f, p)
      /\ residents' = IF f \in Callers THEN Touch(order, s) ELSE order
  BY DEF Lease, Foreground
<1>3. /\ FibersInv(fiber') /\ Apart(f, fiber, fiber') /\ fiber'[f].pc = p
      /\ fiber'[f].space = s
  <2>1. p \in Points /\ p \notin WaitPoints /\ p # "idle"
    BY DEF Points, WaitPoints
  <2> HIDE DEF p
  <2> QED BY <1>0, <1>1, <1>2, <2>1, GotoMoves
<1>4. fiber'[f].pc \in {"use", "sync"} /\ AtSpace(fiber'[f], s)
  BY <1>3 DEF AtSpace
<1>5. SpaceInv(e[s], live[s], slots, fiber, s) /\ live \in [Spaces -> Scopes]
  BY <1>0, <1>1 DEF SpacesInv
<1>6. e[s].leases \in Nat
  BY <1>5, FS_CardinalityType DEF SpaceInv, CountInv
<1>7. /\ x \in Rememberings /\ x.leases = e[s].leases + 1
      /\ x.activation = e[s].activation /\ x.runtime = e[s].runtime
  BY <1>1 DEF Rememberings
<1> HIDE DEF x, p
<1>8. SpaceInv(x, live[s], slots, fiber', s)
  BY <1>0, <1>1, <1>3, <1>4, <1>5, <1>7, LeaseTaken
<1>9. /\ entry' \in [Spaces -> Rememberings] /\ entry'[s] = x
      /\ \A t \in Spaces : t # s => SameRuntime(e[t], entry'[t])
  BY <1>1, <1>2, <1>7 DEF SameRuntime
<1>10. SpacesInv(entry', live, slots, fiber')
  <2>1. SpaceInv(entry'[s], live[s], slots, fiber', s)
    BY <1>8, <1>9
  <2> HIDE DEF s
  <2> QED BY <1>0, <1>1, <1>3, <1>4, <1>5, <1>9, <2>1, StepAtSpace
<1>11. AwaitsInv(entry', slots, fiber')
  <2>1. FiberAwaits(entry', slots, fiber'[f])
    BY <1>4 DEF FiberAwaits, WaitPoints
  <2>2. \A g \in Fibers : g # f /\ fiber'[g].pc \in WaitPoints => Alike(fiber[g], fiber'[g])
    BY <1>3 DEF Apart
  <2>3. entry'[s].leases > 0 /\ entry'[s].leases # 0
    BY <1>6, <1>7, <1>9
  <2>4. ~Moving(e[s]) /\ e[s].activation = "Active" /\ entry'[s].runtime = e[s].runtime
    BY <1>7, <1>9 DEF Moving
  <2> HIDE DEF s
  <2> QED BY <1>0, <1>1, <1>3, <1>9, <2>1, <2>2, <2>3, <2>4, AwaitsKept
<1>12. ResidentsInv(residents', slots)
  BY <1>0, <1>1, <1>2, TouchedResidents
<1> QED BY <1>3, <1>10, <1>11, <1>12 DEF Residing

\* transition: f starts to open a runtime, having no lease to wait for.
Opening(f, e, p) ==
  /\ entry' = [e EXCEPT ![fiber[f].space].activation = "Activating",
                        ![fiber[f].space].runtime = "none",
                        ![fiber[f].space].preempted = FALSE]
  /\ fiber' = [fiber EXCEPT ![f].pc = p, ![f].retired = (p = "retire")]

LEMMA OpeningStep ==
  ASSUME NEW e \in [Spaces -> Rememberings], NEW order, NEW slots,
         Residing(e, live, order, slots, fiber), NEW f \in Fibers, NEW p,
         fiber[f].pc \in {"enter", "capacity"},
         f \in Callers => fiber[f].space \in slots,
         \/ /\ p = "retire" /\ f \in Callers
            /\ e[fiber[f].space].activation = "Active"
            /\ e[fiber[f].space].runtime = "background"
            /\ e[fiber[f].space].leases = 0
         \/ p = "open" /\ e[fiber[f].space].activation = "Inactive",
         Opening(f, e, p),
         residents' = order
  PROVE  Residing(entry', live, residents', slots, fiber')
<1> DEFINE s == fiber[f].space
           r == fiber[f]
           q == [r EXCEPT !.pc = p, !.retired = (p = "retire")]
           x == [e[s] EXCEPT !.activation = "Activating", !.runtime = "none",
                             !.preempted = FALSE]
<1>0. /\ FibersInv(fiber) /\ SpacesInv(e, live, slots, fiber) /\ AwaitsInv(e, slots, fiber)
      /\ ResidentsInv(order, slots) /\ slots \subseteq Spaces
  BY DEF Residing, ResidentsInv
<1>1. /\ s \in Spaces /\ r.target = s /\ Loose(r) /\ r.call \in {"use", "turn"}
      /\ f \in Callers => r.call = "use"
  BY <1>0, Activating
<1>2. /\ Rightly(f, r) /\ r \in FiberStates
  BY <1>0, FiberRight
<1>3. fiber' = [fiber EXCEPT ![f] = q] /\ entry' = [e EXCEPT ![s] = x]
  BY <1>0, <1>1 DEF Opening
<1>4. Rightly(f, q) /\ q.pc = p /\ q.space = s /\ p \in {"retire", "open"}
  <2>1. p \in {"retire", "open"}
    OBVIOUS
  <2>2. /\ q \in FiberStates /\ q.pc = p /\ q.call = r.call /\ q.space = r.space
        /\ q.target = r.target /\ q.then = r.then
    BY <1>2, <2>1 DEF FiberStates, Points
  <2> HIDE DEF q
  <2>3. RightPlace(q) /\ RightWait(q)
    BY <1>1, <2>1, <2>2 DEF RightPlace, RightWait, WaitPoints
  <2> QED BY <1>2, <2>1, <2>2, <2>3 DEF Rightly
<1> HIDE DEF q
<1>5. FibersInv(fiber') /\ fiber'[f] = q /\ Apart(f, fiber, fiber')
  <2>1. /\ FibersInv([fiber EXCEPT ![f] = q]) /\ [fiber EXCEPT ![f] = q][f] = q
        /\ Apart(f, fiber, [fiber EXCEPT ![f] = q])
    BY <1>0, <1>4, ReplacedRight
  <2> QED BY <1>3, <2>1
<1>6. AtSpace(fiber'[f], s) /\ fiber'[f].pc = p /\ fiber'[f].space = s /\ p \notin WaitPoints
  BY <1>4, <1>5 DEF AtSpace, Moves, Opens, WaitPoints
<1>7. SpaceInv(e[s], live[s], slots, fiber, s) /\ live \in [Spaces -> Scopes]
  BY <1>0, <1>1 DEF SpacesInv
<1>8. e[s].leases = 0
  <2>1. CASE e[s].activation = "Inactive"
    <3>1. Holders(fiber, s) = {}
      BY <1>7, <2>1 DEF SpaceInv, HolderInv
    <3> QED BY <1>7, <3>1, FS_EmptySet DEF SpaceInv, CountInv
  <2> QED BY <2>1
<1>9. x \in Rememberings /\ x.leases = 0 /\ x.activation = "Activating"
  BY <1>1, <1>8 DEF Rememberings
<1> HIDE DEF x
<1>10. /\ entry' \in [Spaces -> Rememberings] /\ entry'[s] = x
       /\ \A t \in Spaces : t # s => SameRuntime(e[t], entry'[t])
  BY <1>1, <1>3, <1>9 DEF SameRuntime
<1>11. SpaceInv(entry'[s], live[s], slots, fiber', s)
  <2>1. entry'[s].leases = 0 /\ entry'[s].activation = "Activating"
    BY <1>9, <1>10
  <2>2. \/ /\ e[s].activation = "Active" /\ e[s].runtime = "background"
           /\ fiber'[f].pc = "retire"
        \/ e[s].activation = "Inactive" /\ fiber'[f].pc = "open"
    BY <1>6
  <2>3. (f \in Callers => s \in slots) /\ fiber'[f].space = s
    BY <1>6
  <2> HIDE DEF s
  <2> QED BY <1>1, <1>5, <1>7, <1>8, <2>1, <2>2, <2>3, OpeningBegun
<1>12. SpacesInv(entry', live, slots, fiber')
  <2> HIDE DEF s
  <2> QED BY <1>0, <1>1, <1>5, <1>6, <1>7, <1>10, <1>11, StepAtSpace
<1>13. AwaitsInv(entry', slots, fiber')
  <2>1. FiberAwaits(entry', slots, fiber'[f])
    BY <1>6 DEF FiberAwaits, WaitPoints
  <2>2. \A g \in Fibers : g # f /\ fiber'[g].pc \in WaitPoints => Alike(fiber[g], fiber'[g])
    BY <1>5 DEF Apart
  <2>3. Moving(entry'[s]) /\ entry'[s].activation # "Active" /\ ~(e[s].leases > 0)
    BY <1>8, <1>9, <1>10 DEF Moving
  <2> HIDE DEF s
  <2> QED BY <1>0, <1>1, <1>5, <1>10, <2>1, <2>2, <2>3, AwaitsKept
<1> QED BY <1>0, <1>5, <1>12, <1>13 DEF Residing

\* A fiber that holds nothing goes on, while nothing else changes.
LEMMA ResidingOn ==
  ASSUME NEW e, NEW e2 \in [Spaces -> Rememberings], NEW l, NEW order, NEW order2, NEW slots,
         NEW fs, NEW gs, Residing(e, l, order, slots, fs), FibersInv(gs), Calm(fs, gs),
         \A t \in Spaces : SameRuntime(e[t], e2[t]), ResidentsInv(order2, slots)
  PROVE  Residing(e2, l, order2, slots, gs)
<1>1. /\ FibersInv(fs) /\ SpacesInv(e, l, slots, fs) /\ AwaitsInv(e, slots, fs)
      /\ slots \subseteq Spaces
  BY DEF Residing, ResidentsInv
<1>2. SpacesInv(e2, l, slots, gs)
  BY <1>1, CalmSpaces
<1>3. \A g \in Fibers : gs[g].pc \in WaitPoints => Alike(fs[g], gs[g])
  BY DEF Calm
<1>4. AwaitsInv(e2, slots, gs)
  BY <1>1, <1>3, SameAwaits
<1> QED BY <1>2, <1>4 DEF Residing

Ordered(f, order) == IF f \in Callers THEN Touch(order, fiber[f].space) ELSE order

\* The steps of transition from the capacity it has, named for what they do.
LEMMA ProceedCases ==
  ASSUME NEW e, NEW order, NEW f \in Fibers, Proceed(f, e, order)
  PROVE  LET s == fiber[f].space
             wait(what) == /\ fiber' = Await(f, what, "enter")
                           /\ residents' = Ordered(f, order)
         IN \/ Usable(f, s) /\ Lease(f, e, Ordered(f, order))
            \/ /\ e[s].leases > 0 /\ wait("awaitCapacity")
               /\ entry' = [e EXCEPT ![s] = [e[s] EXCEPT !.preempted = TRUE]]
            \/ Moving(e[s]) /\ entry' = e /\ wait("awaitTransition")
            \/ fiber' = Goto(f, "enter") /\ residents' = Ordered(f, order) /\ entry' = e
            \/ /\ ~Usable(f, s) /\ Active(s) /\ e[s].leases = 0
               /\ Opening(f, e, "retire") /\ residents' = Ordered(f, order)
            \/ /\ ~Active(s) /\ e[s].activation \in {"Active", "Inactive"}
               /\ Opening(f, e, "open") /\ residents' = Ordered(f, order)
BY DEF Proceed, Ordered, Moving, Foreground, Opening

LEMMA ProceedStep ==
  ASSUME NEW e \in [Spaces -> Rememberings], NEW order, NEW slots, NEW f \in Fibers,
         Residing(e, live, Ordered(f, order), slots, fiber),
         \A t \in Spaces : SameRuntime(entry[t], e[t]),
         fiber[f].pc \in {"enter", "capacity"}, f \in Callers => fiber[f].space \in slots,
         Proceed(f, e, order)
  PROVE  Residing(entry', live, residents', slots, fiber')
<1> DEFINE s == fiber[f].space
<1>0. /\ FibersInv(fiber) /\ SpacesInv(e, live, slots, fiber) /\ AwaitsInv(e, slots, fiber)
      /\ ResidentsInv(Ordered(f, order), slots) /\ slots \in SUBSET Spaces
  BY DEF Residing, ResidentsInv
<1>1. /\ s \in Spaces /\ fiber[f].target = s /\ Loose(fiber[f]) /\ fiber[f].pc # "idle"
      /\ fiber[f].call \in {"use", "turn"}
      /\ fiber[f].pc \in {"enter", "capacity", "built"}
  BY <1>0, Activating
<1>2. /\ SameRuntime(entry[s], e[s]) /\ e[s] \in Rememberings
      /\ SpaceInv(e[s], live[s], slots, fiber, s)
  BY <1>0, <1>1 DEF SpacesInv
<1>3. CASE Usable(f, s) /\ Lease(f, e, Ordered(f, order))
  <2>1. /\ e[s].activation = "Active" /\ e[s].runtime # "none"
        /\ f \in Callers => e[s].runtime = "foreground"
    BY <1>2, <1>3 DEF Usable, Active, Foreground, SameRuntime
  <2> QED BY <1>1, <1>3, <2>1, LeaseStep
<1>4. CASE /\ e[s].leases > 0 /\ fiber' = Await(f, "awaitCapacity", "enter")
           /\ entry' = [e EXCEPT ![s] = [e[s] EXCEPT !.preempted = TRUE]]
           /\ residents' = Ordered(f, order)
  <2>1. /\ [e[s] EXCEPT !.preempted = TRUE] \in Rememberings
        /\ SameRuntime(e[s], [e[s] EXCEPT !.preempted = TRUE])
    BY <1>2, Noted
  <2>2. /\ entry' \in [Spaces -> Rememberings]
        /\ \A t \in Spaces : SameRuntime(e[t], entry'[t])
    BY <1>1, <1>4, <2>1, EntryNoted
  <2>3. entry'[s].leases > 0
    BY <1>1, <1>4, <2>2 DEF SameRuntime
  <2>4. /\ FibersInv(fiber') /\ SpacesInv(entry', live, slots, fiber')
        /\ AwaitsInv(entry', slots, fiber')
    BY <1>0, <1>1, <1>4, <2>2, <2>3, AwaitBegun DEF WaitPoints
  <2> QED BY <1>0, <1>4, <2>4 DEF Residing
<1>5. CASE /\ Moving(e[s]) /\ entry' = e /\ fiber' = Await(f, "awaitTransition", "enter")
           /\ residents' = Ordered(f, order)
  <2>1. \A t \in Spaces : SameRuntime(e[t], e[t])
    BY SameEntries
  <2>2. /\ FibersInv(fiber') /\ SpacesInv(e, live, slots, fiber')
        /\ AwaitsInv(e, slots, fiber')
    BY <1>0, <1>1, <1>5, <2>1, AwaitBegun DEF WaitPoints
  <2> QED BY <1>0, <1>5, <2>2 DEF Residing
<1>6. CASE fiber' = Goto(f, "enter") /\ residents' = Ordered(f, order) /\ entry' = e
  <2>1. FibersInv(Goto(f, "enter")) /\ Calm(fiber, Goto(f, "enter"))
    BY <1>0, <1>1, GotoLoosely DEF Points, EngagedPoints, WaitPoints, Suits
  <2>2. \A t \in Spaces : SameRuntime(e[t], e[t])
    BY SameEntries
  <2> QED BY <1>0, <1>6, <2>1, <2>2, ResidingOn
<1>7. CASE /\ ~Usable(f, s) /\ Active(s) /\ e[s].leases = 0
           /\ Opening(f, e, "retire") /\ residents' = Ordered(f, order)
  <2>1. f \in Callers /\ e[s].activation = "Active" /\ e[s].runtime \notin {"none", "foreground"}
    BY <1>2, <1>7 DEF Usable, Active, Foreground, SameRuntime
  <2>2. e[s].runtime = "background"
    BY <1>2, <2>1 DEF Rememberings
  <2> QED BY <1>1, <1>7, <2>1, <2>2, OpeningStep
<1>8. CASE /\ ~Active(s) /\ e[s].activation \in {"Active", "Inactive"}
           /\ Opening(f, e, "open") /\ residents' = Ordered(f, order)
  <2>1. e[s].activation = "Inactive"
    <3>1. e[s].activation = "Active" => e[s].runtime # "none"
      BY <1>2 DEF SpaceInv, ScopeInv
    <3> QED BY <1>2, <1>8, <3>1 DEF Active, SameRuntime
  <2> QED BY <1>1, <1>8, <2>1, OpeningStep
<1> QED BY <1>3, <1>4, <1>5, <1>6, <1>7, <1>8, ProceedCases

LEMMA Resided ==
  ASSUME ResidencyInv
  PROVE  /\ Residing(entry, live, residents, foregroundAdmitted, fiber)
         /\ FibersInv(fiber) /\ ResidentsInv(residents, foregroundAdmitted)
         /\ foregroundAdmitted \in SUBSET Spaces /\ IsFiniteSet(foregroundAdmitted)
BY DEF ResidencyInv, Residing, ResidentsInv

LEMMA StillResiding ==
  ASSUME ResidencyInv, live' = live, BookInv',
         Residing(entry', live, residents', foregroundAdmitted', fiber')
  PROVE  ResidencyInv'
BY DEF ResidencyInv, Residing

\* A runtime that is in the foreground has a slot.
LEMMA ForegroundHasSlot ==
  ASSUME ResidencyInv, NEW s \in Spaces, HasForegroundRuntime(s)
  PROVE  s \in foregroundAdmitted
BY SpaceEntriesAre DEF HasForegroundRuntime, Active, SpaceInv, SlotInv

\* A slot is taken only when nobody waits for one.
LEMMA SlotTaken ==
  ASSUME NEW e, NEW l, NEW order, NEW slots, NEW fs, Residing(e, l, order, slots, fs),
         NEW s \in Spaces, s \in ToSet(order), Cardinality(slots \ {s}) < ForegroundSlots
  PROVE  Residing(e, l, order, slots \cup {s}, fs)
<1>0. /\ FibersInv(fs) /\ SpacesInv(e, l, slots, fs) /\ AwaitsInv(e, slots, fs)
      /\ ResidentsInv(order, slots) /\ IsFiniteSet(slots)
  BY DEF Residing, ResidentsInv
<1>1. ResidentsInv(order, slots \cup {s})
  BY <1>0, GrantedSlot
<1>2. SpacesInv(e, l, slots \cup {s}, fs)
  <2>1. Calm(fs, fs) /\ e \in [Spaces -> Rememberings]
    BY <1>0 DEF Calm, Alike, SpacesInv
  <2> QED BY <1>0, <2>1, SameEntries, CalmSpaces
<1>3. AwaitsInv(e, slots \cup {s}, fs)
  <2>1. CASE s \in slots
    <3>1. slots \cup {s} = slots
      BY <2>1
    <3> QED BY <1>0, <3>1
  <2>2. CASE s \notin slots
    <3>1. slots \ {s} = slots
      BY <2>2
    <3>2. ASSUME NEW t
          PROVE  Cardinality(slots \ {t}) < ForegroundSlots
      <4>1. /\ IsFiniteSet(slots \ {t})
            /\ Cardinality(slots \ {t}) <= Cardinality(slots)
        BY <1>0, FS_Subset
      <4>2. Cardinality(slots \ {t}) \in Nat /\ Cardinality(slots) \in Nat
        BY <1>0, <4>1, FS_CardinalityType
      <4> QED BY <3>1, <4>1, <4>2, CapacityAssumption
    <3>3. ASSUME NEW t, NoSlot(e, slots, t)
          PROVE  FALSE
      <4>1. Cardinality(slots \ {t}) >= ForegroundSlots
        BY <3>3 DEF NoSlot
      <4>2. Cardinality(slots \ {t}) < ForegroundSlots
        BY <3>2
      <4>3. IsFiniteSet(slots \ {t})
        BY <1>0, FS_Subset
      <4>4. Cardinality(slots \ {t}) \in Nat
        BY <4>3, FS_CardinalityType
      <4> QED BY <4>1, <4>2, <4>4, CapacityAssumption
    <3> QED BY <1>0, <3>3 DEF AwaitsInv, FiberAwaits
  <2> QED BY <2>1, <2>2
<1> QED BY <1>0, <1>1, <1>2, <1>3 DEF Residing

LEMMA OthersAre ==
  ASSUME NEW order, ResidentsInv(order, foregroundAdmitted), NEW s
  PROVE  Others(s, order) = foregroundAdmitted \ {s}
BY DEF Others, ResidentsInv

LEMMA EnsureCapacityStep ==
  ASSUME ResidencyInv, NEW c \in Callers, NEW e \in [Spaces -> Rememberings], NEW order,
         \A t \in Spaces : SameRuntime(entry[t], e[t]),
         ResidentsInv(order, foregroundAdmitted),
         fiber[c].pc \in {"enter", "capacity"}, EnsureCapacity(c, e, order),
         live' = live, BookInv'
  PROVE  ResidencyInv'
<1> DEFINE s == fiber[c].space
           victims == Victims(s, order)
           victim == LeastRecentlyUsed(victims, order)
<1>0. /\ FibersInv(fiber) /\ c \in Fibers /\ foregroundAdmitted \in SUBSET Spaces
      /\ Residing(entry, live, residents, foregroundAdmitted, fiber)
      /\ IsFiniteSet(foregroundAdmitted)
  BY Resided DEF Fibers
<1>1. /\ s \in Spaces /\ fiber[c].target = s /\ Loose(fiber[c]) /\ fiber[c].pc # "idle"
      /\ fiber[c].call = "use" /\ fiber[c].pc \in {"enter", "capacity", "deactivate"}
  BY <1>0, Activating
<1>2. Residing(e, live, order, foregroundAdmitted, fiber)
  <2>1. Calm(fiber, fiber)
    BY DEF Calm, Alike
  <2> QED BY <1>0, <2>1, ResidingOn
<1>3. Others(s, order) = foregroundAdmitted \ {s}
  BY OthersAre
<1>4. CASE /\ HasForegroundRuntime(s) /\ Proceed(c, e, order)
           /\ foregroundAdmitted' = foregroundAdmitted
  <2>1. s \in foregroundAdmitted
    BY <1>1, <1>4, ForegroundHasSlot
  <2>2. ResidentsInv(Ordered(c, order), foregroundAdmitted)
    BY <1>1, TouchedResidents DEF Ordered
  <2>3. Residing(e, live, Ordered(c, order), foregroundAdmitted, fiber)
    BY <1>2, <2>2 DEF Residing
  <2>4. Residing(entry', live, residents', foregroundAdmitted, fiber')
    BY <1>0, <1>4, <2>1, <2>3, ProceedStep
  <2> QED BY <1>4, <2>4, StillResiding
<1>5. CASE /\ ~HasForegroundRuntime(s) /\ Proceed(c, e, order)
           /\ Cardinality(Others(s, order)) < ForegroundSlots
           /\ foregroundAdmitted' = foregroundAdmitted \cup {s}
  <2>1. /\ ResidentsInv(Ordered(c, order), foregroundAdmitted)
        /\ s \in ToSet(Ordered(c, order))
    BY <1>1, TouchedResidents DEF Ordered
  <2>2. Residing(e, live, Ordered(c, order), foregroundAdmitted, fiber)
    BY <1>2, <2>1 DEF Residing
  <2>3. Residing(e, live, Ordered(c, order), foregroundAdmitted \cup {s}, fiber)
    BY <1>1, <1>3, <1>5, <2>1, <2>2, SlotTaken
  <2>4. Residing(entry', live, residents', foregroundAdmitted \cup {s}, fiber')
    <3>1. s \in foregroundAdmitted \cup {s}
      OBVIOUS
    <3> QED BY <1>0, <1>5, <2>3, <3>1, ProceedStep
  <2> QED BY <1>5, <2>4, StillResiding
<1>6. CASE /\ victims # {} /\ StartClosing(c, victim, e, order)
  <2>1. victims \subseteq ToSet(order) /\ order \in Seq(Spaces)
    BY DEF Victims, Others, ResidentsInv
  <2>2. victim \in victims
    <3> HIDE DEF victims
    <3> QED BY <1>6, <2>1, LeastIsIn
  <2>3. /\ victim \in Spaces /\ entry[victim].activation = "Active"
        /\ entry[victim].leases = 0
    BY <1>3, <2>2, <1>0 DEF Victims, Evictable
  <2> HIDE DEF victim, victims
  <2> QED BY <1>1, <1>6, <2>3, StartClosingStep
<1>7. CASE /\ fiber' = Goto(c, "withdraw") /\ entry' = e /\ residents' = order
           /\ foregroundAdmitted' = foregroundAdmitted
  <2>1. FibersInv(fiber') /\ Calm(fiber, fiber')
    BY <1>0, <1>1, <1>7, GotoLoosely DEF Points, EngagedPoints, WaitPoints, Suits
  <2>2. \A t \in Spaces : SameRuntime(e[t], e[t])
    BY SameEntries
  <2>3. Residing(e, live, order, foregroundAdmitted, fiber')
    BY <1>2, <2>1, <2>2, ResidingOn
  <2> QED BY <1>7, <2>3, StillResiding
<1>8. CASE /\ ~HasForegroundRuntime(s) /\ ~(Cardinality(Others(s, order)) < ForegroundSlots)
           /\ victims = {} /\ fiber' = Await(c, "awaitCapacity", "capacity")
           /\ entry' = e /\ residents' = order
           /\ foregroundAdmitted' = foregroundAdmitted
  <2>1. NoSlot(e, foregroundAdmitted, s)
    <3>1. ~(e[s].activation = "Active" /\ e[s].runtime = "foreground")
      BY <1>1, <1>8 DEF HasForegroundRuntime, Active, SameRuntime
    <3>2. Cardinality(foregroundAdmitted \ {s}) >= ForegroundSlots
      <4>1. IsFiniteSet(foregroundAdmitted \ {s})
        BY <1>0, FS_Subset
      <4>2. Cardinality(foregroundAdmitted \ {s}) \in Nat
        BY <4>1, FS_CardinalityType
      <4>3. ~(Cardinality(foregroundAdmitted \ {s}) < ForegroundSlots)
        BY <1>3, <1>8
      <4> QED BY <4>2, <4>3, CapacityAssumption
    <3>3. ASSUME NEW r \in foregroundAdmitted \ {s}
          PROVE  e[r].activation = "Active" => e[r].leases # 0
      <4>1. ~Evictable(r)
        BY <1>3, <1>8 DEF Victims
      <4> QED BY <1>0, <4>1 DEF Evictable, SameRuntime
    <3> QED BY <3>1, <3>2, <3>3 DEF NoSlot
  <2>2. /\ SpacesInv(e, live, foregroundAdmitted, fiber)
        /\ AwaitsInv(e, foregroundAdmitted, fiber)
    BY <1>2 DEF Residing
  <2>3. \A t \in Spaces : SameRuntime(e[t], e[t])
    BY SameEntries
  <2>4. /\ FibersInv(fiber') /\ SpacesInv(e, live, foregroundAdmitted, fiber')
        /\ AwaitsInv(e, foregroundAdmitted, fiber')
    BY <1>0, <1>1, <1>8, <2>1, <2>2, <2>3, AwaitBegun DEF WaitPoints
  <2>5. Residing(e, live, order, foregroundAdmitted, fiber')
    BY <2>4 DEF Residing
  <2> QED BY <1>8, <2>5, StillResiding
<1>9. \/ /\ HasForegroundRuntime(s) /\ Proceed(c, e, order)
         /\ foregroundAdmitted' = foregroundAdmitted
      \/ /\ ~HasForegroundRuntime(s) /\ Proceed(c, e, order)
         /\ Cardinality(Others(s, order)) < ForegroundSlots
         /\ foregroundAdmitted' = foregroundAdmitted \cup {s}
      \/ /\ victims # {} /\ StartClosing(c, victim, e, order)
      \/ /\ fiber' = Goto(c, "withdraw") /\ entry' = e /\ residents' = order
         /\ foregroundAdmitted' = foregroundAdmitted
      \/ /\ ~HasForegroundRuntime(s) /\ ~(Cardinality(Others(s, order)) < ForegroundSlots)
         /\ victims = {} /\ fiber' = Await(c, "awaitCapacity", "capacity")
         /\ entry' = e /\ residents' = order
         /\ foregroundAdmitted' = foregroundAdmitted
  BY DEF EnsureCapacity
<1> QED BY <1>4, <1>5, <1>6, <1>7, <1>8, <1>9

LEMMA EnterStep ==
  ASSUME ResidencyInv, NEW f \in Fibers, Enter(f)
  PROVE  ResidencyInv'
<1> DEFINE s == fiber[f].space
<1>0. /\ FibersInv(fiber) /\ entry \in [Spaces -> Rememberings]
      /\ ResidentsInv(residents, foregroundAdmitted)
      /\ Residing(entry, live, residents, foregroundAdmitted, fiber)
  BY SpaceEntriesAre, Resided
<1>1. s \in Spaces /\ fiber[f].pc \in {"enter", "capacity"}
  BY <1>0, Activating DEF Enter
<1>2. live' = live /\ BookInv'
  BY DEF Enter, storeVars, workVars, boundVars, ResidencyInv, BookInv
<1>3. CASE f \in Callers /\ ~HasForegroundRuntime(s)
  <2> DEFINE x == [entry[s] EXCEPT !.foreground = TRUE]
             e == [entry EXCEPT ![s] = x]
             order == Touch(residents, s)
  <2>1. x \in Rememberings /\ SameRuntime(entry[s], x)
    BY <1>0, <1>1, Noted
  <2>2. EnsureCapacity(f, e, order)
    BY <1>3 DEF Enter, Foreground
  <2> HIDE DEF x
  <2>3. e \in [Spaces -> Rememberings] /\ \A t \in Spaces : SameRuntime(entry[t], e[t])
    BY <1>0, <1>1, <2>1, EntryNoted
  <2>4. ResidentsInv(order, foregroundAdmitted)
    BY <1>0, <1>1, TouchedResidents
  <2> HIDE DEF e, order
  <2> QED BY <1>1, <1>2, <1>3, <2>2, <2>3, <2>4, EnsureCapacityStep
<1>4. CASE ~(f \in Callers /\ ~HasForegroundRuntime(s))
  <2>1. Proceed(f, entry, residents) /\ foregroundAdmitted' = foregroundAdmitted
    BY <1>4 DEF Enter, Foreground
  <2>2. f \in Callers => s \in foregroundAdmitted
    BY <1>1, <1>4, ForegroundHasSlot
  <2>3. ResidentsInv(Ordered(f, residents), foregroundAdmitted)
    BY <1>0, <1>1, TouchedResidents DEF Ordered
  <2>4. Residing(entry, live, Ordered(f, residents), foregroundAdmitted, fiber)
    BY <1>0, <2>3 DEF Residing
  <2>5. \A t \in Spaces : SameRuntime(entry[t], entry[t])
    BY SameEntries
  <2>6. Residing(entry', live, residents', foregroundAdmitted, fiber')
    BY <1>0, <1>1, <2>1, <2>2, <2>4, <2>5, ProceedStep
  <2> QED BY <1>2, <2>1, <2>6, StillResiding
<1> QED BY <1>3, <1>4

LEMMA AwaitedCapacityStep ==
  ASSUME ResidencyInv, NEW c \in Callers, AwaitedCapacity(c)
  PROVE  ResidencyInv'
<1>1. live' = live /\ BookInv'
  BY DEF AwaitedCapacity, storeVars, workVars, boundVars, ResidencyInv, BookInv
<1>2. fiber[c].pc \in {"enter", "capacity"} /\ EnsureCapacity(c, entry, residents)
  BY DEF AwaitedCapacity
<1>3. entry \in [Spaces -> Rememberings] /\ \A t \in Spaces : SameRuntime(entry[t], entry[t])
  BY SpaceEntriesAre, SameEntries
<1> QED BY <1>1, <1>2, <1>3, Resided, EnsureCapacityStep

LEMMA AcquireStep ==
  ASSUME ResidencyInv, NEW f \in Fibers, Acquire(f)
  PROVE  ResidencyInv'
<1> DEFINE s == fiber[f].space
<1>0. /\ FibersInv(fiber) /\ entry \in [Spaces -> Rememberings]
      /\ Residing(entry, live, residents, foregroundAdmitted, fiber)
  BY SpaceEntriesAre, Resided
<1>1. /\ s \in Spaces /\ fiber[f].pc \in {"enter", "capacity", "built"}
      /\ fiber[f].target = s /\ Loose(fiber[f]) /\ fiber[f].pc # "idle"
      /\ fiber[f].call \in {"use", "turn"}
  BY <1>0, Activating DEF Acquire
<1>2. live' = live /\ BookInv' /\ foregroundAdmitted' = foregroundAdmitted
  BY DEF Acquire, storeVars, workVars, boundVars, ResidencyInv, BookInv
<1>3. CASE Usable(f, s) /\ Lease(f, entry, residents)
  <2>1. /\ entry[s].activation = "Active" /\ entry[s].runtime # "none"
        /\ f \in Callers => entry[s].runtime = "foreground"
    BY <1>3 DEF Usable, Active, Foreground
  <2>2. Residing(entry', live, residents', foregroundAdmitted, fiber')
    BY <1>0, <1>1, <1>3, <2>1, LeaseStep
  <2> QED BY <1>2, <2>2, StillResiding
<1>4. CASE fiber' = Goto(f, "enter") /\ entry' = entry /\ residents' = residents
  <2>1. FibersInv(fiber') /\ Calm(fiber, fiber')
    BY <1>0, <1>1, <1>4, GotoLoosely DEF Points, EngagedPoints, WaitPoints, Suits
  <2> QED BY <1>0, <1>2, <1>4, <2>1, SameEntries, QuietStep
<1> QED BY <1>3, <1>4 DEF Acquire

LEMMA WithdrawStep ==
  ASSUME ResidencyInv, NEW c \in Callers, Withdraw(c)
  PROVE  ResidencyInv'
<1> DEFINE s == fiber[c].space
           fs == Done(c)
<1>0. /\ FibersInv(fiber) /\ entry \in [Spaces -> Rememberings] /\ c \in Fibers
      /\ ResidentsInv(residents, foregroundAdmitted) /\ PermitsInv(live)
      /\ live \in [Spaces -> Scopes]
  BY SpaceEntriesAre, Resided DEF Fibers, ResidencyInv
<1>1. s \in Spaces /\ fiber[c].pc = "withdraw" /\ Loose(fiber[c])
  BY <1>0, FiberRight DEF Withdraw, Loose, EngagedPoints
<1>2. /\ live' = live /\ pending' = pending /\ waits' = waits
      /\ calls' = calls /\ disturbances' = disturbances
  BY DEF Withdraw, storeVars, boundVars
<1>3. CASE fiber' = fs /\ UNCHANGED <<entry, slotVars, queue, retries>>
  <2>1. FibersInv(fiber') /\ Calm(fiber, fiber')
    BY <1>0, <1>1, <1>3, DoneLoosely
  <2>2. BookInv' /\ entry' = entry /\ residents' = residents /\ foregroundAdmitted' = foregroundAdmitted
    BY <1>2, <1>3 DEF slotVars, ResidencyInv, BookInv
  <2> QED BY <1>0, <1>2, <2>1, <2>2, SameEntries, QuietStep
<1>4. CASE /\ Wanting(s) = {c} /\ ~HasForegroundRuntime(s) /\ DropReservation(s)
           /\ ReturnToWorker(s, [entry EXCEPT ![s].foreground = FALSE], Signalled(fs))
  <2> DEFINE x == [entry[s] EXCEPT !.foreground = FALSE]
             e == [entry EXCEPT ![s] = x]
             gs == Signalled(fs)
             condition == Active(s) /\ entry[s].runtime = "background" /\ entry[s].leases = 0
  <2>1. x \in Rememberings /\ SameRuntime(entry[s], x)
    BY <1>0, <1>1, Noted
  <2>2. EnqueueIf(condition, s, e, gs)
    BY <1>4 DEF ReturnToWorker
  <2> HIDE DEF x, condition
  <2>3. e \in [Spaces -> Rememberings] /\ \A t \in Spaces : SameRuntime(entry[t], e[t])
    BY <1>0, <1>1, <2>1, EntryNoted
  <2> HIDE DEF e
  <2>4. FibersInv(fs) /\ Apart(c, fiber, fs) /\ fs[c].pc = "idle" /\ Loose(fs[c])
    BY <1>0, DoneMoves
  <2> HIDE DEF fs
  <2>5. FibersInv(gs) /\ Calm(fs, gs) /\ NoneAwaits(gs)
    BY <2>4, SignalledFibers
  <2> HIDE DEF gs
  <2>6. queue \in Seq(Spaces) /\ retries \subseteq Spaces
    BY DEF ResidencyInv, BookInv
  <2>7. /\ FibersInv(fiber') /\ Calm(gs, fiber')
        /\ entry' \in [Spaces -> Rememberings] /\ \A t \in Spaces : SameRuntime(e[t], entry'[t])
        /\ queue' \in Seq(Spaces) /\ retries' \subseteq Spaces
    BY <1>1, <2>2, <2>3, <2>5, <2>6, Enqueued
  <2>8. Calm(fs, fiber') /\ NoneAwaits(fiber')
    BY <2>5, <2>7, CalmIsTransitive, CalmKeepsNoneAwaiting
  <2>9. /\ residents' = RemoveFirst(residents, s)
        /\ foregroundAdmitted' = foregroundAdmitted \ {s}
    BY <1>4 DEF DropReservation
  <2>10. ResidentsInv(residents', foregroundAdmitted')
    BY <1>0, <1>1, <2>9, DroppedReservation
  <2>11. SpaceInv(e[s], live[s], foregroundAdmitted', fs, s)
    <3>1. SpacesInv(entry, live, foregroundAdmitted, fiber)
      BY DEF ResidencyInv
    <3>2. SpacesInv(e, live, foregroundAdmitted, fs)
      BY <1>0, <1>1, <2>3, <2>4, <3>1, LooseSpaces
    <3>3. SpaceInv(e[s], live[s], foregroundAdmitted, fs, s)
      BY <1>1, <3>2 DEF SpacesInv
    <3>4. ~(e[s].activation = "Active" /\ e[s].runtime = "foreground")
      BY <1>1, <1>4, <2>3 DEF HasForegroundRuntime, Active, SameRuntime
    <3>5. \A g \in Callers : ~Opens(fs[g], s)
      <4>1. ASSUME NEW g \in Callers, g # c, Opens(fiber[g], s)
            PROVE  FALSE
        <5>1. g \in Fibers /\ fiber[g].pc \in {"retire", "open", "build"} /\ fiber[g].space = s
          BY <4>1 DEF Fibers, Opens
        <5>2. fiber[g].call = "use"
          <6>1. fiber[g].call \in {"use", "turn"}
            BY <1>0, <5>1, FiberRight DEF Rightly, RightPlace
          <6> QED BY <1>0, <5>1, <6>1, IsCaller
        <5>3. g \in Wanting(s)
          BY <5>1, <5>2 DEF Wanting
        <5> QED BY <1>4, <4>1, <5>3
      <4>2. \A g \in Callers : g # c => (Opens(fs[g], s) => Opens(fiber[g], s))
        BY <2>4 DEF Apart, Alike, Opens, Fibers
      <4>3. ~Opens(fs[c], s)
        BY <2>4 DEF Opens
      <4> QED BY <4>1, <4>2, <4>3
    <3> QED BY <3>3, <3>4, <3>5, ReservationDropped
  <2>12. /\ live' \in [Spaces -> Scopes] /\ PermitsInv(live')
         /\ \A t \in Spaces : t # s =>
              live'[t] = live[t] /\ (t \in foregroundAdmitted => t \in foregroundAdmitted')
         /\ SpaceInv(e[s], live'[s], foregroundAdmitted', fs, s)
    BY <1>0, <1>2, <2>9, <2>11
  <2>13. Moving(e[s]) \/ ~Moving(entry[s])
    BY <1>1, <2>3 DEF SameRuntime, Moving
  <2>14. BookInv'
    BY <1>2, <2>7 DEF ResidencyInv, BookInv
  <2>15. fs[c].pc \notin WaitPoints
    BY <2>4 DEF WaitPoints
  <2> HIDE DEF s
  <2> QED BY <1>0, <1>1, <2>3, <2>4, <2>7, <2>8, <2>10, <2>12, <2>13, <2>14, <2>15, WokenStep
<1> QED BY <1>3, <1>4 DEF Withdraw

LEMMA QueuedAtStart ==
  ASSUME NEW S, IsFiniteSet(S)
  PROVE  SetToSeq(S) \in Seq(S)
<1>1. Cardinality(S) \in Nat /\ ExistsBijection(1 .. Cardinality(S), S)
  BY FS_CardinalityType
<1>2. PICK f \in [1 .. Cardinality(S) -> S] : IsInjective(f)
  BY <1>1 DEF ExistsBijection, Bijection, Injection
<1>3. SetToSeq(S) \in [1 .. Cardinality(S) -> S]
  BY <1>2 DEF SetToSeq
<1> QED BY <1>1, <1>3

LEMMA RestsAtFirst ==
  ASSUME ResidencyInit
  PROVE  ResidencyInv
<1>1. \A f \in Fibers : fiber[f] = IdleFiber
  BY DEF ResidencyInit
<1>2. FibersInv(fiber)
  <2>1. \A f \in Fibers : Rightly(f, fiber[f])
    BY <1>1, IdleRight
  <2>2. \A f \in Fibers : fiber[f] \in FiberStates
    BY <2>1 DEF Rightly
  <2>3. fiber = [f \in Fibers |-> fiber[f]]
    BY DEF ResidencyInit
  <2> QED BY <2>1, <2>2, <2>3 DEF FibersInv
<1>3. \A f \in Fibers : fiber[f].pc = "idle"
  BY <1>1 DEF IdleFiber
<1>4. SpacesInv(entry, live, foregroundAdmitted, fiber)
  <2>1. Remembered \in Rememberings
    BY DEF Remembered, Rememberings
  <2>2. entry \in [Spaces -> Rememberings] /\ live \in [Spaces -> Scopes]
    BY <2>1 DEF ResidencyInit, Scopes
  <2>3. ASSUME NEW s \in Spaces
        PROVE  SpaceInv(entry[s], live[s], foregroundAdmitted, fiber, s)
    <3>1. /\ entry[s].leases = 0 /\ entry[s].activation = "Inactive" /\ live[s] = "none"
      BY DEF ResidencyInit, Remembered
    <3>2. Holders(fiber, s) = {}
      BY <1>3 DEF Holders
    <3>3. \A f \in Fibers : ~Opens(fiber[f], s) /\ ~Closes(fiber[f], s) /\ ~Reads(fiber[f], s)
      BY <1>3 DEF Opens, Closes, Reads
    <3>4. CountInv(entry[s], fiber, s) /\ HolderInv(entry[s], fiber, s)
      BY <3>1, <3>2, FS_EmptySet DEF CountInv, HolderInv
    <3>5. TransitionInv(entry[s], fiber, s) /\ ScopeInv(entry[s], live[s], fiber, s)
      BY <3>1, <3>3 DEF TransitionInv, ScopeInv, Moves
    <3>6. ReaderInv(live[s], fiber, s) /\ SlotInv(entry[s], foregroundAdmitted, fiber, s)
      BY <3>1, <3>3 DEF ReaderInv, SlotInv, Fibers
    <3> QED BY <3>4, <3>5, <3>6 DEF SpaceInv
  <2> QED BY <2>2, <2>3 DEF SpacesInv
<1>5. PermitsInv(live)
  <2>1. InBackground(live) = {}
    BY DEF ResidencyInit, InBackground
  <2> QED BY <2>1, FS_EmptySet, CapacityAssumption DEF PermitsInv
<1>6. ResidentsInv(residents, foregroundAdmitted)
  <2>1. residents = <<>> /\ foregroundAdmitted = {}
    BY DEF ResidencyInit
  <2>2. residents \in Seq(Spaces) /\ NoneTwice(residents)
    BY <2>1 DEF NoneTwice
  <2> QED BY <2>1, <2>2, FS_EmptySet, CapacityAssumption DEF ResidentsInv
<1>7. AwaitsInv(entry, foregroundAdmitted, fiber)
  BY <1>3 DEF AwaitsInv, FiberAwaits
<1>8. BookInv
  <2>1. queue \in Seq(Restored)
    BY QueuedAtStart, BoundsAssumption DEF ResidencyInit
  <2>2. queue \in Seq(Spaces)
    BY <2>1, BoundsAssumption
  <2> QED BY <2>2, BoundsAssumption DEF ResidencyInit, BookInv
<1> QED BY <1>2, <1>4, <1>5, <1>6, <1>7, <1>8 DEF ResidencyInv

LEMMA ResidencyStep ==
  ASSUME ResidencyInv, ResidencyNext
  PROVE  ResidencyInv'
<1>0. Callers \subseteq Fibers /\ Workers \subseteq Fibers
  BY DEF Fibers
<1>1. ASSUME NEW f \in Fibers, Step(f)
      PROVE  ResidencyInv'
  BY <1>1, TurnedAwayStep, EnterStep, OpenScopeStep, BuiltStep, AcquireStep, CloseStep,
     CountStep DEF Step
<1>2. ASSUME NEW c \in Callers, CallerStep(c)
      PROVE  ResidencyInv'
  BY <1>0, <1>1, <1>2, AwaitedCapacityStep, RetireStep, UseStep, ReadStep, WithdrawStep,
     DeactivateStep, DeleteStep, UndoStep DEF CallerStep
<1>3. ASSUME NEW w \in Workers, WorkerStep(w)
      PROVE  ResidencyInv'
  BY <1>0, <1>1, <1>3, TakeWorkStep, SyncStep, SettleStep DEF WorkerStep
<1>4. ASSUME NEW s \in Spaces, Retry(s) \/ Renew(s) \/ ForegroundSync(s)
      PROVE  ResidencyInv'
  BY <1>4, RetryStep, RenewStep, ForegroundSyncStep
<1>5. ASSUME Outside
      PROVE  ResidencyInv'
  BY <1>5, CallStep, InterruptStep, DeleteFailsStep, SyncStep, BuildFailsStep DEF Outside
<1> QED BY <1>2, <1>3, <1>4, <1>5 DEF ResidencyNext

LEMMA StutteringResides ==
  ASSUME ResidencyInv, UNCHANGED residencyVars
  PROVE  ResidencyInv'
<1>1. /\ entry' = entry /\ live' = live /\ residents' = residents /\ fiber' = fiber
      /\ foregroundAdmitted' = foregroundAdmitted
  BY DEF residencyVars, storeVars, slotVars
<1>2. BookInv'
  BY DEF residencyVars, storeVars, workVars, boundVars, ResidencyInv, BookInv
<1> QED BY <1>1, <1>2 DEF ResidencyInv

\* The inductive invariant of the residency of spaces: what a fiber is at, what
\* is counted of a space, and what is awaited agree (SqlReplica.layer).
THEOREM ResidencyInvariance == ResidencySpec => []ResidencyInv
<1>1. ResidencyInit => ResidencyInv
  BY RestsAtFirst
<1>2. ResidencyInv /\ [ResidencyNext]_residencyVars => ResidencyInv'
  BY ResidencyStep, StutteringResides
<1> QED BY <1>1, <1>2, PTL DEF ResidencySpec

\* What is in use stays open.
InUseIsOpen ==
  \A f \in Fibers :
    LET s == fiber[f].space
    IN /\ fiber[f].pc \in {"use", "sync"} =>
            /\ Active(s) /\ live[s] = entry[s].runtime
            /\ Foreground(f) => HasForegroundRuntime(s)
       /\ fiber[f].pc = "read" => live[s] # "none"

LeasesAreCounted ==
  \A s \in Spaces :
    /\ IsFiniteSet(Holders(fiber, s))
    /\ entry[s].leases = Cardinality(Holders(fiber, s))

\* Under every interleaving of calls, evictions, leaves and background turns,
\* the runtime that an operation or a turn has leased is the one that is open,
\* that of a page read is not closed before the read ends, and the lease count
\* of an entry is the number of fibers that use its runtime: none is leaked by
\* a failure or an interruption, and none is released twice.
THEOREM RuntimesInUseStayOpen == ResidencySpec => []InUseIsOpen /\ []LeasesAreCounted
<1>1. ResidencyInv => InUseIsOpen
  <2> SUFFICES ASSUME ResidencyInv, NEW f \in Fibers
               PROVE  LET s == fiber[f].space
                      IN /\ fiber[f].pc \in {"use", "sync"} =>
                              /\ Active(s) /\ live[s] = entry[s].runtime
                              /\ Foreground(f) => HasForegroundRuntime(s)
                         /\ fiber[f].pc = "read" => live[s] # "none"
    BY DEF InUseIsOpen
  <2> DEFINE s == fiber[f].space
  <2>1. FibersInv(fiber)
    BY DEF ResidencyInv
  <2>2. ASSUME fiber[f].pc \in {"use", "sync"}
        PROVE  /\ Active(s) /\ live[s] = entry[s].runtime
               /\ Foreground(f) => HasForegroundRuntime(s)
    <3>1. s \in Spaces /\ f \in Holders(fiber, s)
      BY <2>1, <2>2, FiberRight DEF Holders
    <3>2. SpaceInv(entry[s], live[s], foregroundAdmitted, fiber, s)
      BY <3>1, SpaceEntriesAre
    <3> QED BY <3>1, <3>2 DEF SpaceInv, HolderInv, ScopeInv, Active, HasForegroundRuntime, Foreground
  <2>3. ASSUME fiber[f].pc = "read"
        PROVE  live[s] # "none"
    <3>1. s \in Spaces /\ Reads(fiber[f], s)
      BY <2>1, <2>3, FiberRight DEF Reads
    <3>2. SpaceInv(entry[s], live[s], foregroundAdmitted, fiber, s)
      BY <3>1, SpaceEntriesAre
    <3> QED BY <3>1, <3>2 DEF SpaceInv, ReaderInv
  <2> QED BY <2>2, <2>3
<1>2. ResidencyInv => LeasesAreCounted
  BY SpaceEntriesAre DEF LeasesAreCounted, SpaceInv, CountInv
<1> QED BY <1>1, <1>2, ResidencyInvariance, PTL

\* A space is opened, retired or closed by one fiber at a time.
OneTransition ==
  \A s \in Spaces, f, g \in Fibers : Moves(fiber[f], s) /\ Moves(fiber[g], s) => f = g

\* No two fibers ever build, replace or close the runtime of one space at the
\* same time, whichever calls, evictions and turns meet.
THEOREM TransitionsAreSingle == ResidencySpec => []OneTransition
<1>1. ResidencyInv => OneTransition
  BY SpaceEntriesAre DEF OneTransition, SpaceInv, TransitionInv
<1> QED BY <1>1, ResidencyInvariance, PTL

WithinCapacity ==
  /\ Cardinality({s \in Spaces : HasForegroundRuntime(s)}) <= ForegroundSlots
  /\ Cardinality({s \in Spaces : live[s] = "background"}) <= BackgroundSlots

\* At most foregroundActiveSpaces spaces are active in the foreground, and the
\* background runtimes that are open, the ones being built or closed included,
\* stay within the permits of their semaphore.
THEOREM CapacityIsKept == ResidencySpec => []WithinCapacity
<1>1. ResidencyInv => WithinCapacity
  <2> SUFFICES ASSUME ResidencyInv
               PROVE  WithinCapacity
    OBVIOUS
  <2> DEFINE A == {s \in Spaces : HasForegroundRuntime(s)}
  <2>1. A \subseteq foregroundAdmitted
    BY ForegroundHasSlot
  <2>2. IsFiniteSet(foregroundAdmitted) /\ Cardinality(foregroundAdmitted) <= ForegroundSlots
    BY DEF ResidencyInv, ResidentsInv
  <2> HIDE DEF A
  <2>3. /\ Cardinality(A) <= Cardinality(foregroundAdmitted)
        /\ Cardinality(A) \in Nat /\ Cardinality(foregroundAdmitted) \in Nat
    <3>1. IsFiniteSet(A) /\ Cardinality(A) <= Cardinality(foregroundAdmitted)
      BY <2>1, <2>2, FS_Subset
    <3> QED BY <2>2, <3>1, FS_CardinalityType
  <2>4. Cardinality(A) <= ForegroundSlots
    BY <2>2, <2>3, CapacityAssumption
  <2>5. Cardinality(InBackground(live)) <= BackgroundSlots
    BY DEF ResidencyInv, PermitsInv
  <2> QED BY <2>4, <2>5 DEF WithinCapacity, InBackground, A
<1> QED BY <1>1, ResidencyInvariance, PTL

\* What a fiber waits for is still owed by another one.
EveryWakeupIsOwed ==
  \A f \in Fibers :
    LET r == fiber[f]
    IN /\ r.pc = "awaitTransition" => \E g \in Fibers : Moves(fiber[g], r.space)
       /\ r.pc = "awaitCapacity" /\ r.then # "capacity" =>
            \E g \in Fibers : fiber[g].pc \in {"use", "sync"} /\ fiber[g].space = r.space
       /\ r.pc = "awaitCapacity" /\ r.then = "capacity" =>
            /\ ~HasForegroundRuntime(r.space)
            /\ Cardinality(foregroundAdmitted \ {r.space}) >= ForegroundSlots
            /\ \A v \in foregroundAdmitted \ {r.space} : ~Evictable(v)

\* No wakeup is lost, for any number of spaces, slots and fibers: while a fiber
\* waits for a transition, a fiber is in the middle of it; while it waits for
\* the leases of a runtime, one is still held; and while it waits for a slot,
\* all of them are taken by other spaces and none of those may be evicted
\* (every step that makes one free signals capacity).
THEOREM WakeupsAreOwed == ResidencySpec => []EveryWakeupIsOwed
<1>1. ResidencyInv => EveryWakeupIsOwed
  <2> SUFFICES ASSUME ResidencyInv, NEW f \in Fibers
               PROVE  LET r == fiber[f]
                      IN /\ r.pc = "awaitTransition" => \E g \in Fibers : Moves(fiber[g], r.space)
                         /\ r.pc = "awaitCapacity" /\ r.then # "capacity" =>
                              \E g \in Fibers :
                                fiber[g].pc \in {"use", "sync"} /\ fiber[g].space = r.space
                         /\ r.pc = "awaitCapacity" /\ r.then = "capacity" =>
                              /\ ~HasForegroundRuntime(r.space)
                              /\ Cardinality(foregroundAdmitted \ {r.space}) >= ForegroundSlots
                              /\ \A v \in foregroundAdmitted \ {r.space} : ~Evictable(v)
    BY DEF EveryWakeupIsOwed
  <2> DEFINE s == fiber[f].space
  <2>1. FiberAwaits(entry, foregroundAdmitted, fiber[f]) /\ FibersInv(fiber)
    BY DEF ResidencyInv, AwaitsInv
  <2>2. ASSUME fiber[f].pc \in WaitPoints
        PROVE  s \in Spaces /\ SpaceInv(entry[s], live[s], foregroundAdmitted, fiber, s)
    <3>1. s \in Spaces
      BY <2>1, <2>2, FiberRight DEF WaitPoints
    <3> QED BY <3>1, SpaceEntriesAre
  <2>3. ASSUME fiber[f].pc = "awaitTransition"
        PROVE  \E g \in Fibers : Moves(fiber[g], s)
    <3>1. Moving(entry[s]) /\ SpaceInv(entry[s], live[s], foregroundAdmitted, fiber, s)
      BY <2>1, <2>2, <2>3 DEF FiberAwaits, WaitPoints
    <3> QED BY <3>1 DEF SpaceInv, TransitionInv, Moving, Moves
  <2>4. ASSUME fiber[f].pc = "awaitCapacity", fiber[f].then # "capacity"
        PROVE  \E g \in Fibers : fiber[g].pc \in {"use", "sync"} /\ fiber[g].space = s
    <3>1. entry[s].leases > 0 /\ SpaceInv(entry[s], live[s], foregroundAdmitted, fiber, s)
      BY <2>1, <2>2, <2>4 DEF FiberAwaits, WaitPoints
    <3>2. Holders(fiber, s) # {}
      BY <3>1, FS_EmptySet DEF SpaceInv, CountInv
    <3> QED BY <3>2 DEF Holders
  <2>5. ASSUME fiber[f].pc = "awaitCapacity", fiber[f].then = "capacity"
        PROVE  /\ ~HasForegroundRuntime(s)
               /\ Cardinality(foregroundAdmitted \ {s}) >= ForegroundSlots
               /\ \A v \in foregroundAdmitted \ {s} : ~Evictable(v)
    <3>1. NoSlot(entry, foregroundAdmitted, s)
      BY <2>1, <2>5 DEF FiberAwaits
    <3> QED BY <3>1 DEF NoSlot, HasForegroundRuntime, Active, Evictable
  <2> QED BY <2>3, <2>4, <2>5
<1> QED BY <1>1, ResidencyInvariance, PTL

(***************************************************************************)
(* Scoped replication.  The proofs from here on use its assumptions.       *)
(***************************************************************************)
USE ReplicationAssumption, NoneAssumption

(***************************************************************************)
(* The values of the variables, with the loop and its messages spelled     *)
(* out.                                                                    *)
(***************************************************************************)
Errors == [tag : Refusals \cup {"AuthorizationDenied"}]

Offers == [tag : {"BootstrapRequired"}, manifest : Manifests]

SnapshotPages ==
  [tag : {"BootstrapPage"}, manifest : Manifests, after : Nat,
   entries : Partial(Keys, Values), more : BOOLEAN]

PullPages ==
  [tag : {"PullPage"}, view : Nat, revision : Nat, generation : Nat, sequence : Nat,
   changes : Partial(Keys, ChangeSet), more : BOOLEAN]

Messages == Errors \cup Offers \cup SnapshotPages \cup PullPages

Places == {"idle", "pull", "waiting", "received", "prepare", "bootstrap", "install"}

Turns ==
  [at : Places, pass : 1 .. 2, manifest : Optional(Manifests), after : Nat,
   reply : Optional(Messages)]

LoopInv ==
  /\ turn \in Turns
  /\ turn.at \in {"prepare", "bootstrap", "install"} => turn.manifest \in Manifests
  /\ turn.at = "received" => turn.reply \in Messages

(***************************************************************************)
(* The server.  View and snapshot are made together; the outstanding page  *)
(* is the next revision of the view; until a page has been acknowledged    *)
(* the view holds the snapshot.  What a page inserts exists.               *)
(***************************************************************************)
Inserts(changes) ==
  \A k \in DOMAIN changes : changes[k].tag = "Upsert" => changes[k].value # Absent

ServerInv ==
  /\ view # None =>
       /\ snapshot \in SnapshotRecords
       /\ snapshot.id = view.id /\ snapshot.view = view.id /\ view.id < nextId
       /\ view.revision = 0 => view.content = snapshot.content
       /\ page = None => view.revision = 0
  /\ page # None =>
       /\ view # None
       /\ page.view = view.id /\ page.base = view.revision /\ page.target = view.revision + 1
       /\ Inserts(page.changes)
  /\ snapshot # None => view # None

(***************************************************************************)
(* What is said about the server's view by cursors, manifests, entries and *)
(* pages that the client holds or that are on their way.  Nobody knows a   *)
(* view that has not been made, and of earlier views nothing is claimed.   *)
(***************************************************************************)
Current(id) == view # None /\ id = view.id

Top == IF page = None THEN view.revision ELSE page.target

KnownCursor(c) ==
  c # None => c.view < nextId /\ (Current(c.view) => c.revision <= Top)

KnownManifest(m) ==
  m.view < nextId /\ (Current(m.view) => m = Manifest(snapshot))

KnownEntries(m, entries) ==
  Current(m.view) => \A k \in DOMAIN entries :
                       entries[k] = snapshot.content[k] /\ entries[k] # Absent

(* A page the client has yet to apply is the outstanding one, or one that  *)
(* was acknowledged meanwhile by a request from before.                    *)
KnownPage(m) ==
  /\ m.view < nextId
  /\ Current(m.view) =>
       /\ m.revision <= Top
       /\ m.revision = view.revision + 1 => m.changes = page.changes
       /\ m.revision = view.revision /\ cursor = [view |-> m.view, revision |-> m.revision - 1] =>
            Apply(canonical, m.changes) = view.content

KnownReply(m) ==
  /\ m.tag = "PullPage" => KnownPage(m)
  /\ m.tag \in {"BootstrapRequired", "BootstrapPage"} => KnownManifest(m.manifest)
  /\ m.tag = "BootstrapPage" => KnownEntries(m.manifest, m.entries)

ClientInv ==
  /\ KnownCursor(cursor)
  /\ \A r \in wire : KnownCursor(r.cursor)
  /\ turn.manifest # None => KnownManifest(turn.manifest)
  /\ stage # None => KnownManifest(stage.manifest) /\ KnownEntries(stage.manifest, stage.entries)
  /\ turn.at = "received" => KnownReply(turn.reply)

IndInv == TypeOK /\ LoopInv /\ ServerInv /\ ClientInv /\ ViewAgrees

-----------------------------------------------------------------------------
(***************************************************************************)
(* Partial functions, contents and changes.                                *)
(***************************************************************************)
LEMMA PartialIs ==
  ASSUME NEW S, NEW T, NEW f
  PROVE  f \in Partial(S, T) <=> \E D \in SUBSET S : f \in [D -> T]
  BY DEF Partial

LEMMA PartialHas ==
  ASSUME NEW S, NEW T, NEW f \in Partial(S, T)
  PROVE  DOMAIN f \subseteq S /\ \A x \in DOMAIN f : f[x] \in T
  BY PartialIs

LEMMA LowestIn ==
  ASSUME NEW S, NEW n
  PROVE  Lowest(S, n) \subseteq S
  BY DEF Lowest

LEMMA Counted ==
  ASSUME NEW S \in SUBSET Keys
  PROVE  IsFiniteSet(S) /\ Cardinality(S) \in Nat
  BY FS_Subset, FS_CardinalityType

LEMMA Applied ==
  ASSUME NEW content \in Contents, NEW changes \in Partial(Keys, ChangeSet)
  PROVE  Apply(content, changes) \in Contents
<1>1. \A k \in DOMAIN changes : changes[k] \in ChangeSet
  BY PartialHas
<1>2. \A k \in DOMAIN changes : changes[k].value \in Values \cup {Absent}
  BY <1>1 DEF ChangeSet
<1> QED BY <1>2 DEF Apply, Contents

LEMMA Seen ==
  ASSUME TypeOK, NEW scope \in SUBSET Keys
  PROVE  /\ Visible(scope) \in Contents
         /\ \A k \in Keys : Visible(scope)[k] # Absent =>
              k \in readable /\ Visible(scope)[k] = entities[k]
  BY DEF TypeOK, Visible, Contents

\* What a delta or a full comparison inserts is readable and current.
LEMMA Derived ==
  ASSUME TypeOK, NEW v \in Views, NEW scope \in SUBSET Keys
  PROVE  /\ NextChanges(v, scope) \in Partial(Keys, ChangeSet)
         /\ \A k \in DOMAIN NextChanges(v, scope) : NextChanges(v, scope)[k].tag = "Upsert" =>
              /\ k \in readable /\ entities[k] # Absent
              /\ NextChanges(v, scope)[k].value = entities[k]
<1> DEFINE True(k, c) == c.tag = "Upsert" =>
                           k \in readable /\ entities[k] # Absent /\ c.value = entities[k]
<1>1. ASSUME NEW k \in Keys
      PROVE  Change(k, scope) \in ChangeSet /\ True(k, Change(k, scope))
  BY Seen DEF Change, ChangeSet, Upsert, Retract, Delete, TypeOK, Contents
<1>2. ASSUME NEW k \in Keys
      PROVE  Retract \in ChangeSet /\ True(k, Retract)
  BY DEF Retract, ChangeSet
<1>3. /\ Diff(v.content, scope) \in Partial(Keys, ChangeSet)
      /\ \A k \in DOMAIN Diff(v.content, scope) : True(k, Diff(v.content, scope)[k])
  <2> DEFINE D == {j \in Keys : v.content[j] # Visible(scope)[j]}
  <2>1. D \in SUBSET Keys /\ Diff(v.content, scope) = [k \in D |-> Change(k, scope)]
    BY DEF Diff
  <2> HIDE DEF D, True
  <2>2. Diff(v.content, scope) \in [D -> ChangeSet]
    BY <1>1, <2>1
  <2>3. Diff(v.content, scope) \in Partial(Keys, ChangeSet)
    BY <2>1, <2>2, PartialIs
  <2>4. \A k \in D : Diff(v.content, scope)[k] = Change(k, scope)
    BY <2>1
  <2>5. DOMAIN Diff(v.content, scope) = D
    BY <2>1
  <2>6. \A k \in D : True(k, Change(k, scope))
    BY <1>1, <2>1
  <2> QED BY <2>3, <2>4, <2>5, <2>6
<1>4. /\ Delta(v, scope) \in Partial(Keys, ChangeSet)
      /\ \A k \in DOMAIN Delta(v, scope) : True(k, Delta(v, scope)[k])
  <2> DEFINE D == DeltaKeys(v, scope)
             change(k) == IF k \in Written(v) THEN Change(k, scope) ELSE Retract
  <2>1. D \in SUBSET Keys
    BY DEF DeltaKeys, Present
  <2>2. Delta(v, scope) = [k \in D |-> change(k)]
    BY DEF Delta
  <2>3. \A k \in D : change(k) \in ChangeSet /\ True(k, change(k))
    BY <1>1, <1>2, <2>1
  <2> HIDE DEF D, True, change
  <2>4. Delta(v, scope) \in [D -> ChangeSet]
    BY <2>2, <2>3
  <2>5. Delta(v, scope) \in Partial(Keys, ChangeSet)
    BY <2>1, <2>4, PartialIs
  <2>6. \A k \in D : Delta(v, scope)[k] = change(k)
    BY <2>2
  <2>7. DOMAIN Delta(v, scope) = D
    BY <2>2
  <2> QED BY <2>3, <2>5, <2>6, <2>7
<1> QED BY <1>3, <1>4 DEF NextChanges

LEMMA NextPageIs ==
  ASSUME TypeOK, NEW v \in Views, NEW r \in Requests
  PROVE  /\ NextPage(r, v) \in Pages /\ NextPage(r, v) # None
         /\ NextPage(r, v).view = v.id /\ NextPage(r, v).base = v.revision
         /\ NextPage(r, v).target = v.revision + 1
         /\ \A k \in DOMAIN NextPage(r, v).changes : NextPage(r, v).changes[k].tag = "Upsert" =>
              /\ k \in readable /\ entities[k] # Absent
              /\ NextPage(r, v).changes[k].value = entities[k]
<1> DEFINE changes == NextChanges(v, r.scope)
           D == Lowest(DOMAIN changes, PageSize)
           some == [k \in D |-> changes[k]]
<1>1. NextPage(r, v) =
        [view |-> v.id, base |-> v.revision, target |-> v.revision + 1,
         generation |-> r.generation, scope |-> r.scope, sequence |-> Latest,
         changes |-> some, more |-> D # DOMAIN changes, epoch |-> epoch]
  BY DEF NextPage
<1>2. /\ r.scope \in SUBSET Keys /\ r.generation \in Nat /\ Latest \in Nat /\ epoch \in Nat
      /\ v.id \in Nat /\ v.revision \in Nat
  BY DEF Requests, Views, TypeOK, Latest
<1>3. /\ changes \in Partial(Keys, ChangeSet)
      /\ \A k \in DOMAIN changes : changes[k].tag = "Upsert" =>
           k \in readable /\ entities[k] # Absent /\ changes[k].value = entities[k]
  BY <1>2, Derived
<1>4. D \subseteq DOMAIN changes
  BY LowestIn
<1> HIDE DEF changes, D
<1>5. D \in SUBSET Keys /\ some \in [D -> ChangeSet]
  BY <1>3, <1>4, PartialHas
<1>6. some \in Partial(Keys, ChangeSet)
  BY <1>5, PartialIs
<1>7. \A k \in DOMAIN some : some[k].tag = "Upsert" =>
        k \in readable /\ entities[k] # Absent /\ some[k].value = entities[k]
  BY <1>3, <1>4
<1> HIDE DEF some
<1>8. NextPage(r, v) \in Pages
  BY <1>1, <1>2, <1>6 DEF Pages
<1> QED BY <1>1, <1>7, <1>8

LEMMA AcknowledgedIs ==
  ASSUME TypeOK, view # None
  PROVE  /\ AcknowledgedView \in Views /\ AcknowledgedView.id = view.id
         /\ page = None => AcknowledgedView = view
         /\ page # None => /\ AcknowledgedView.revision = page.target
                           /\ AcknowledgedView.content = Apply(view.content, page.changes)
<1>1. view \in Views
  BY DEF TypeOK, Optional
<1>2. CASE page = None
  BY <1>1, <1>2 DEF AcknowledgedView
<1>3. CASE page # None
  <2>1. page \in Pages
    BY <1>3 DEF TypeOK, Optional
  <2> DEFINE v == [view EXCEPT !.revision = page.target, !.server = page.sequence,
                               !.content = Apply(view.content, page.changes)]
             w == [v EXCEPT !.generation = page.generation, !.scope = page.scope,
                            !.delivered = page.sequence, !.epoch = page.epoch]
  <2>2. Apply(view.content, page.changes) \in Contents
    BY <1>1, <2>1, Applied DEF Views, Pages
  <2>3. AcknowledgedView = IF page.more THEN v ELSE w
    BY <1>3 DEF AcknowledgedView
  <2>4. /\ page.target \in Nat /\ page.sequence \in Nat /\ page.generation \in Nat
        /\ page.scope \in SUBSET Keys /\ page.epoch \in Nat
    BY <2>1 DEF Pages
  <2>5. /\ v \in Views /\ v.id = view.id /\ v.revision = page.target
        /\ v.content = Apply(view.content, page.changes)
    BY <1>1, <2>2, <2>4 DEF Views
  <2> HIDE DEF v
  <2>6. w \in Views /\ w.id = v.id /\ w.revision = v.revision /\ w.content = v.content
    BY <2>4, <2>5 DEF Views
  <2> QED BY <1>3, <2>3, <2>5, <2>6
<1> QED BY <1>2, <1>3

LEMMA ManifestIs ==
  ASSUME NEW s \in SnapshotRecords
  PROVE  /\ Manifest(s) \in Manifests /\ Manifest(s).view = s.view
         /\ Manifest(s).count = Cardinality(Present(s.content))
<1>1. Cardinality(Present(s.content)) \in Nat
  BY Counted DEF Present
<1> QED BY <1>1 DEF Manifest, Manifests, SnapshotRecords

LEMMA FreshIs ==
  ASSUME TypeOK, NEW r \in Requests
  PROVE  /\ FreshSnapshot(r) \in SnapshotRecords
         /\ FreshSnapshot(r).view = nextId /\ FreshSnapshot(r).content = Visible(r.scope)
<1>1. r.scope \in SUBSET Keys /\ r.generation \in Nat /\ Latest \in Nat
  BY DEF Requests, TypeOK, Latest
<1>2. Visible(r.scope) \in Contents
  BY <1>1, Seen
<1> QED BY <1>1, <1>2 DEF FreshSnapshot, SnapshotRecords, TypeOK

\* The entries of a page of a snapshot are entities of the snapshot.
LEMMA EntriesAre ==
  ASSUME NEW content \in Contents, NEW after \in Nat
  PROVE  /\ EntriesAfter(content, after) \in Partial(Keys, Values)
         /\ \A k \in DOMAIN EntriesAfter(content, after) :
              k \in Keys /\ EntriesAfter(content, after)[k] = content[k] /\ content[k] # Absent
<1> DEFINE D == Lowest(Present(content), after + PageSize) \ Lowest(Present(content), after)
<1>1. D \subseteq Present(content) /\ EntriesAfter(content, after) = [k \in D |-> content[k]]
  BY LowestIn DEF EntriesAfter
<1>2. D \in SUBSET Keys /\ \A k \in D : content[k] \in Values /\ content[k] # Absent
  BY <1>1 DEF Present, Contents
<1> HIDE DEF D
<1>3. EntriesAfter(content, after) \in [D -> Values]
  BY <1>1, <1>2
<1> QED BY <1>1, <1>2, <1>3, PartialIs

LEMMA SnapshotPageIs ==
  ASSUME NEW s \in SnapshotRecords, NEW after \in Nat
  PROVE  /\ BootstrapPage(s, after) \in SnapshotPages
         /\ BootstrapPage(s, after).tag = "BootstrapPage"
         /\ BootstrapPage(s, after).manifest = Manifest(s)
         /\ BootstrapPage(s, after).entries = EntriesAfter(s.content, after)
<1>1. EntriesAfter(s.content, after) \in Partial(Keys, Values)
  BY EntriesAre DEF SnapshotRecords
<1>2. Manifest(s) \in Manifests
  BY ManifestIs
<1> QED BY <1>1, <1>2 DEF BootstrapPage, SnapshotPages

-----------------------------------------------------------------------------
(***************************************************************************)
(* Steps of the server.  What is known of the current view stays known     *)
(* when the view advances, and nobody knows a view just made.              *)
(***************************************************************************)
ServerTypes ==
  view \in Optional(Views) /\ page \in Optional(Pages) /\ snapshot \in Optional(SnapshotRecords)
    /\ nextId \in Nat

\* What was known of the server remains so.
Remembers ==
  /\ \A c \in Optional(Cursors) : KnownCursor(c) => KnownCursor(c)'
  /\ \A m \in Manifests : KnownManifest(m) => KnownManifest(m)'
  /\ \A m \in Manifests : \A e \in Partial(Keys, Values) :
       KnownManifest(m) /\ KnownEntries(m, e) => KnownEntries(m, e)'
  /\ \A m \in PullPages : KnownPage(m) => KnownPage(m)'

LEMMA Typed ==
  ASSUME IndInv
  PROVE  /\ ServerTypes
         /\ view # None => view \in Views /\ snapshot \in SnapshotRecords
         /\ page # None => page \in Pages /\ view # None
         /\ snapshot # None => snapshot \in SnapshotRecords /\ view # None
         /\ \A r \in wire : r \in Requests /\ KnownCursor(r.cursor) /\ r.cursor \in Optional(Cursors)
         /\ cursor \in Optional(Cursors) /\ canonical \in Contents
         /\ turn \in Turns
<1>1. \A r \in wire : r \in Requests
  BY DEF IndInv, TypeOK
<1>2. \A r \in Requests : r.cursor \in Optional(Cursors)
  BY DEF Requests
<1> QED BY <1>1, <1>2 DEF IndInv, TypeOK, LoopInv, ServerInv, ClientInv, ServerTypes, Optional

LEMMA ServerRests ==
  ASSUME IndInv, UNCHANGED <<serverVars, cursor, canonical>>
  PROVE  ServerTypes' /\ ServerInv' /\ Remembers /\ ViewAgrees'
<1>1. UNCHANGED <<view, page, snapshot, nextId, cursor, canonical>>
  BY DEF serverVars
<1>2. ServerTypes' /\ ServerInv' /\ ViewAgrees'
  BY <1>1, Typed DEF ServerTypes, IndInv, ServerInv, ViewAgrees
<1>3. Remembers
  BY <1>1 DEF Remembers, KnownCursor, KnownManifest, KnownEntries, KnownPage, Current, Top
<1> QED BY <1>2, <1>3

LEMMA SnapshotMade ==
  ASSUME IndInv, NEW r \in wire, CreateSnapshot(r), UNCHANGED <<cursor, canonical>>
  PROVE  ServerTypes' /\ ServerInv' /\ Remembers /\ ViewAgrees'
<1>1. r \in Requests /\ TypeOK
  BY Typed DEF IndInv
<1>2. /\ FreshSnapshot(r) \in SnapshotRecords /\ FreshSnapshot(r).view = nextId
      /\ FreshSnapshot(r).id = nextId /\ FreshSnapshot(r).content = Visible(r.scope)
  BY <1>1, FreshIs DEF FreshSnapshot
<1>3. /\ view' \in Views /\ view'.id = nextId /\ view'.revision = 0
      /\ view'.content = Visible(r.scope)
  <2>1. r.scope \in SUBSET Keys /\ r.generation \in Nat /\ Latest \in Nat /\ epoch \in Nat
        /\ nextId \in Nat
    BY <1>1 DEF Requests, TypeOK, Latest
  <2>2. Visible(r.scope) \in Contents
    BY <1>1, <2>1, Seen
  <2> QED BY <2>1, <2>2 DEF CreateSnapshot, Views
<1>4. page' = None /\ snapshot' = FreshSnapshot(r) /\ nextId' = nextId + 1 /\ nextId \in Nat
  BY <1>1 DEF CreateSnapshot, TypeOK
<1>5. ServerTypes'
  BY <1>2, <1>3, <1>4 DEF ServerTypes, Optional
<1>6. ServerInv'
  BY <1>2, <1>3, <1>4 DEF ServerInv
<1>7. \A id \in Nat : id < nextId => id < nextId' /\ ~Current(id)'
  BY <1>3, <1>4 DEF Current
<1>8. Remembers
  <2>1. \A c \in Optional(Cursors) : KnownCursor(c) => KnownCursor(c)'
    BY <1>7 DEF KnownCursor, Optional, Cursors
  <2>2. \A m \in Manifests : KnownManifest(m) => KnownManifest(m)'
    BY <1>7 DEF KnownManifest, Manifests
  <2>3. \A m \in Manifests : \A e \in Partial(Keys, Values) :
          KnownManifest(m) => KnownEntries(m, e)'
    BY <1>7 DEF KnownManifest, KnownEntries, Manifests
  <2>4. \A m \in PullPages : KnownPage(m) => KnownPage(m)'
    BY <1>7 DEF KnownPage, PullPages
  <2> QED BY <2>1, <2>2, <2>3, <2>4 DEF Remembers
<1>9. ViewAgrees'
  <2>1. cursor # None => cursor.view \in Nat /\ cursor.view < nextId
    BY Typed DEF IndInv, ClientInv, KnownCursor, Optional, Cursors
  <2> QED BY <1>3, <2>1 DEF ViewAgrees
<1> QED BY <1>5, <1>6, <1>8, <1>9

\* The page that was outstanding is acknowledged, the next one is derived.
LEMMA ViewAdvances ==
  ASSUME IndInv, NEW r \in wire, AdvanceView(r), UNCHANGED <<cursor, canonical>>
  PROVE  /\ ServerTypes' /\ ServerInv' /\ Remembers /\ ViewAgrees'
         /\ page' = NextPage(r, AcknowledgedView) /\ page' \in Pages /\ page' # None
         /\ \A m : m = PageReply(page') => KnownPage(m)'
<1> DEFINE v == AcknowledgedView
           p == NextPage(r, v)
<1>1. r \in Requests /\ TypeOK /\ view # None /\ view \in Views /\ snapshot \in SnapshotRecords
  BY Typed DEF IndInv, AdvanceView, Advances, Recognized
<1>2. /\ v \in Views /\ v.id = view.id
      /\ page = None => v = view
      /\ page # None => v.revision = page.target /\ v.content = Apply(view.content, page.changes)
  BY <1>1, AcknowledgedIs
<1> HIDE DEF v
<1>3. /\ p \in Pages /\ p # None /\ p.view = v.id /\ p.base = v.revision
      /\ p.target = v.revision + 1
      /\ \A k \in DOMAIN p.changes : p.changes[k].tag = "Upsert" =>
           k \in readable /\ entities[k] # Absent /\ p.changes[k].value = entities[k]
  BY <1>1, <1>2, NextPageIs
<1>4. view' = v /\ page' = p /\ UNCHANGED <<snapshot, nextId, cursor, canonical>>
  BY DEF AdvanceView, v
<1> HIDE DEF p
<1>5. /\ ServerInv /\ ViewAgrees /\ Top = v.revision
      /\ v.revision \in Nat /\ view.revision \in Nat
      /\ page # None => v.revision = view.revision + 1
  BY <1>1, <1>2 DEF IndInv, ServerInv, Top, Views
<1>6. Top' = v.revision + 1
  BY <1>3, <1>4 DEF Top
<1>7. ServerTypes'
  BY <1>1, <1>2, <1>3, <1>4 DEF ServerTypes, Optional, TypeOK
<1>8. ServerInv'
  <2>1. Inserts(page'.changes)
    BY <1>3, <1>4 DEF Inserts
  <2>2. v.revision = 0 => v.content = snapshot.content
    <3>1. page # None => page.target # 0
      BY <1>5 DEF ServerInv
    <3> QED BY <1>1, <1>2, <1>5, <3>1 DEF ServerInv
  <2> QED BY <1>1, <1>2, <1>3, <1>4, <1>5, <2>1, <2>2 DEF ServerInv
\* What the client can hold of the view was known before: it is at most what
\* was outstanding, which the view now holds.
<1>9. ASSUME NEW id \in Nat
      PROVE  Current(id)' => Current(id)
  BY <1>1, <1>2, <1>4 DEF Current
<1>10. \A n \in Nat : n <= Top => n <= Top' /\ n # v.revision + 1
  BY <1>5, <1>6
<1>11. Remembers
  <2>1. \A c \in Optional(Cursors) : KnownCursor(c) => KnownCursor(c)'
    BY <1>4, <1>9, <1>10 DEF KnownCursor, Optional, Cursors
  <2>2. \A m \in Manifests : KnownManifest(m) => KnownManifest(m)'
    BY <1>4, <1>9 DEF KnownManifest, Manifests, Manifest
  <2>3. \A m \in Manifests : \A e \in Partial(Keys, Values) :
          KnownManifest(m) /\ KnownEntries(m, e) => KnownEntries(m, e)'
    BY <1>4, <1>9 DEF KnownEntries, Manifests
  <2>4. ASSUME NEW m \in PullPages, KnownPage(m)
        PROVE  KnownPage(m)'
    <3>1. m.view \in Nat /\ m.revision \in Nat
      BY DEF PullPages
    <3>2. CASE ~Current(m.view)
      BY <1>4, <1>9, <2>4, <3>1, <3>2 DEF KnownPage
    <3>3. CASE Current(m.view)
      <4>1. m.revision <= Top' /\ m.revision # v.revision + 1
        BY <1>10, <2>4, <3>1, <3>3 DEF KnownPage
      <4>2. ASSUME m.revision = v.revision, cursor = [view |-> m.view, revision |-> m.revision - 1]
            PROVE  Apply(canonical, m.changes) = v.content
        <5>1. CASE page = None
          BY <1>2, <2>4, <3>3, <4>2, <5>1 DEF KnownPage
        <5>2. CASE page # None
          <6>1. m.revision = view.revision + 1 /\ m.changes = page.changes
            BY <1>5, <2>4, <3>3, <4>2, <5>2 DEF KnownPage
          <6>2. cursor.view = view.id /\ cursor.revision = view.revision /\ cursor \in Cursors
            BY <1>5, <3>1, <3>3, <4>2, <6>1 DEF Current, Cursors
          <6>3. canonical = view.content
            BY <1>1, <1>5, <6>2 DEF ViewAgrees
          <6> QED BY <1>2, <5>2, <6>1, <6>3
        <5> QED BY <5>1, <5>2
      <4> QED BY <1>4, <2>4, <3>1, <3>3, <4>1, <4>2 DEF KnownPage
    <3> QED BY <3>2, <3>3
  <2> QED BY <2>1, <2>2, <2>3, <2>4 DEF Remembers
<1>12. ViewAgrees'
  <2>1. CASE cursor = None
    BY <1>4, <2>1 DEF ViewAgrees
  <2>2. CASE cursor # None
    <3>1. cursor.view \in Nat /\ cursor.revision \in Nat /\ KnownCursor(cursor)
      BY <2>2, Typed DEF IndInv, ClientInv, Optional, Cursors
    <3>2. Current(cursor.view) => cursor.revision # p.target
      BY <1>3, <1>10, <2>2, <3>1 DEF KnownCursor
    <3>3. Current(cursor.view) /\ cursor.revision = v.revision => canonical = v.content
      BY <1>2, <1>5, <2>2 DEF ViewAgrees, Current
    <3> QED BY <1>4, <1>9, <3>1, <3>2, <3>3 DEF ViewAgrees, Current
  <2> QED BY <2>1, <2>2
<1>13. ASSUME NEW m, m = PageReply(page')
       PROVE  KnownPage(m)'
  <2>1. m.view = v.id /\ m.revision = v.revision + 1 /\ m.changes = p.changes
    BY <1>3, <1>4, <1>13 DEF PageReply
  <2>2. v.id < nextId
    BY <1>1, <1>2, <1>5 DEF ServerInv
  <2> QED BY <1>4, <1>5, <1>6, <2>1, <2>2 DEF KnownPage
<1> QED BY <1>3, <1>4, <1>7, <1>8, <1>11, <1>12, <1>13 DEF p, v

LEMMA ReplyStays ==
  ASSUME Remembers, NEW m \in Messages, KnownReply(m)
  PROVE  KnownReply(m)'
<1>1. CASE m.tag = "PullPage"
  <2>1. m \in PullPages
    BY <1>1 DEF Messages, Errors, Offers, SnapshotPages, Refusals
  <2> QED BY <1>1, <2>1 DEF Remembers, KnownReply
<1>2. CASE m.tag = "BootstrapRequired"
  <2>1. m.manifest \in Manifests
    BY <1>2 DEF Messages, Errors, Offers, SnapshotPages, PullPages, Refusals
  <2> QED BY <1>2, <2>1 DEF Remembers, KnownReply
<1>3. CASE m.tag = "BootstrapPage"
  <2>1. m.manifest \in Manifests /\ m.entries \in Partial(Keys, Values)
    BY <1>3 DEF Messages, Errors, Offers, SnapshotPages, PullPages, Refusals
  <2> QED BY <1>3, <2>1 DEF Remembers, KnownReply
<1> QED BY <1>1, <1>2, <1>3 DEF KnownReply

\* The server takes a request and its answer reaches the loop, or nobody.
LEMMA ReplyKeeps ==
  ASSUME IndInv, NEW r \in wire, NEW m \in Messages, Reply(r, m), Environment,
         ServerTypes', ServerInv', Remembers, ViewAgrees', KnownReply(m)'
  PROVE  IndInv'
<1>1. /\ wire' = wire \ {r}
      /\ turn' = IF r.session = session /\ turn.at = "waiting"
                   THEN [turn EXCEPT !.at = "received", !.reply = m] ELSE turn
      /\ UNCHANGED <<session, due, restart, fault, failures>>
  BY DEF Reply
<1>2. UNCHANGED <<entities, log, floor, readable, admitted, granted, epoch, policies,
                  world, generation, cursor, serverCursor, canonical, retracted, stage>>
  BY DEF Environment, spaceVars, policyVars, clientVars
<1>3. TypeOK /\ LoopInv /\ ClientInv
  BY DEF IndInv
<1>4. /\ turn' \in Turns /\ turn'.manifest = turn.manifest
      /\ turn'.at = turn.at \/ (turn'.at = "received" /\ turn'.reply = m)
      /\ turn'.at = turn.at /\ turn.at = "received" => turn' = turn
  BY <1>1, <1>3 DEF LoopInv, Turns, Places, Optional
<1>5. TypeOK'
  <2>1. turn'.pass \in 1 .. 2 /\ turn'.manifest \in Optional(Manifests) /\ turn'.after \in Nat
    BY <1>4 DEF Turns
  <2> QED BY <1>1, <1>2, <1>3, <2>1 DEF TypeOK, ServerTypes
<1>6. LoopInv'
  BY <1>3, <1>4 DEF LoopInv
<1>7. ClientInv'
  <2>1. KnownCursor(cursor)' /\ \A q \in wire' : KnownCursor(q.cursor)'
    BY <1>1, <1>2, <1>3, Typed DEF ClientInv, Remembers
  <2>2. turn'.manifest # None => KnownManifest(turn.manifest)'
    BY <1>3, <1>4 DEF ClientInv, Remembers, Turns, Optional
  <2>3. stage' # None => KnownManifest(stage.manifest)' /\ KnownEntries(stage.manifest, stage.entries)'
    <3>1. stage # None => stage.manifest \in Manifests /\ stage.entries \in Partial(Keys, Values)
      BY <1>3 DEF TypeOK, Optional, Stages
    <3> QED BY <1>2, <1>3, <3>1 DEF ClientInv, Remembers
  <2>4. turn'.at = "received" => KnownReply(turn.reply)'
    BY <1>3, <1>4, ReplyStays DEF ClientInv, LoopInv
  <2> QED BY <2>1, <2>2, <2>3, <2>4 DEF ClientInv
<1> QED BY <1>5, <1>6, <1>7 DEF IndInv

\* A refusal says nothing about a view.
LEMMA ErrorKeeps ==
  ASSUME IndInv, NEW r \in wire, NEW tag \in Refusals \cup {"AuthorizationDenied"},
         Reply(r, Answered(tag)), Environment, UNCHANGED serverVars
  PROVE  IndInv'
<1>1. PICK m \in Messages : m = Answered(tag)
  BY DEF Answered, Messages, Errors
<1>2. KnownReply(m)'
  BY <1>1 DEF Answered, KnownReply, Refusals
<1>3. UNCHANGED <<cursor, canonical>>
  BY DEF Environment, clientVars
<1> QED BY <1>1, <1>2, <1>3, ServerRests, ReplyKeeps

LEMMA RefuseStep ==
  ASSUME IndInv, NEW r \in wire, Refuse(r), Environment
  PROVE  IndInv'
<1>1. PICK tag \in Refusals : Reply(r, Answered(tag))
  BY DEF Refuse, Refusals
<1>2. UNCHANGED serverVars
  BY DEF Refuse
<1> QED BY <1>1, <1>2, ErrorKeeps

LEMMA AuthorizeStep ==
  ASSUME IndInv, NEW r \in wire, AuthorizeScope(r)
  PROVE  IndInv'
<1>1. Environment /\ UNCHANGED serverVars
  BY DEF AuthorizeScope
<1>2. CASE admitted
  <2> DEFINE q == [r EXCEPT !.status = "authorized"]
  <2>1. /\ wire' = (wire \ {r}) \cup {q}
        /\ UNCHANGED <<turn, session, due, restart, fault, failures>>
    BY <1>2 DEF AuthorizeScope
  <2>2. q \in Requests /\ KnownCursor(q.cursor)
    BY Typed DEF Requests
  <2> HIDE DEF q
  <2>3. UNCHANGED <<entities, log, floor, readable, admitted, granted, epoch, policies,
                    world, generation, cursor, serverCursor, canonical, retracted, stage,
                    view, page, snapshot, nextId>>
    BY <1>1 DEF Environment, spaceVars, policyVars, clientVars, serverVars
  <2>4. ServerInv' /\ ViewAgrees' /\ Remembers
    BY <1>1, <2>3, ServerRests
  <2>5. TypeOK /\ LoopInv /\ ClientInv
    BY DEF IndInv
  <2>6. TypeOK'
    BY <2>1, <2>2, <2>3, <2>5 DEF TypeOK
  <2>7. LoopInv'
    BY <2>1, <2>5 DEF LoopInv
  <2>8. ClientInv'
    BY <2>1, <2>2, <2>3, <2>5 DEF ClientInv, KnownCursor, KnownManifest, KnownEntries, KnownReply,
       KnownPage, Current, Top
  <2> QED BY <2>4, <2>6, <2>7, <2>8 DEF IndInv
<1>3. CASE ~admitted
  <2>1. Reply(r, Answered("AuthorizationDenied"))
    BY <1>3 DEF AuthorizeScope
  <2> QED BY <1>1, <2>1, ErrorKeeps
<1> QED BY <1>2, <1>3

LEMMA OfferStep ==
  ASSUME IndInv, NEW r \in wire, OfferSnapshot(r), Environment
  PROVE  IndInv'
<1>1. UNCHANGED <<cursor, canonical>>
  BY DEF Environment, clientVars
<1>2. PICK s \in SnapshotRecords :
        /\ Reply(r, BootstrapRequired(s)) /\ snapshot' = s /\ s.view < nextId'
        /\ (s = snapshot /\ UNCHANGED serverVars) \/ CreateSnapshot(r)
  <2>1. CASE Reusable(r) /\ Reply(r, BootstrapRequired(snapshot)) /\ UNCHANGED serverVars
    BY <2>1, Typed DEF Reusable, serverVars, IndInv, ServerInv
  <2>2. CASE CreateSnapshot(r) /\ Reply(r, BootstrapRequired(FreshSnapshot(r)))
    BY <2>2, Typed, FreshIs DEF CreateSnapshot, IndInv, TypeOK
  <2> QED BY <2>1, <2>2 DEF OfferSnapshot
<1>3. ServerTypes' /\ ServerInv' /\ Remembers /\ ViewAgrees'
  BY <1>1, <1>2, ServerRests, SnapshotMade
<1>4. PICK m \in Messages : m = BootstrapRequired(s)
  <2>1. Manifest(s) \in Manifests
    BY ManifestIs
  <2> QED BY <2>1 DEF BootstrapRequired, Messages, Offers
<1>5. KnownReply(m)'
  <2>1. m.tag = "BootstrapRequired" /\ m.manifest = Manifest(s) /\ m.manifest.view = s.view
    BY <1>4, ManifestIs DEF BootstrapRequired
  <2> QED BY <1>2, <2>1 DEF KnownReply, KnownManifest
<1> QED BY <1>2, <1>3, <1>4, <1>5, ReplyKeeps

\* The outstanding page is sent once more.
LEMMA RepeatStep ==
  ASSUME IndInv, NEW r \in wire, RepeatPage(r), Environment
  PROVE  IndInv'
<1>1. /\ UNCHANGED <<cursor, canonical, serverVars, view, page, snapshot, nextId>>
      /\ page \in Pages /\ view # None /\ Reply(r, PageReply(page))
  BY Typed DEF Environment, clientVars, RepeatPage, RepeatsPage, Recognized, serverVars
<1>2. ServerTypes' /\ ServerInv' /\ Remembers /\ ViewAgrees'
  BY <1>1, ServerRests
<1>3. PICK m \in PullPages : m = PageReply(page)
  BY <1>1 DEF PageReply, PullPages, Pages
<1>4. m.tag = "PullPage" /\ m.view = page.view /\ m.revision = page.target /\ m.changes = page.changes
  BY <1>3 DEF PageReply
<1>5. /\ page.view = view.id /\ page.target = view.revision + 1 /\ view.id < nextId
      /\ view.revision \in Nat /\ page # None
  BY <1>1, Typed DEF IndInv, ServerInv, RepeatPage, RepeatsPage, Views
<1>6. KnownReply(m)'
  BY <1>1, <1>4, <1>5 DEF KnownReply, KnownPage, Top
<1> QED BY <1>1, <1>2, <1>3, <1>6, ReplyKeeps DEF Messages

LEMMA AdvanceStep ==
  ASSUME IndInv, NEW r \in wire, AdvanceView(r), Environment
  PROVE  IndInv'
<1>1. UNCHANGED <<cursor, canonical>>
  BY DEF Environment, clientVars
<1>2. /\ ServerTypes' /\ ServerInv' /\ Remembers /\ ViewAgrees'
      /\ page' \in Pages /\ Reply(r, PageReply(page'))
      /\ \A m : m = PageReply(page') => KnownPage(m)'
  <2>1. Reply(r, PageReply(NextPage(r, AcknowledgedView)))
    BY DEF AdvanceView
  <2> QED BY <1>1, <2>1, ViewAdvances
<1>3. PICK m \in PullPages : m = PageReply(page')
  BY <1>2 DEF PageReply, PullPages, Pages
<1>4. KnownPage(m)' /\ m.tag = "PullPage"
  BY <1>2, <1>3 DEF PullPages
<1>5. KnownReply(m)'
  BY <1>4 DEF KnownReply
<1> QED BY <1>2, <1>3, <1>5, ReplyKeeps DEF Messages

\* A page of the snapshot, as it is or as it has just been made.
LEMMA BootstrapStep ==
  ASSUME IndInv, NEW r \in wire, Bootstrap(r)
  PROVE  IndInv'
<1>1. Environment /\ UNCHANGED <<cursor, canonical>> /\ (ServeSnapshot(r) \/ ReplaceSnapshot(r))
  BY DEF Bootstrap, Environment, clientVars
<1>2. CASE \E tag \in Refusals : Reply(r, Answered(tag)) /\ UNCHANGED serverVars
  BY <1>1, <1>2, ErrorKeeps
<1>3. CASE \E s \in SnapshotRecords : \E after \in Nat :
             /\ Reply(r, BootstrapPage(s, after)) /\ snapshot' = s /\ s.view < nextId'
             /\ (s = snapshot /\ UNCHANGED serverVars) \/ CreateSnapshot(r)
  <2>1. PICK s \in SnapshotRecords, after \in Nat :
          /\ Reply(r, BootstrapPage(s, after)) /\ snapshot' = s /\ s.view < nextId'
          /\ (s = snapshot /\ UNCHANGED serverVars) \/ CreateSnapshot(r)
    BY <1>3
  <2>2. ServerTypes' /\ ServerInv' /\ Remembers /\ ViewAgrees'
    BY <1>1, <2>1, ServerRests, SnapshotMade
  <2>3. PICK m \in SnapshotPages : m = BootstrapPage(s, after)
    BY SnapshotPageIs
  <2>4. /\ m.tag = "BootstrapPage" /\ m.manifest = Manifest(s) /\ m.manifest.view = s.view
        /\ \A k \in DOMAIN m.entries : m.entries[k] = s.content[k] /\ m.entries[k] # Absent
    <3>1. /\ m.tag = "BootstrapPage" /\ m.manifest = Manifest(s)
          /\ m.entries = EntriesAfter(s.content, after)
      BY <2>3, SnapshotPageIs
    <3>2. s.content \in Contents
      BY DEF SnapshotRecords
    <3> QED BY <3>1, <3>2, EntriesAre, ManifestIs
  <2>5. KnownReply(m)'
    BY <2>1, <2>4 DEF KnownReply, KnownManifest, KnownEntries
  <2> QED BY <1>1, <2>1, <2>2, <2>3, <2>5, ReplyKeeps DEF Messages
<1>4. CASE ServeSnapshot(r)
  <2>1. /\ snapshot \in SnapshotRecords /\ view # None /\ r.after \in Nat
        /\ UNCHANGED <<serverVars, nextId, snapshot>>
    BY <1>4, Typed DEF ServeSnapshot, SnapshotMatches, Requests, serverVars
  <2>2. snapshot.view < nextId'
    BY <2>1 DEF IndInv, ServerInv
  <2>3. Reply(r, Answered("CursorGap")) \/ Reply(r, BootstrapPage(snapshot, r.after))
    BY <1>4 DEF ServeSnapshot
  <2> QED BY <1>2, <1>3, <2>1, <2>2, <2>3 DEF Refusals
<1>5. CASE ReplaceSnapshot(r)
  <2>1. CASE Reply(r, Answered("StaleReplicationScope")) /\ UNCHANGED serverVars
    BY <1>2, <2>1 DEF Refusals
  <2>2. CASE CreateSnapshot(r) /\ Reply(r, BootstrapPage(FreshSnapshot(r), 0))
    <3>1. /\ FreshSnapshot(r) \in SnapshotRecords /\ snapshot' = FreshSnapshot(r)
          /\ FreshSnapshot(r).view < nextId'
      BY <2>2, Typed, FreshIs DEF CreateSnapshot, IndInv, TypeOK
    <3> QED BY <1>3, <2>2, <3>1
  <2> QED BY <1>5, <2>1, <2>2 DEF ReplaceSnapshot
<1> QED BY <1>1, <1>4, <1>5

LEMMA PullStep ==
  ASSUME IndInv, NEW r \in wire, Pull(r)
  PROVE  IndInv'
  BY RefuseStep, OfferStep, RepeatStep, AdvanceStep DEF Pull

-----------------------------------------------------------------------------
(***************************************************************************)
(* Steps of the environment.                                               *)
(***************************************************************************)
\* What the invariant needs of a step that changes neither the server's
\* record of the client nor the client.
LEMMA OthersMove ==
  ASSUME IndInv, UNCHANGED <<serverVars, clientVars, turn, session, restart, fault, wire, failures>>,
         entities' \in Contents, log' \in Seq(Keys), floor' \in Nat, readable' \subseteq Keys,
         admitted' \in BOOLEAN, granted' \subseteq Keys, epoch' \in Nat, policies' \in Nat,
         due' \in BOOLEAN
  PROVE  IndInv'
<1>1. UNCHANGED <<view, page, snapshot, nextId, world, generation, cursor, serverCursor,
                  canonical, retracted, stage>>
  BY DEF serverVars, clientVars
<1>2. TypeOK /\ LoopInv /\ ClientInv
  BY DEF IndInv
<1>3. ServerInv' /\ ViewAgrees'
  BY <1>1, ServerRests
<1>4. TypeOK'
  BY <1>1, <1>2 DEF TypeOK
<1>5. LoopInv'
  BY <1>2 DEF LoopInv
<1>6. ClientInv'
  BY <1>1, <1>2 DEF ClientInv, KnownCursor, KnownManifest, KnownEntries, KnownReply, KnownPage,
     Current, Top
<1> QED BY <1>3, <1>4, <1>5, <1>6 DEF IndInv

LEMMA WriteStep ==
  ASSUME IndInv, NEW k \in Keys, NEW v \in Values \cup {Absent}, Write(k, v)
  PROVE  IndInv'
<1> USE DEF IndInv, TypeOK
<1>1. entities' \in Contents /\ log' \in Seq(Keys)
  BY DEF Write, Contents
<1> QED BY <1>1, OthersMove DEF Write, Wake, policyVars

LEMMA PruneStep ==
  ASSUME IndInv, Prune
  PROVE  IndInv'
<1> USE DEF IndInv, TypeOK
<1>1. floor' \in Nat
  BY DEF Prune, Latest
<1> QED BY <1>1, OthersMove DEF Prune, policyVars, loopVars

LEMMA PolicyStep ==
  ASSUME IndInv, NEW mayRead \in world.readers, NEW admits \in BOOLEAN, SetPolicy(mayRead, admits)
  PROVE  IndInv'
<1> USE DEF IndInv, TypeOK
<1>1. mayRead \subseteq Keys
  OBVIOUS
<1> QED BY <1>1, OthersMove DEF SetPolicy, Wake, spaceVars

LEMMA InvalidateStep ==
  ASSUME IndInv, InvalidateReadAuthorization
  PROVE  IndInv'
<1> USE DEF IndInv, TypeOK
<1> QED BY OthersMove DEF InvalidateReadAuthorization, Wake, spaceVars

-----------------------------------------------------------------------------
(***************************************************************************)
(* Steps of the client.                                                    *)
(***************************************************************************)
\* What the invariant needs of a step of the client: what its loop, its
\* stage and its cursor say of the current view is known of that view.
LEMMA ClientMoves ==
  ASSUME IndInv, Server, world' = world,
         turn' \in Turns,
         turn'.at \in {"prepare", "bootstrap", "install"} => turn'.manifest \in Manifests,
         turn'.at = "received" => UNCHANGED <<turn, cursor, canonical>>,
         turn'.manifest # None => KnownManifest(turn'.manifest),
         wire' \subseteq Requests, \A r \in wire' : KnownCursor(r.cursor),
         session' \in Nat, failures' \in Nat, due' \in BOOLEAN, restart' \in BOOLEAN,
         generation' \in 1 .. Len(world.scopes),
         cursor' \in Optional(Cursors), serverCursor' \in Nat, KnownCursor(cursor'),
         canonical' \in Contents, retracted' \subseteq Keys,
         stage' \in Optional(Stages),
         stage' # None => /\ KnownManifest(stage'.manifest)
                          /\ KnownEntries(stage'.manifest, stage'.entries),
         ViewAgrees'
  PROVE  IndInv'
<1>1. UNCHANGED <<view, page, snapshot, nextId, entities, log, floor, readable, admitted,
                  granted, epoch, policies>>
  BY DEF Server, serverVars, spaceVars, policyVars
<1>2. TypeOK /\ LoopInv /\ ServerInv /\ ClientInv
  BY DEF IndInv
<1>3. TypeOK'
  <2>1. turn'.pass \in 1 .. 2 /\ turn'.manifest \in Optional(Manifests) /\ turn'.after \in Nat
    BY DEF Turns
  <2> QED BY <1>1, <1>2, <2>1 DEF TypeOK
<1>4. LoopInv'
  BY <1>2 DEF LoopInv
<1>5. ServerInv'
  BY <1>1, <1>2 DEF ServerInv
<1>6. ClientInv'
  <2>1. ASSUME turn'.at = "received"
        PROVE  KnownReply(turn.reply)'
    <3>1. turn' = turn /\ cursor' = cursor /\ canonical' = canonical /\ turn.at = "received"
      BY <2>1
    <3> QED BY <1>1, <1>2, <3>1 DEF ClientInv, KnownManifest, KnownEntries, KnownReply,
            KnownPage, Current, Top
  <2>2. KnownCursor(cursor)' /\ \A r \in wire' : KnownCursor(r.cursor)'
    BY <1>1 DEF KnownCursor, Current, Top
  <2>3. turn'.manifest # None => KnownManifest(turn.manifest)'
    BY <1>1 DEF KnownManifest, Current
  <2>4. stage' # None => KnownManifest(stage.manifest)' /\ KnownEntries(stage.manifest, stage.entries)'
    BY <1>1 DEF KnownManifest, KnownEntries, Current
  <2> QED BY <2>1, <2>2, <2>3, <2>4 DEF ClientInv
<1> QED BY <1>3, <1>4, <1>5, <1>6 DEF IndInv

\* ... and of a step that leaves the client's database alone.
LEMMA TurnMoves ==
  ASSUME IndInv, Server, UNCHANGED clientVars,
         turn' \in Turns, turn'.at # "received",
         turn'.at \in {"prepare", "bootstrap", "install"} => turn'.manifest \in Manifests,
         turn'.manifest # None => KnownManifest(turn'.manifest),
         wire' \subseteq Requests, \A r \in wire' : KnownCursor(r.cursor),
         session' \in Nat, failures' \in Nat, due' \in BOOLEAN, restart' \in BOOLEAN
  PROVE  IndInv'
<1>1. UNCHANGED <<world, generation, cursor, serverCursor, canonical, retracted, stage>>
  BY DEF clientVars
<1>2. TypeOK /\ ClientInv /\ ViewAgrees'
  BY <1>1, ServerRests DEF IndInv, Server
<1> QED BY <1>1, <1>2, ClientMoves DEF TypeOK, ClientInv

LEMMA TurnIs ==
  ASSUME IndInv
  PROVE  /\ Idle \in Turns /\ Idle.at = "idle" /\ Idle.manifest = None
         /\ AfterCatchUp \in Turns /\ AfterCatchUp.at \in {"idle", "pull"}
         /\ AfterCatchUp.manifest = None
         /\ \A at \in Places : /\ TurnAt(at) \in Turns /\ TurnAt(at).at = at
                               /\ TurnAt(at).manifest = turn.manifest
         /\ turn.manifest # None => turn.manifest \in Manifests /\ KnownManifest(turn.manifest)
         /\ session \in Nat /\ failures \in Nat /\ due \in BOOLEAN /\ restart \in BOOLEAN
<1>1. turn \in Turns /\ TypeOK /\ ClientInv
  BY DEF IndInv, LoopInv
<1>2. Idle \in Turns /\ Idle.at = "idle" /\ Idle.manifest = None
  BY DEF Idle, Turns, Places, Optional
<1>3. /\ AfterCatchUp \in Turns /\ AfterCatchUp.at \in {"idle", "pull"}
      /\ AfterCatchUp.manifest = None
  <2> DEFINE t == Idle
             u == [t EXCEPT !.at = "pull", !.pass = 2]
  <2> HIDE DEF t
  <2>1. t \in Turns
    BY <1>2 DEF t
  <2>2. u \in Turns
    <3>1. "pull" \in Places /\ 2 \in 1 .. 2
      BY DEF Places
    <3> QED BY <2>1, <3>1 DEF Turns
  <2>3. u.at = "pull" /\ u.manifest = t.manifest
    BY <2>1 DEF Turns
  <2> HIDE DEF u
  <2>4. AfterCatchUp = IF turn.pass = 1 THEN u ELSE Idle
    BY DEF AfterCatchUp, t, u
  <2> QED BY <1>2, <2>2, <2>3, <2>4 DEF t
<1>4. \A at \in Places : /\ TurnAt(at) \in Turns /\ TurnAt(at).at = at
                         /\ TurnAt(at).manifest = turn.manifest
  BY <1>1 DEF TurnAt, Turns, Optional
<1>5. turn.manifest # None => turn.manifest \in Manifests
  BY <1>1 DEF Turns, Optional
<1> QED BY <1>1, <1>2, <1>3, <1>4, <1>5 DEF TypeOK, ClientInv

LEMMA BeginStep ==
  ASSUME IndInv, Begin
  PROVE  IndInv'
<1>1. /\ Server /\ UNCHANGED clientVars /\ turn' = TurnAt("pull") /\ due' = FALSE
      /\ UNCHANGED <<session, restart, wire, failures>>
  BY DEF Begin
<1>2. "pull" \in Places
  BY DEF Places
<1>3. wire \subseteq Requests /\ \A r \in wire : KnownCursor(r.cursor)
  BY Typed
<1> QED BY <1>1, <1>2, <1>3, TurnIs, TurnMoves

\* A request is sent.
LEMMA SendStep ==
  ASSUME IndInv, NEW r \in Requests, Send(r), KnownCursor(r.cursor), Server, UNCHANGED clientVars
  PROVE  IndInv'
<1>1. /\ turn' = TurnAt("waiting") /\ wire' = wire \cup {r}
      /\ UNCHANGED <<session, due, restart, failures>>
  BY DEF Send
<1>2. "waiting" \in Places
  BY DEF Places
<1>3. wire' \subseteq Requests /\ \A q \in wire' : KnownCursor(q.cursor)
  BY <1>1, Typed
<1> QED BY <1>1, <1>2, <1>3, TurnIs, TurnMoves

LEMMA SendPullStep ==
  ASSUME IndInv, SendPull
  PROVE  IndInv'
<1>1. Scope \in SUBSET Keys /\ generation \in Nat /\ session \in Nat
  <2>1. /\ world.scopes \in Seq(SUBSET Keys) /\ generation \in 1 .. Len(world.scopes)
        /\ session \in Nat
    BY DEF IndInv, TypeOK
  <2> QED BY <2>1 DEF Scope
<1>2. PICK r \in Requests : r = PullRequest
  BY <1>1, Typed DEF PullRequest, Requests, Optional
<1>3. KnownCursor(r.cursor)
  BY <1>2 DEF PullRequest, IndInv, ClientInv
<1> QED BY <1>2, <1>3, SendStep DEF SendPull

LEMMA SendBootstrapStep ==
  ASSUME IndInv, SendBootstrap
  PROVE  IndInv'
<1>1. Scope \in SUBSET Keys /\ generation \in Nat /\ session \in Nat
  <2>1. /\ world.scopes \in Seq(SUBSET Keys) /\ generation \in 1 .. Len(world.scopes)
        /\ session \in Nat
    BY DEF IndInv, TypeOK
  <2> QED BY <2>1 DEF Scope
<1>2. turn.manifest \in Manifests /\ turn.after \in Nat /\ turn.at = "bootstrap"
  BY Typed DEF SendBootstrap, IndInv, LoopInv, Turns
<1>3. PICK c \in Cursors : c = [view |-> turn.manifest.view, revision |-> 0]
  BY <1>2 DEF Cursors, Manifests
<1>4. PICK r \in Requests : r = BootstrapRequest
  <2>1. turn.manifest.id \in Nat
    BY <1>2 DEF Manifests
  <2> QED BY <1>1, <1>2, <1>3, <2>1 DEF BootstrapRequest, Requests, Optional
<1>5. r.cursor = c
  BY <1>3, <1>4 DEF BootstrapRequest
<1>6. KnownManifest(turn.manifest)
  BY <1>2, TurnIs
<1>7. Current(c.view) => 0 <= Top
  BY Typed DEF Top, Current, IndInv, ServerInv, Views, Pages
<1>8. KnownCursor(r.cursor)
  BY <1>3, <1>5, <1>6, <1>7 DEF KnownCursor, KnownManifest
<1> QED BY <1>4, <1>8, SendStep DEF SendBootstrap

\* The next page is applied: it is the outstanding one, or the view already
\* holds it.
LEMMA ApplyStep ==
  ASSUME IndInv, ApplyViewPage
  PROVE  IndInv'
<1> DEFINE m == turn.reply
<1>1. /\ Server /\ turn.at = "received" /\ m.tag = "PullPage"
      /\ cursor = [view |-> m.view, revision |-> m.revision - 1]
      /\ canonical' = Apply(canonical, m.changes)
      /\ retracted' = {k \in retracted : k \notin DOMAIN m.changes}
           \cup {k \in DOMAIN m.changes : m.changes[k].tag = "Retract"}
      /\ cursor' = [view |-> m.view, revision |-> m.revision]
      /\ serverCursor' = IF m.more THEN serverCursor ELSE m.sequence
      /\ turn' = (IF m.more THEN TurnAt("pull") ELSE AfterCatchUp)
      /\ UNCHANGED <<session, due, restart, fault, wire, failures, world, generation, stage>>
  BY DEF ApplyViewPage, Received, Follows, Continue
<1>2. m \in PullPages /\ KnownPage(m)
  <2>1. m \in Messages /\ KnownReply(m)
    BY <1>1 DEF IndInv, LoopInv, ClientInv
  <2> QED BY <1>1, <2>1 DEF Messages, Errors, Offers, SnapshotPages, Refusals, KnownReply
<1> HIDE DEF m
<1>3. m.view \in Nat /\ m.revision \in Nat /\ m.sequence \in Nat
      /\ m.changes \in Partial(Keys, ChangeSet)
  BY <1>2 DEF PullPages
<1>4. cursor' \in Optional(Cursors) /\ KnownCursor(cursor')
  BY <1>1, <1>2, <1>3 DEF Optional, Cursors, KnownPage, KnownCursor
<1>5. canonical' \in Contents /\ retracted' \subseteq Keys /\ serverCursor' \in Nat
  <2>1. canonical \in Contents /\ retracted \subseteq Keys /\ serverCursor \in Nat
    BY DEF IndInv, TypeOK
  <2>2. canonical' \in Contents
    BY <1>1, <1>3, <2>1, Applied
  <2>3. DOMAIN m.changes \subseteq Keys
    BY <1>3, PartialHas
  <2> QED BY <1>1, <1>3, <2>1, <2>2, <2>3
<1>6. /\ turn' \in Turns /\ turn'.at \in {"idle", "pull"}
      /\ turn'.manifest # None => KnownManifest(turn'.manifest)
  BY <1>1, TurnIs DEF Places
<1>7. ViewAgrees'
  <2>1. UNCHANGED <<view, page>> /\ ServerInv /\ ViewAgrees
    BY <1>1 DEF Server, serverVars, IndInv
  <2>2. ASSUME Current(m.view), m.revision = view.revision
        PROVE  canonical' = view.content
    BY <1>1, <1>2, <2>2 DEF KnownPage
  <2>3. ASSUME Current(m.view), page # None, m.revision = page.target
        PROVE  canonical' = Apply(view.content, page.changes)
    <3>1. m.revision = view.revision + 1 /\ view.revision \in Nat
      BY <2>1, <2>3, Typed DEF ServerInv, Views, Current
    <3>2. m.changes = page.changes
      BY <1>2, <2>3, <3>1 DEF KnownPage
    <3>3. cursor \in Cursors /\ cursor.view = view.id /\ cursor.revision = view.revision
      BY <1>1, <1>3, <2>3, <3>1 DEF Cursors, Current
    <3>4. canonical = view.content
      BY <2>1, <2>3, <3>3 DEF ViewAgrees, Current
    <3> QED BY <1>1, <3>2, <3>4
  <2> QED BY <1>1, <2>1, <2>2, <2>3 DEF ViewAgrees, Current
<1>8. TypeOK /\ ClientInv /\ wire \subseteq Requests
  BY DEF IndInv, TypeOK
<1> QED BY <1>1, <1>4, <1>5, <1>6, <1>7, <1>8, ClientMoves DEF TypeOK, ClientInv

LEMMA FailStep ==
  ASSUME IndInv, Server, UNCHANGED clientVars, NEW error, Fail(error)
  PROVE  IndInv'
<1>1. turn' = Idle /\ UNCHANGED <<session, due, restart, wire, failures>>
  BY DEF Fail
<1>2. wire \subseteq Requests /\ \A r \in wire : KnownCursor(r.cursor)
  BY Typed
<1> QED BY <1>1, <1>2, TurnIs, TurnMoves

LEMMA RejectStep ==
  ASSUME IndInv, Reject
  PROVE  IndInv'
<1>1. Server /\ UNCHANGED clientVars
  BY DEF Reject
<1>2. PICK error : Fail(error)
  BY DEF Reject
<1> QED BY <1>1, <1>2, FailStep

\* What the reply to an offer or a page of a snapshot is.
LEMMA ReceivedIs ==
  ASSUME IndInv, turn.at = "received"
  PROVE  /\ turn.reply.tag \in {"BootstrapRequired", "BootstrapPage"} =>
              turn.reply.manifest \in Manifests /\ KnownManifest(turn.reply.manifest)
         /\ turn.reply.tag = "BootstrapPage" =>
              /\ turn.reply \in SnapshotPages
              /\ KnownEntries(turn.reply.manifest, turn.reply.entries)
<1>1. turn.reply \in Messages /\ KnownReply(turn.reply)
  BY DEF IndInv, LoopInv, ClientInv
<1>2. turn.reply.tag \in {"BootstrapRequired", "BootstrapPage"} => turn.reply.manifest \in Manifests
  BY <1>1 DEF Messages, Errors, Offers, SnapshotPages, PullPages, Refusals
<1>3. turn.reply.tag = "BootstrapPage" => turn.reply \in SnapshotPages
  BY <1>1 DEF Messages, Errors, Offers, SnapshotPages, PullPages, Refusals
<1> QED BY <1>1, <1>2, <1>3 DEF KnownReply

LEMMA ValidateStep ==
  ASSUME IndInv, ValidateManifest
  PROVE  IndInv'
<1>1. /\ Server /\ UNCHANGED clientVars /\ turn.at = "received"
      /\ turn.reply.tag \in {"BootstrapRequired", "BootstrapPage"}
  BY DEF ValidateManifest, Offered, Received
<1>2. CASE Fail("StaleReplicationScope")
  BY <1>1, <1>2, FailStep
<1>3. CASE Continue([TurnAt("prepare") EXCEPT !.manifest = turn.reply.manifest])
  <2> DEFINE t == TurnAt("prepare")
             m == turn.reply.manifest
  <2>1. t \in Turns /\ t.at = "prepare"
    BY TurnIs DEF Places
  <2>2. m \in Manifests /\ KnownManifest(m)
    BY <1>1, ReceivedIs
  <2>3. turn' = [t EXCEPT !.manifest = m] /\ UNCHANGED <<session, due, restart, fault, wire, failures>>
    BY <1>3 DEF Continue
  <2> HIDE DEF t, m
  <2>4. turn' \in Turns /\ turn'.at = "prepare" /\ turn'.manifest = m
    BY <2>1, <2>2, <2>3 DEF Turns, Optional
  <2>5. wire \subseteq Requests /\ \A r \in wire : KnownCursor(r.cursor)
    BY Typed
  <2> QED BY <1>1, <2>2, <2>3, <2>4, <2>5, TurnIs, TurnMoves
<1> QED BY <1>2, <1>3 DEF ValidateManifest

\* A step that changes the stage and the loop.
LEMMA StageMoves ==
  ASSUME IndInv, Server, UNCHANGED <<world, generation, cursor, serverCursor, canonical, retracted>>,
         NEW m \in Manifests, KnownManifest(m),
         NEW entries \in Partial(Keys, Values), KnownEntries(m, entries),
         stage' = stage \/ stage' = [manifest |-> m, entries |-> entries],
         turn' \in Turns, turn'.manifest = m, turn'.at \in {"bootstrap", "install"},
         UNCHANGED <<session, due, restart, fault, wire, failures>>
  PROVE  IndInv'
<1>1. ViewAgrees'
  BY ServerRests DEF Server
<1>2. TypeOK /\ ClientInv /\ wire \subseteq Requests
  BY DEF IndInv, TypeOK
<1>3. /\ stage' \in Optional(Stages)
      /\ stage' # None => /\ KnownManifest(stage'.manifest)
                          /\ KnownEntries(stage'.manifest, stage'.entries)
  <2>1. CASE stage' = stage
    BY <1>2, <2>1 DEF TypeOK, ClientInv
  <2>2. CASE stage' = [manifest |-> m, entries |-> entries]
    BY <2>2 DEF Stages, Optional
  <2> QED BY <2>1, <2>2
<1> QED BY <1>1, <1>2, <1>3, ClientMoves DEF TypeOK, ClientInv

LEMMA PrepareStep ==
  ASSUME IndInv, PrepareBootstrap
  PROVE  IndInv'
<1> DEFINE t == TurnAt("bootstrap")
           m == turn.manifest
           none == [k \in {} |-> Absent]
<1>1. /\ Server /\ turn.at = "prepare"
      /\ UNCHANGED <<world, generation, cursor, serverCursor, canonical, retracted>>
      /\ UNCHANGED <<session, due, restart, fault, wire, failures>>
      /\ stage' = stage \/ stage' = [manifest |-> m, entries |-> none]
  BY DEF PrepareBootstrap, Continue
<1>2. PICK after \in Nat : turn' = [t EXCEPT !.after = after]
  <2>1. CASE StagedFor(turn.manifest) /\ Continue([t EXCEPT !.after = Staged])
    <3>1. stage.entries \in Partial(Keys, Values)
      BY <2>1 DEF StagedFor, IndInv, TypeOK, Optional, Stages
    <3>2. Staged \in Nat
      BY <3>1, PartialHas, Counted DEF Staged
    <3> QED BY <2>1, <3>2 DEF Continue
  <2>2. CASE Continue([t EXCEPT !.after = 0])
    BY <2>2 DEF Continue
  <2> QED BY <2>1, <2>2 DEF PrepareBootstrap
<1>3. m \in Manifests /\ KnownManifest(m) /\ t \in Turns /\ t.at = "bootstrap" /\ t.manifest = m
  BY <1>1, TurnIs DEF IndInv, LoopInv, Places
<1>4. none \in Partial(Keys, Values) /\ KnownEntries(m, none)
  <2>1. none \in [{} -> Values]
    OBVIOUS
  <2> QED BY <2>1, PartialIs DEF KnownEntries
<1> HIDE DEF t, m, none
<1>5. turn' \in Turns /\ turn'.at = "bootstrap" /\ turn'.manifest = m
  BY <1>2, <1>3 DEF Turns
<1> QED BY <1>1, <1>3, <1>4, <1>5, StageMoves

LEMMA StageStep ==
  ASSUME IndInv, StageBootstrapPage
  PROVE  IndInv'
<1> DEFINE m == turn.manifest
           page1 == turn.reply
           entries == StageEntries
<1>1. /\ Server /\ turn.at = "received" /\ page1.tag = "BootstrapPage" /\ page1.manifest = m
      /\ UNCHANGED <<world, generation, cursor, serverCursor, canonical, retracted>>
      /\ UNCHANGED <<session, due, restart, fault, wire, failures>>
      /\ stage # None /\ stage.manifest = m
      /\ stage' = [stage EXCEPT !.entries = entries]
  BY DEF StageBootstrapPage, PageOfStage, Received, Continue, ContinuesStage, StagedFor
<1>2. /\ page1 \in SnapshotPages /\ m \in Manifests /\ KnownManifest(m)
      /\ KnownEntries(m, page1.entries)
  BY <1>1, ReceivedIs
<1>3. /\ stage \in Stages /\ stage.entries \in Partial(Keys, Values)
      /\ KnownEntries(m, stage.entries)
  BY <1>1 DEF IndInv, TypeOK, ClientInv, Optional, Stages
<1>4. page1.entries \in Partial(Keys, Values)
  BY <1>2 DEF SnapshotPages
<1>5. entries \in Partial(Keys, Values)
  <2> DEFINE D == DOMAIN stage.entries \cup DOMAIN page1.entries
  <2>1. D \in SUBSET Keys
    BY <1>3, <1>4, PartialHas
  <2>2. entries \in [D -> Values]
    BY <1>3, <1>4, PartialHas DEF StageEntries
  <2> HIDE DEF D
  <2> QED BY <2>1, <2>2, PartialIs
<1>6. KnownEntries(m, entries)
  BY <1>2, <1>3 DEF KnownEntries, StageEntries
<1>7. stage' = [manifest |-> m, entries |-> entries]
  BY <1>1, <1>3 DEF Stages
<1>8. turn' \in Turns /\ turn'.manifest = m /\ turn'.at \in {"bootstrap", "install"}
  <2>1. CASE page1.more
    <3> DEFINE t == TurnAt("bootstrap")
               n == Cardinality(DOMAIN page1.entries)
    <3>1. turn' = [t EXCEPT !.after = @ + n]
      BY <2>1 DEF StageBootstrapPage, Continue
    <3>2. n \in Nat
      BY <1>4, PartialHas, Counted
    <3>3. t \in Turns /\ t.at = "bootstrap" /\ t.manifest = m
      BY TurnIs DEF Places
    <3> HIDE DEF t, n, m
    <3> QED BY <3>1, <3>2, <3>3 DEF Turns
  <2>2. CASE ~page1.more
    <3>1. turn' = TurnAt("install")
      BY <2>2 DEF StageBootstrapPage, Continue
    <3> QED BY <3>1, TurnIs DEF Places
  <2> QED BY <2>1, <2>2
<1> HIDE DEF m, entries, page1
<1> QED BY <1>1, <1>2, <1>5, <1>6, <1>7, <1>8, StageMoves

\* A stage with as many entries as the snapshot has is that snapshot.
LEMMA InstallStep ==
  ASSUME IndInv, InstallBootstrap
  PROVE  IndInv'
<1> DEFINE m == turn.manifest
           t == TurnAt("pull")
<1>1. /\ Server /\ turn.at = "install" /\ stage # None /\ stage.manifest = m
      /\ Cardinality(DOMAIN stage.entries) = m.count
      /\ canonical' = StagedContent
      /\ retracted' = (retracted \cup Present(canonical)) \ DOMAIN stage.entries
      /\ cursor' = [view |-> m.view, revision |-> 0]
      /\ serverCursor' = m.sequence /\ stage' = None
      /\ turn' = [t EXCEPT !.manifest = None, !.after = 0]
      /\ UNCHANGED <<session, due, restart, fault, wire, failures, world, generation>>
  BY DEF InstallBootstrap, Installable, StagedFor, Staged, Continue
<1>2. /\ m \in Manifests /\ KnownManifest(m) /\ TypeOK /\ ClientInv /\ ServerInv
      /\ stage.entries \in Partial(Keys, Values) /\ KnownEntries(m, stage.entries)
  BY <1>1 DEF IndInv, LoopInv, TypeOK, ClientInv, Optional, Stages
<1>3. m.view \in Nat /\ m.sequence \in Nat
  BY <1>2 DEF Manifests
<1>4. DOMAIN stage.entries \subseteq Keys /\ \A k \in DOMAIN stage.entries : stage.entries[k] \in Values
  BY <1>2, PartialHas
<1>5. t \in Turns /\ t.at = "pull"
  BY TurnIs DEF Places
<1> HIDE DEF m, t
<1>6. turn' \in Turns /\ turn'.at = "pull" /\ turn'.manifest = None
  BY <1>1, <1>5 DEF Turns, Optional
<1>7. cursor' \in Optional(Cursors) /\ KnownCursor(cursor')
  <2>1. Current(m.view) => 0 <= Top
    BY Typed DEF Top, Current, IndInv, ServerInv, Views, Pages
  <2> QED BY <1>1, <1>2, <1>3, <2>1 DEF Optional, Cursors, KnownCursor, KnownManifest
<1>8. canonical' \in Contents /\ retracted' \subseteq Keys
  BY <1>1, <1>2, <1>4 DEF StagedContent, Contents, Present, TypeOK
<1>9. Current(m.view) => canonical' = snapshot.content
  <2> SUFFICES ASSUME Current(m.view) PROVE canonical' = snapshot.content
    OBVIOUS
  <2> DEFINE S == Present(snapshot.content)
             D == DOMAIN stage.entries
  <2>1. snapshot \in SnapshotRecords /\ m = Manifest(snapshot)
    BY <1>2, Typed DEF Current, KnownManifest
  <2>2. snapshot.content \in Contents /\ m.count = Cardinality(S)
    BY <2>1, ManifestIs DEF SnapshotRecords
  <2>3. D \subseteq S /\ \A k \in D : stage.entries[k] = snapshot.content[k]
    BY <1>2, <1>4 DEF KnownEntries, Present
  <2>4. S \subseteq Keys /\ Cardinality(D) = Cardinality(S)
    BY <1>1, <2>2 DEF Present
  <2>5. D = S
    <3> HIDE DEF D, S
    <3>1. IsFiniteSet(S)
      BY <2>4, Counted
    <3> QED BY <2>3, <2>4, <3>1, FS_Subset
  <2>6. \A k \in Keys : canonical'[k] = snapshot.content[k]
    BY <1>1, <2>3, <2>5 DEF StagedContent, Present
  <2>7. \A c, d \in Contents : (\A k \in Keys : c[k] = d[k]) => c = d
    BY DEF Contents
  <2> QED BY <1>8, <2>2, <2>6, <2>7
<1>10. ViewAgrees'
  <2>1. UNCHANGED <<view, page>>
    BY <1>1 DEF Server, serverVars
  <2>2. ASSUME Current(m.view)
        PROVE  /\ view.revision = 0 => view.content = snapshot.content
               /\ page # None => page.target # 0
    BY <1>2, <2>2, Typed DEF ServerInv, Current, Views
  <2> QED BY <1>1, <1>9, <2>1, <2>2 DEF ViewAgrees, Current
<1> QED BY <1>1, <1>2, <1>3, <1>6, <1>7, <1>8, <1>10, ClientMoves DEF TypeOK, ClientInv, Optional

LEMMA RevokeStep ==
  ASSUME IndInv, RevokeReplication
  PROVE  IndInv'
<1>1. /\ Server /\ retracted' = retracted \cup Present(canonical) /\ canonical' = Nothing
      /\ stage' = None /\ cursor' = None /\ turn' = Idle
      /\ UNCHANGED <<session, due, restart, wire, failures, world, generation, serverCursor>>
  BY DEF RevokeReplication, Fail
<1>2. TypeOK /\ ClientInv
  BY DEF IndInv
<1>3. canonical' \in Contents /\ retracted' \subseteq Keys
  BY <1>1, <1>2 DEF Nothing, Contents, Present, TypeOK
<1>4. ViewAgrees' /\ KnownCursor(cursor')
  BY <1>1 DEF ViewAgrees, KnownCursor
<1> QED BY <1>1, <1>2, <1>3, <1>4, TurnIs, ClientMoves DEF TypeOK, ClientInv, Optional

LEMMA SetScopeStep ==
  ASSUME IndInv, SetScope
  PROVE  IndInv'
<1>1. /\ Server /\ generation < Len(world.scopes) /\ generation' = generation + 1
      /\ stage' = None /\ restart' = TRUE
      /\ UNCHANGED <<world, cursor, serverCursor, canonical, retracted>>
      /\ UNCHANGED <<turn, session, due, fault, wire, failures>>
  BY DEF SetScope
<1>2. TypeOK /\ ClientInv /\ LoopInv
  BY DEF IndInv
<1>3. generation' \in 1 .. Len(world.scopes)
  <2>1. world.scopes \in Seq(SUBSET Keys) /\ generation \in 1 .. Len(world.scopes)
    BY <1>2 DEF TypeOK
  <2> QED BY <1>1, <2>1
<1>4. ViewAgrees'
  BY <1>1, ServerRests DEF Server
<1> QED BY <1>1, <1>2, <1>3, <1>4, ClientMoves DEF TypeOK, ClientInv, LoopInv, Optional

LEMMA AbandonStep ==
  ASSUME IndInv, Abandon, restart' \in BOOLEAN, failures' \in Nat
  PROVE  IndInv'
<1>1. /\ Server /\ UNCHANGED clientVars /\ turn' = Idle /\ session' = session + 1
      /\ due' = TRUE /\ wire' = wire
  BY DEF Abandon
<1>2. wire \subseteq Requests /\ \A r \in wire : KnownCursor(r.cursor)
  BY Typed
<1> QED BY <1>1, <1>2, TurnIs, TurnMoves

-----------------------------------------------------------------------------
(***************************************************************************)
(* The invariant holds at first, and every step keeps it.                  *)
(***************************************************************************)
LEMMA InitInv == Init => IndInv
<1> SUFFICES ASSUME Init PROVE IndInv
  OBVIOUS
<1> USE DEF Init
<1>1. Idle \in Turns /\ Idle.at = "idle" /\ Idle.manifest = None
  BY DEF Idle, Turns, Places, Optional
<1>2. TypeOK
  <2>1. world.scopes \in Seq(SUBSET Keys) /\ world.scopes # <<>> /\ world.readers \subseteq SUBSET Keys
    OBVIOUS
  <2>2. generation \in 1 .. Len(world.scopes)
    BY <2>1
  <2>3. turn.pass \in 1 .. 2 /\ turn.manifest \in Optional(Manifests) /\ turn.after \in Nat
    BY <1>1 DEF Turns
  <2>4. canonical \in Contents
    BY DEF Nothing, Contents
  <2>5. /\ entities \in Contents /\ log \in Seq(Keys) /\ floor \in Nat
        /\ readable \subseteq Keys /\ admitted \in BOOLEAN /\ granted \subseteq Keys
        /\ epoch \in Nat /\ policies \in Nat /\ nextId \in Nat /\ world \in Worlds
    BY <2>1
  <2>6. /\ view \in Optional(Views) /\ page \in Optional(Pages)
        /\ snapshot \in Optional(SnapshotRecords) /\ cursor \in Optional(Cursors)
        /\ stage \in Optional(Stages)
    BY DEF Optional
  <2>7. /\ serverCursor \in Nat /\ retracted \subseteq Keys /\ session \in Nat /\ due \in BOOLEAN
        /\ restart \in BOOLEAN /\ wire \subseteq Requests /\ failures \in Nat
    OBVIOUS
  <2> HIDE DEF Init
  <2> QED BY <2>2, <2>3, <2>4, <2>5, <2>6, <2>7 DEF TypeOK
<1>3. LoopInv
  BY <1>1 DEF LoopInv
<1>4. ServerInv
  BY DEF ServerInv
<1>5. ClientInv
  BY <1>1 DEF ClientInv, KnownCursor
<1>6. ViewAgrees
  BY DEF ViewAgrees
<1> QED BY <1>2, <1>3, <1>4, <1>5, <1>6 DEF IndInv

LEMMA StutterStep ==
  ASSUME IndInv, UNCHANGED vars
  PROVE  IndInv'
<1>1. UNCHANGED <<serverVars, clientVars, turn, session, restart, fault, wire, failures, due,
                  entities, log, floor, readable, admitted, granted, epoch, policies>>
  BY DEF vars, loopVars, spaceVars, policyVars
<1> QED BY <1>1, OthersMove DEF IndInv, TypeOK

LEMMA NextInv == IndInv /\ [Next]_vars => IndInv'
<1> SUFFICES ASSUME IndInv, [Next]_vars PROVE IndInv'
  OBVIOUS
<1>1. CASE UNCHANGED vars
  BY <1>1, StutterStep
<1>2. CASE LoopStep
  BY <1>2, BeginStep, SendPullStep, SendBootstrapStep, ApplyStep, ValidateStep, PrepareStep,
     StageStep, InstallStep, RevokeStep, RejectStep DEF LoopStep
<1>3. CASE SetScope
  BY <1>3, SetScopeStep
<1>4. CASE Restart
  <2>1. Abandon /\ restart' \in BOOLEAN /\ failures' \in Nat
    BY <1>4, TurnIs DEF Restart
  <2> QED BY <2>1, AbandonStep
<1>5. CASE GiveUp
  <2>1. Abandon /\ restart' \in BOOLEAN /\ failures' \in Nat
    BY <1>5, TurnIs DEF GiveUp
  <2> QED BY <2>1, AbandonStep
<1>6. ASSUME NEW r \in wire, ServerStep(r)
      PROVE  IndInv'
  BY <1>6, AuthorizeStep, PullStep, BootstrapStep DEF ServerStep
<1>7. ASSUME NEW k \in Keys, NEW v \in Values \cup {Absent}, Write(k, v)
      PROVE  IndInv'
  BY <1>7, WriteStep
<1>8. CASE Prune
  BY <1>8, PruneStep
<1>9. ASSUME NEW mayRead \in world.readers, NEW admits \in BOOLEAN, SetPolicy(mayRead, admits)
      PROVE  IndInv'
  BY <1>9, PolicyStep
<1>10. CASE InvalidateReadAuthorization
  BY <1>10, InvalidateStep
<1> QED BY <1>1, <1>2, <1>3, <1>4, <1>5, <1>6, <1>7, <1>8, <1>9, <1>10 DEF Next

(* Always, whatever is written, granted and lost: view, snapshot and page  *)
(* belong together, and what the client holds, stages and waits for is     *)
(* known of the view it belongs to.                                        *)
THEOREM Invariance == Spec => []IndInv
<1>1. Init => IndInv
  BY InitInv
<1>2. IndInv /\ [Next]_vars => IndInv'
  BY NextInv
<1> QED BY <1>1, <1>2, PTL DEF Spec

(***************************************************************************)
(* The properties.                                                         *)
(***************************************************************************)
(* Every variable holds values of its type (scopedReplication.ts,          *)
(* LocalStore.ts).                                                         *)
THEOREM TypeCorrect == Spec => []TypeOK
<1>1. IndInv => TypeOK
  BY DEF IndInv
<1> QED BY <1>1, Invariance, PTL

(* The server's record of what the client acknowledged is what the client  *)
(* holds, at the view's own cursor and at that of the outstanding page     *)
(* (pullLocked, applyAcknowledgedPage, applyViewPage, installBootstrap).   *)
THEOREM AgreementCorrect == Spec => []ViewAgrees
<1>1. IndInv => ViewAgrees
  BY DEF IndInv
<1> QED BY <1>1, Invariance, PTL

(***************************************************************************)
(* Answers that hold what the client may see when they are sent.           *)
(***************************************************************************)
VisibleNow(m) ==
  \A pair \in Sent(m) : pair[1] \in readable /\ entities[pair[1]] = pair[2]

LEMMA PageVisible ==
  ASSUME NEW m \in PullPages,
         \A k \in DOMAIN m.changes : m.changes[k].tag = "Upsert" =>
           k \in readable /\ m.changes[k].value = entities[k]
  PROVE  VisibleNow(m)
<1>1. m.tag = "PullPage"
  BY DEF PullPages
<1>2. Sent(m) = {<<k, m.changes[k].value>> : k \in {j \in DOMAIN m.changes :
                                                      m.changes[j].tag = "Upsert"}}
  BY <1>1 DEF Sent
<1> QED BY <1>2 DEF VisibleNow

LEMMA EntriesVisible ==
  ASSUME NEW m \in SnapshotPages,
         \A k \in DOMAIN m.entries : k \in readable /\ m.entries[k] = entities[k]
  PROVE  VisibleNow(m)
<1>1. m.tag = "BootstrapPage"
  BY DEF SnapshotPages
<1>2. Sent(m) = {<<k, m.entries[k]>> : k \in DOMAIN m.entries}
  BY <1>1 DEF Sent
<1> QED BY <1>2 DEF VisibleNow

LEMMA NothingSent ==
  ASSUME NEW m, m.tag \notin {"PullPage", "BootstrapPage"}
  PROVE  VisibleNow(m)
  BY DEF VisibleNow, Sent

\* The only steps that give an answer to the loop are those of the server.
LEMMA OnlyServerAnswers ==
  ASSUME TypeOK, LoopInv, [Next]_vars, turn.at = "waiting", turn'.at = "received"
  PROVE  \E r \in wire : ServerStep(r)
<1>1. turn' # turn
  OBVIOUS
<1>2. ~UNCHANGED vars
  BY <1>1 DEF vars, loopVars
<1>3. ~LoopStep
  BY DEF LoopStep, Begin, SendPull, SendBootstrap, ApplyViewPage, ValidateManifest, PrepareBootstrap,
     StageBootstrapPage, InstallBootstrap, RevokeReplication, Reject, Offered, Received, PageOfStage
<1>4. turn' # Idle
  BY DEF Idle
<1>5. ~SetScope /\ ~Restart /\ ~GiveUp
  BY <1>1, <1>4 DEF SetScope, Restart, GiveUp, Abandon
<1>6. \A k \in Keys, v \in Values \cup {Absent} : ~Write(k, v)
  BY <1>1 DEF Write, Wake
<1>7. ~Prune
  BY <1>1 DEF Prune, loopVars
<1>8. \A mayRead \in world.readers, admits \in BOOLEAN : ~SetPolicy(mayRead, admits)
  BY <1>1 DEF SetPolicy, Wake
<1>9. ~InvalidateReadAuthorization
  BY <1>1 DEF InvalidateReadAuthorization, Wake
<1> QED BY <1>2, <1>3, <1>5, <1>6, <1>7, <1>8, <1>9 DEF Next

LEMMA AnswerVisible ==
  ASSUME IndInv, NEW r \in wire, NEW m, Reply(r, m), VisibleNow(m),
         turn.at = "waiting", turn'.at = "received"
  PROVE  VisibleNow(turn'.reply)
<1>1. turn' = [turn EXCEPT !.at = "received", !.reply = m]
  BY DEF Reply
<1>2. turn'.reply = m
  BY <1>1 DEF IndInv, LoopInv, Turns
<1> QED BY <1>2

LEMMA SentVisible ==
  ASSUME IndInv, NEW r \in wire, ServerStep(r), turn.at = "waiting", turn'.at = "received"
  PROVE  VisibleNow(turn'.reply)
<1>1. r \in Requests /\ r.scope \in SUBSET Keys /\ r.after \in Nat /\ TypeOK
  BY Typed DEF IndInv, Requests
<1>2. \A k \in Keys : Visible(r.scope)[k] # Absent => k \in readable /\ Visible(r.scope)[k] = entities[k]
  BY <1>1, Seen
<1>3. ASSUME NEW tag \in Refusals \cup {"AuthorizationDenied"}, Reply(r, Answered(tag))
      PROVE  VisibleNow(turn'.reply)
  <2>1. VisibleNow(Answered(tag))
    BY NothingSent DEF Answered, Refusals
  <2> QED BY <1>3, <2>1, AnswerVisible
<1>4. ASSUME NEW s, Reply(r, BootstrapRequired(s))
      PROVE  VisibleNow(turn'.reply)
  <2>1. VisibleNow(BootstrapRequired(s))
    BY NothingSent DEF BootstrapRequired
  <2> QED BY <1>4, <2>1, AnswerVisible
<1>5. ASSUME NEW s \in SnapshotRecords, NEW after \in Nat, Reply(r, BootstrapPage(s, after)),
             \A k \in DOMAIN EntriesAfter(s.content, after) : s.content[k] = Visible(r.scope)[k]
      PROVE  VisibleNow(turn'.reply)
  <2>1. s.content \in Contents
    BY DEF SnapshotRecords
  <2>2. \A k \in DOMAIN EntriesAfter(s.content, after) :
          k \in readable /\ EntriesAfter(s.content, after)[k] = entities[k]
    BY <1>2, <1>5, <2>1, EntriesAre
  <2>3. VisibleNow(BootstrapPage(s, after))
    BY <2>2, SnapshotPageIs, EntriesVisible
  <2> QED BY <1>5, <2>3, AnswerVisible
<1>6. ASSUME NEW p \in Pages, Reply(r, PageReply(p)),
             \A k \in DOMAIN p.changes : p.changes[k].tag = "Upsert" =>
               k \in readable /\ p.changes[k].value = entities[k]
      PROVE  VisibleNow(turn'.reply)
  <2>1. PageReply(p) \in PullPages /\ PageReply(p).changes = p.changes
    BY DEF PageReply, PullPages, Pages
  <2>2. VisibleNow(PageReply(p))
    BY <1>6, <2>1, PageVisible
  <2> QED BY <1>6, <2>2, AnswerVisible
<1>7. CASE AuthorizeScope(r)
  <2>1. Reply(r, Answered("AuthorizationDenied"))
    BY <1>7 DEF AuthorizeScope
  <2> QED BY <1>3, <2>1
<1>8. CASE Refuse(r)
  <2>1. PICK tag \in Refusals : Reply(r, Answered(tag))
    BY <1>8 DEF Refuse, Refusals
  <2> QED BY <1>3, <2>1
<1>9. CASE OfferSnapshot(r)
  BY <1>4, <1>9 DEF OfferSnapshot
<1>10. CASE RepeatPage(r)
  <2>1. Reply(r, PageReply(page)) /\ PageSafe(r) /\ page \in Pages /\ Inserts(page.changes)
    BY <1>10, Typed DEF RepeatPage, RepeatsPage, IndInv, ServerInv
  <2>2. DOMAIN page.changes \subseteq Keys
    <3>1. page.changes \in Partial(Keys, ChangeSet)
      BY <2>1 DEF Pages
    <3> QED BY <3>1, PartialHas
  <2>3. \A k \in DOMAIN page.changes : page.changes[k].tag = "Upsert" =>
          k \in readable /\ page.changes[k].value = entities[k]
    BY <1>2, <2>1, <2>2 DEF PageSafe, Inserts
  <2> QED BY <1>6, <2>1, <2>3
<1>11. CASE AdvanceView(r)
  <2> DEFINE p == NextPage(r, AcknowledgedView)
  <2>1. Reply(r, PageReply(p)) /\ view # None
    BY <1>11 DEF AdvanceView, Advances, Recognized
  <2>2. AcknowledgedView \in Views
    BY <1>1, <2>1, AcknowledgedIs
  <2>3. p \in Pages /\ \A k \in DOMAIN p.changes : p.changes[k].tag = "Upsert" =>
          k \in readable /\ p.changes[k].value = entities[k]
    BY <1>1, <2>2, NextPageIs
  <2> HIDE DEF p
  <2> QED BY <1>6, <2>1, <2>3
<1>12. CASE ServeSnapshot(r)
  <2>1. snapshot \in SnapshotRecords
    BY <1>12, Typed DEF ServeSnapshot, SnapshotMatches
  <2>2. CASE Reply(r, Answered("CursorGap"))
    BY <1>3, <2>2 DEF Refusals
  <2>3. CASE EntriesValid(r) /\ Reply(r, BootstrapPage(snapshot, r.after))
    BY <1>1, <1>5, <2>1, <2>3 DEF EntriesValid
  <2> QED BY <1>12, <2>2, <2>3 DEF ServeSnapshot
<1>13. CASE ReplaceSnapshot(r)
  <2>1. CASE Reply(r, Answered("StaleReplicationScope"))
    BY <1>3, <2>1 DEF Refusals
  <2>2. CASE Reply(r, BootstrapPage(FreshSnapshot(r), 0))
    <3>1. FreshSnapshot(r) \in SnapshotRecords /\ FreshSnapshot(r).content = Visible(r.scope)
      BY <1>1, FreshIs
    <3> QED BY <1>5, <2>2, <3>1
  <2> QED BY <1>13, <2>1, <2>2 DEF ReplaceSnapshot
<1> QED BY <1>7, <1>8, <1>9, <1>10, <1>11, <1>12, <1>13 DEF ServerStep, Pull, Bootstrap

(* Whatever is sent to the client, also a page sent before or an entry of  *)
(* an old snapshot, is its current value and readable when it is sent      *)
(* (PageSafe, EntriesValid).                                               *)
THEOREM SentCorrect == Spec => OnlyVisibleIsSent
<1>1. IndInv /\ [Next]_vars => (turn.at = "waiting" /\ turn'.at = "received" => VisibleNow(turn'.reply))
  <2> SUFFICES ASSUME IndInv, [Next]_vars, turn.at = "waiting", turn'.at = "received"
               PROVE  VisibleNow(turn'.reply)
    OBVIOUS
  <2>1. PICK r \in wire : ServerStep(r)
    BY OnlyServerAnswers DEF IndInv
  <2> QED BY <2>1, SentVisible
<1>2. IndInv /\ [Next]_vars =>
        [turn.at = "waiting" /\ turn'.at = "received" =>
           \A pair \in Sent(turn'.reply) :
             pair[1] \in readable /\ entities[pair[1]] = pair[2]]_vars
  BY <1>1 DEF VisibleNow
<1> QED BY <1>2, Invariance, PTL DEF Spec, OnlyVisibleIsSent
================================================================================
