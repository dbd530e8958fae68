------------------------ MODULE BrowserReplicaProofs ------------------------
(***************************************************************************)
(* Proofs about BrowserReplica for every set of tabs and builds, whatever  *)
(* the applications call, with any number of messages, closed tabs and     *)
(* failed starts.                                                          *)
(***************************************************************************)
EXTENDS BrowserReplica, SequenceTheorems, TLAPS

USE BrowserAssumption

(***************************************************************************)
(* The values of the variables the properties depend on.                   *)
(***************************************************************************)
Phases == {"waiting", "queued", "building", "leading", "draining", "fenced"}

Stages == {"routing", "running", "stopping", "replied", "cut"}

Underway ==
  [op : Calls, stage : Stages, host : Tabs \cup {None}, fresh : BOOLEAN, id : Nat,
   recorded : SUBSET Nat, effects : Nat, done : BOOLEAN, lost : BOOLEAN]

Streams == {"Subscribed", "Keys", "End"}

Replies == {"Answer", "Interrupt"}

Messages == Streams \cup Replies

TypeInv ==
  /\ tab \in [Tabs -> {"unopened", "open", "closed"}]
  /\ superseded \subseteq Tabs
  /\ queue \in Seq(Tabs)
  /\ phase \in [Tabs -> Phases]
  /\ cleanup \in [Tabs -> {"no", "leaving", "deleted"}]
  /\ member \in BOOLEAN
  /\ call \in [Tabs -> {NoCall} \cup Underway]
  /\ subscribed \in [Tabs -> Tabs \cup {None}]
  /\ hub \in [Tabs -> {"none", "idle", "pending"}]
  /\ reading \subseteq Tabs /\ live \subseteq Tabs /\ joined \subseteq Tabs
  /\ channel \in [Tabs -> [Tabs -> Seq(Messages)]]

(***************************************************************************)
(* The leader lock.  A tab is in its queue once, and as long as its loop   *)
(* is not back at the start; past the lock it is the first.                *)
(***************************************************************************)
Distinct(q) == \A i, j \in 1 .. Len(q) : q[i] = q[j] => i = j

Has(q, x) == \E i \in 1 .. Len(q) : q[i] = x

Working == {"building", "leading", "draining", "fenced"}

\* The phases in which handlers may run on the replica of a term.
Lent == {"leading", "draining", "fenced"}

LockInv ==
  /\ Distinct(queue)
  /\ \A t \in Tabs : phase[t] # "waiting" <=> Has(queue, t)
  /\ \A t \in Tabs : phase[t] \in Working => HasLock(t)
  /\ \A t \in Tabs : tab[t] = "closed" => phase[t] = "waiting"

TermInv ==
  /\ \A t \in Tabs : Runs(t) => call[t].host \in Tabs /\ phase[call[t].host] \in Lent
  /\ \A h \in Tabs : cleanup[h] # "no" => phase[h] \in Lent

(***************************************************************************)
(* The messages of a channel: the end of a stream is its last message, and *)
(* a call has one answer.                                                  *)
(***************************************************************************)
InOrder(q) ==
  /\ \A i, j \in 1 .. Len(q) : q[i] = "End" /\ q[j] \in Streams => j <= i
  /\ \A i, j \in 1 .. Len(q) : q[i] \in Replies /\ q[j] \in Replies => i = j

ChannelInv == \A h, t \in Tabs : InOrder(channel[h][t])

(***************************************************************************)
(* A retired tab has no call and no stream.                                *)
(***************************************************************************)
RetiredInv ==
  \A t \in superseded :
    /\ call[t] = NoCall /\ subscribed[t] = None /\ hub[t] = "none" /\ t \notin joined

(***************************************************************************)
(* Calls.  An answer on its way is the answer to the call under way, of    *)
(* the host the call went to; a publication is never interrupted; the      *)
(* effects of a call are what has been recorded of it.                     *)
(***************************************************************************)
Answers(c, h, message) ==
  /\ c # NoCall /\ c.stage = "replied" /\ c.host = h
  /\ message = "Answer" => c.done
  /\ message = "Interrupt" => c.op # "Publish"

AnswerInv ==
  \A h \in Tabs : \A t \in Tabs \ superseded : \A message \in Replies :
    Has(channel[h][t], message) => Answers(call[t], h, message)

Once(c) ==
  /\ c.op = "Mutate" =>
       /\ c.id = 1 /\ c.recorded \subseteq {1}
       /\ c.effects = IF 1 \in c.recorded THEN 1 ELSE 0
       /\ c.done => c.effects = 1
  /\ c.op = "Publish" =>
       /\ c.stage # "stopping"
       /\ c.done => c.effects >= 1
       /\ ~c.lost => c.effects = IF c.done THEN 1 ELSE 0

CallInv == \A t \in Tabs : Once(call[t])

(***************************************************************************)
(* Streams.  One that runs is served by an active term; the messages of a  *)
(* stream come from where the tab is subscribed; one that has ended says   *)
(* so, unless its tab closed.                                              *)
(***************************************************************************)
Served(t) ==
  hub[t] # "none" => /\ subscribed[t] # None
                     /\ phase[subscribed[t]] \in {"leading", "draining"}

StreamInv ==
  /\ \A t \in Tabs : Served(t)
  /\ \A h \in Tabs : \A t \in Tabs \ superseded : \A message \in Streams :
       Has(channel[h][t], message) =>
         subscribed[t] = h /\ (message = "End" => hub[t] = "none")
  /\ \A t \in Tabs : subscribed[t] # None /\ hub[t] = "none" =>
       tab[subscribed[t]] = "closed" \/ Has(channel[subscribed[t]][t], "End")

(***************************************************************************)
(* What a proxy remembers, or will when the answer arrives, it remembers   *)
(* while it has a stream, and once the space is gone it is about to be     *)
(* told.                                                                   *)
(***************************************************************************)
Fresh(t) == call[t] # NoCall /\ call[t].fresh

Learns(t) == Fresh(t) /\ call[t].op = "Space" /\ call[t].done /\ call[t].effects = 1

Warned(t) ==
  \/ /\ subscribed[t] # None
     /\ \/ tab[subscribed[t]] = "closed"
        \/ cleanup[subscribed[t]] = "deleted"
        \/ hub[t] = "pending"
  \/ \E u \in Tabs : Has(channel[u][t], "Keys") \/ Has(channel[u][t], "End")

MemoryInv ==
  /\ \A t \in Tabs : t \in joined \/ Fresh(t) \/ t \in live \ superseded => subscribed[t] # None
  /\ ~member => \A t \in Tabs : t \in joined \/ Learns(t) => Warned(t)

IndInv ==
  /\ TypeInv /\ LockInv /\ TermInv /\ ChannelInv /\ RetiredInv
  /\ AnswerInv /\ CallInv /\ StreamInv /\ MemoryInv

-----------------------------------------------------------------------------
(***************************************************************************)
(* Sequences: what a queue holds after an entry came or went.              *)
(***************************************************************************)
LEMMA AppendHas ==
  ASSUME NEW S, NEW q \in Seq(S), NEW x \in S
  PROVE  /\ Append(q, x) \in Seq(S) /\ Append(q, x) # <<>>
         /\ Len(Append(q, x)) = Len(q) + 1 /\ Append(q, x)[Len(q) + 1] = x
         /\ \A i \in 1 .. Len(q) : Append(q, x)[i] = q[i]
         /\ \A y : Has(Append(q, x), y) <=> Has(q, y) \/ y = x
         /\ q # <<>> => Head(Append(q, x)) = Head(q)
  BY DEF Has

LEMMA TailHas ==
  ASSUME NEW S, NEW q \in Seq(S), q # <<>>
  PROVE  /\ Tail(q) \in Seq(S)
         /\ Len(Tail(q)) = Len(q) - 1
         /\ \A i \in 1 .. Len(Tail(q)) : Tail(q)[i] = q[i + 1]
         /\ Has(q, Head(q))
         /\ \A y : Has(Tail(q), y) => Has(q, y)
         /\ \A y : Has(q, y) /\ y # Head(q) => Has(Tail(q), y)
<1>1. /\ Tail(q) \in Seq(S)
      /\ Len(q) \in Nat /\ Len(q) >= 1
      /\ Len(Tail(q)) = Len(q) - 1
      /\ \A i \in 1 .. Len(Tail(q)) : Tail(q)[i] = q[i + 1]
      /\ Head(q) = q[1]
  OBVIOUS
<1>2. Has(q, Head(q))
  BY <1>1 DEF Has
<1>3. ASSUME NEW y, Has(Tail(q), y)
      PROVE  Has(q, y)
  <2>1. PICK i \in 1 .. Len(Tail(q)) : Tail(q)[i] = y
    BY <1>3 DEF Has
  <2>2. i + 1 \in 1 .. Len(q) /\ q[i + 1] = y
    BY <1>1, <2>1
  <2> QED BY <2>2 DEF Has
<1>4. ASSUME NEW y, Has(q, y), y # Head(q)
      PROVE  Has(Tail(q), y)
  <2>1. PICK i \in 1 .. Len(q) : q[i] = y
    BY <1>4 DEF Has
  <2>2. i - 1 \in 1 .. Len(Tail(q)) /\ Tail(q)[i - 1] = y
    BY <1>1, <1>4, <2>1
  <2> QED BY <2>2 DEF Has
<1> QED BY <1>1, <1>2, <1>3, <1>4

LEMMA AppendDistinct ==
  ASSUME NEW S, NEW q \in Seq(S), NEW x \in S, Distinct(q), ~Has(q, x)
  PROVE  Distinct(Append(q, x))
  BY DEF Distinct, Has

\* The leader lock is released, or a request for it withdrawn.
LEMMA RemoveFirstHas ==
  ASSUME NEW S, NEW q \in Seq(S), NEW x, Distinct(q)
  PROVE  /\ RemoveFirst(q, x) \in Seq(S) /\ Distinct(RemoveFirst(q, x))
         /\ \A y : Has(RemoveFirst(q, x), y) <=> Has(q, y) /\ y # x
         /\ q # <<>> /\ Head(q) # x =>
              RemoveFirst(q, x) # <<>> /\ Head(RemoveFirst(q, x)) = Head(q)
<1>1. CASE ~Has(q, x)
  <2>1. RemoveFirst(q, x) = q
    BY <1>1 DEF RemoveFirst, Has
  <2> QED BY <1>1, <2>1
<1>2. CASE Has(q, x)
  <2>1. PICK p \in 1 .. Len(q) : q[p] = x
    BY <1>2 DEF Has
  <2>2. \A i \in 1 .. Len(q) : q[i] = x <=> i = p
    BY <2>1 DEF Distinct
  <2>3. {i \in 1 .. Len(q) : q[i] = x} = {p}
    BY <2>2
  <2>4. SelectInSeq(q, LAMBDA v : v = x) = p
    BY <2>3 DEF SelectInSeq, Min
  <2> DEFINE front == SubSeq(q, 1, p - 1)
             back == SubSeq(q, p + 1, Len(q))
             r == front \o back
  <2>5. RemoveFirst(q, x) = r
    BY <2>1, <2>4 DEF RemoveFirst, RemoveAt
  <2>6. Len(q) \in Nat /\ p \in Nat /\ p >= 1 /\ p <= Len(q)
    BY <2>1
  <2>7. /\ front \in Seq(S) /\ Len(front) = p - 1
        /\ \A i \in 1 .. p - 1 : front[i] = q[i]
    BY <2>6
  <2>8. /\ back \in Seq(S) /\ Len(back) = Len(q) - p
        /\ \A i \in 1 .. Len(q) - p : back[i] = q[p + i]
    BY <2>6
  <2> HIDE DEF front, back
  <2>9. /\ r \in Seq(S) /\ Len(r) = Len(q) - 1
        /\ \A i \in 1 .. Len(q) - 1 : r[i] = IF i < p THEN q[i] ELSE q[i + 1]
    <3>1. /\ r \in Seq(S) /\ Len(r) = Len(q) - 1
          /\ \A i \in 1 .. Len(q) - 1 :
               r[i] = IF i <= p - 1 THEN front[i] ELSE back[i - (p - 1)]
      <4>1. front \in Seq(S) /\ back \in Seq(S)
        BY <2>7, <2>8
      <4>2. /\ r \in Seq(S) /\ Len(r) = Len(front) + Len(back)
            /\ \A i \in 1 .. Len(front) + Len(back) :
                 r[i] = IF i <= Len(front) THEN front[i] ELSE back[i - Len(front)]
        BY ONLY <4>1, ConcatProperties
      <4> HIDE DEF r
      <4>3. Len(front) = p - 1 /\ Len(front) + Len(back) = Len(q) - 1
        BY <2>6, <2>7, <2>8
      <4> QED BY <4>2, <4>3
    <3> HIDE DEF r
    <3>2. ASSUME NEW i \in 1 .. Len(q) - 1
          PROVE  r[i] = IF i < p THEN q[i] ELSE q[i + 1]
      <4>1. CASE i < p
        BY <4>1, <3>1, <2>6, <2>7
      <4>2. CASE i >= p
        <5>1. r[i] = back[i - (p - 1)] /\ i - (p - 1) \in 1 .. Len(q) - p
          BY <4>2, <3>1, <2>6
        <5>2. p + (i - (p - 1)) = i + 1 /\ ~(i < p)
          BY <2>6, <4>2
        <5> QED BY <5>1, <5>2, <2>8
      <4> QED BY <4>1, <4>2, <2>6
    <3> QED BY <3>1, <3>2
  <2> HIDE DEF r
  <2>10. Distinct(r)
    <3> SUFFICES ASSUME NEW i \in 1 .. Len(r), NEW j \in 1 .. Len(r), r[i] = r[j]
                 PROVE  i = j
      BY DEF Distinct
    <3> DEFINE f(n) == IF n < p THEN n ELSE n + 1
    <3>1. f(i) \in 1 .. Len(q) /\ f(j) \in 1 .. Len(q) /\ q[f(i)] = q[f(j)]
      BY <2>6, <2>9
    <3>2. f(i) = f(j)
      BY <3>1 DEF Distinct
    <3> QED BY <3>2, <2>6
  <2>11. ASSUME NEW y, Has(r, y)
         PROVE  Has(q, y) /\ y # x
    <3>1. PICK i \in 1 .. Len(r) : r[i] = y
      BY <2>11 DEF Has
    <3>2. PICK k \in 1 .. Len(q) : k # p /\ q[k] = y
      <4>1. CASE i < p
        BY <4>1, <3>1, <2>6, <2>9
      <4>2. CASE i >= p
        <5>1. i + 1 \in 1 .. Len(q) /\ i + 1 # p /\ q[i + 1] = y
          BY <4>2, <3>1, <2>6, <2>9
        <5> QED BY <5>1
      <4> QED BY <4>1, <4>2, <2>6
    <3> QED BY <3>2, <2>2 DEF Has
  <2>12. ASSUME NEW y, Has(q, y), y # x
         PROVE  Has(r, y)
    <3>1. PICK k \in 1 .. Len(q) : q[k] = y
      BY <2>12 DEF Has
    <3>2. k # p
      BY <3>1, <2>12, <2>1
    <3>3. CASE k < p
      BY <3>3, <3>1, <2>6, <2>9 DEF Has
    <3>4. CASE k > p
      <4>1. k - 1 \in 1 .. Len(r) /\ r[k - 1] = y
        BY <3>4, <3>1, <2>6, <2>9
      <4> QED BY <4>1 DEF Has
    <3> QED BY <3>2, <3>3, <3>4, <2>6
  <2>13. ASSUME Head(q) # x
         PROVE  r # <<>> /\ Head(r) = Head(q)
    <3>1. Head(q) = q[1] /\ p > 1
      BY <2>13, <2>6, <2>1
    <3>2. Len(r) >= 1 /\ r[1] = q[1]
      BY <3>1, <2>6, <2>9
    <3> QED BY <3>1, <3>2, <2>9
  <2> QED BY <2>5, <2>9, <2>10, <2>11, <2>12, <2>13
<1> QED BY <1>1, <1>2

LEMMA AppendInOrder ==
  ASSUME NEW q \in Seq(Messages), InOrder(q), NEW x \in Messages,
         x \in Streams => ~Has(q, "End"),
         x \in Replies => \A y \in Replies : ~Has(q, y)
  PROVE  InOrder(Append(q, x))
<1> DEFINE r == Append(q, x)
<1>1. /\ Len(q) \in Nat /\ Len(r) = Len(q) + 1 /\ r[Len(q) + 1] = x
      /\ \A i \in 1 .. Len(q) : r[i] = q[i]
  OBVIOUS
<1> HIDE DEF r
<1>2. ASSUME NEW i \in 1 .. Len(r), NEW j \in 1 .. Len(r), r[i] = "End", r[j] \in Streams
      PROVE  j <= i
  BY <1>1, <1>2 DEF InOrder, Has
<1>3. ASSUME NEW i \in 1 .. Len(r), NEW j \in 1 .. Len(r), r[i] \in Replies, r[j] \in Replies
      PROVE  i = j
  BY <1>1, <1>3 DEF InOrder, Has
<1> QED BY <1>2, <1>3 DEF InOrder, r

LEMMA TailInOrder ==
  ASSUME NEW q \in Seq(Messages), q # <<>>, InOrder(q)
  PROVE  /\ InOrder(Tail(q))
         /\ Head(q) = "End" => \A y \in Streams : ~Has(Tail(q), y)
         /\ Head(q) \in Replies => \A y \in Replies : ~Has(Tail(q), y)
<1> DEFINE r == Tail(q)
<1>1. /\ Len(q) \in Nat /\ Len(q) >= 1 /\ Len(r) = Len(q) - 1
      /\ \A i \in 1 .. Len(r) : r[i] = q[i + 1]
      /\ Head(q) = q[1]
  OBVIOUS
<1> HIDE DEF r
<1>2. \A i \in 1 .. Len(r) : i + 1 \in 1 .. Len(q) /\ i + 1 # 1 /\ ~(i + 1 <= 1)
  BY <1>1
<1>3. ASSUME NEW i \in 1 .. Len(r), NEW j \in 1 .. Len(r), r[i] = "End", r[j] \in Streams
      PROVE  j <= i
  <2>1. j + 1 <= i + 1
    BY <1>1, <1>2, <1>3 DEF InOrder
  <2> QED BY <2>1
<1>4. ASSUME NEW i \in 1 .. Len(r), NEW j \in 1 .. Len(r), r[i] \in Replies, r[j] \in Replies
      PROVE  i = j
  <2>1. i + 1 = j + 1
    BY <1>1, <1>2, <1>4 DEF InOrder
  <2> QED BY <2>1
<1>5. ASSUME Head(q) = "End", NEW i \in 1 .. Len(r)
      PROVE  r[i] \notin Streams
  BY <1>1, <1>2, <1>5 DEF InOrder
<1>6. ASSUME Head(q) \in Replies, NEW i \in 1 .. Len(r)
      PROVE  r[i] \notin Replies
  BY <1>1, <1>2, <1>6 DEF InOrder
<1> QED BY <1>3, <1>4, <1>5, <1>6 DEF InOrder, Has, r

LEMMA Empty ==
  /\ InOrder(<<>>) /\ <<>> \in Seq(Messages)
  /\ \A y : ~Has(<<>>, y)
  BY DEF InOrder, Has

-----------------------------------------------------------------------------
(***************************************************************************)
(* Channels: which messages are on their way after a step.                 *)
(***************************************************************************)
LEMMA PostHas ==
  ASSUME TypeInv, NEW h \in Tabs, NEW t \in Tabs, NEW m \in Messages, Post(h, t, m)
  PROVE  /\ channel' \in [Tabs -> [Tabs -> Seq(Messages)]]
         /\ \A g, u \in Tabs : \A y :
              Has(channel'[g][u], y) <=> Has(channel[g][u], y) \/ (g = h /\ u = t /\ y = m)
         /\ channel'[h][t] = Append(channel[h][t], m)
         /\ \A g, u \in Tabs : g # h \/ u # t => channel'[g][u] = channel[g][u]
<1>1. /\ channel[h][t] \in Seq(Messages)
      /\ channel' = [channel EXCEPT ![h][t] = Append(channel[h][t], m)]
  BY DEF TypeInv, Post, Posted
<1>2. /\ Append(channel[h][t], m) \in Seq(Messages)
      /\ \A y : Has(Append(channel[h][t], m), y) <=> Has(channel[h][t], y) \/ y = m
  BY <1>1, AppendHas
<1>3. channel' \in [Tabs -> [Tabs -> Seq(Messages)]]
  BY <1>1, <1>2 DEF TypeInv
<1>4. /\ channel'[h][t] = Append(channel[h][t], m)
      /\ \A g, u \in Tabs : g # h \/ u # t => channel'[g][u] = channel[g][u]
  BY <1>1 DEF TypeInv
<1> QED BY <1>2, <1>3, <1>4

LEMMA PostInOrder ==
  ASSUME TypeInv, ChannelInv, NEW h \in Tabs, NEW t \in Tabs, NEW m \in Messages,
         Post(h, t, m),
         m \in Streams => ~Has(channel[h][t], "End"),
         m \in Replies => \A y \in Replies : ~Has(channel[h][t], y)
  PROVE  ChannelInv'
<1>1. channel[h][t] \in Seq(Messages) /\ InOrder(channel[h][t])
  BY DEF TypeInv, ChannelInv
<1>2. InOrder(Append(channel[h][t], m))
  BY <1>1, AppendInOrder
<1>3. /\ channel'[h][t] = Append(channel[h][t], m)
      /\ \A g, u \in Tabs : g # h \/ u # t => channel'[g][u] = channel[g][u]
  BY PostHas
<1> QED BY <1>2, <1>3 DEF ChannelInv

LEMMA TakeHas ==
  ASSUME TypeInv, ChannelInv, NEW h \in Tabs, NEW t \in Tabs, NEW m \in Messages,
         Reads(h, t, m), Take(h, t)
  PROVE  /\ channel' \in [Tabs -> [Tabs -> Seq(Messages)]]
         /\ ChannelInv'
         /\ Has(channel[h][t], m)
         /\ \A g, u \in Tabs : \A y : Has(channel'[g][u], y) => Has(channel[g][u], y)
         /\ \A g, u \in Tabs : \A y :
              Has(channel[g][u], y) /\ ~(g = h /\ u = t /\ y = m) => Has(channel'[g][u], y)
         /\ m = "End" => \A y \in Streams : ~Has(channel'[h][t], y)
         /\ m \in Replies => \A y \in Replies : ~Has(channel'[h][t], y)
<1> DEFINE q == channel[h][t]
<1>1. q \in Seq(Messages) /\ q # <<>> /\ Head(q) = m /\ InOrder(q)
  BY DEF TypeInv, ChannelInv, Reads
<1>2. channel' = [channel EXCEPT ![h][t] = Tail(q)]
  BY DEF Take
<1> HIDE DEF q
<1>3. /\ Tail(q) \in Seq(Messages) /\ Has(q, m)
      /\ \A y : Has(Tail(q), y) => Has(q, y)
      /\ \A y : Has(q, y) /\ y # m => Has(Tail(q), y)
  BY <1>1, TailHas
<1>4. /\ InOrder(Tail(q))
      /\ m = "End" => \A y \in Streams : ~Has(Tail(q), y)
      /\ m \in Replies => \A y \in Replies : ~Has(Tail(q), y)
  BY <1>1, TailInOrder
<1>5. channel' \in [Tabs -> [Tabs -> Seq(Messages)]]
  BY <1>2, <1>3 DEF TypeInv
<1>6. /\ channel'[h][t] = Tail(q) /\ channel[h][t] = q
      /\ \A g, u \in Tabs : g # h \/ u # t => channel'[g][u] = channel[g][u]
  BY <1>2 DEF TypeInv, q
<1>7. ChannelInv'
  BY <1>4, <1>6 DEF ChannelInv
<1>8. ASSUME NEW g \in Tabs, NEW u \in Tabs, NEW y
      PROVE  /\ Has(channel'[g][u], y) => Has(channel[g][u], y)
             /\ Has(channel[g][u], y) /\ ~(g = h /\ u = t /\ y = m) => Has(channel'[g][u], y)
  <2>1. CASE g = h /\ u = t
    BY <1>3, <1>6, <2>1
  <2>2. CASE g # h \/ u # t
    <3>1. channel'[g][u] = channel[g][u]
      BY <1>6, <2>2
    <3> QED BY <2>2, <3>1
  <2> QED BY <2>1, <2>2
<1> QED BY <1>3, <1>4, <1>5, <1>6, <1>7, <1>8

LEMMA ClearHas ==
  ASSUME TypeInv, ChannelInv, NEW h \in Tabs, NEW t \in Tabs,
         channel' = [channel EXCEPT ![h][t] = <<>>]
  PROVE  /\ channel' \in [Tabs -> [Tabs -> Seq(Messages)]]
         /\ ChannelInv'
         /\ \A g, u \in Tabs : \A y :
              Has(channel'[g][u], y) <=> Has(channel[g][u], y) /\ ~(g = h /\ u = t)
<1>1. /\ channel'[h][t] = <<>>
      /\ \A g, u \in Tabs : g # h \/ u # t => channel'[g][u] = channel[g][u]
  BY DEF TypeInv
<1>2. channel' \in [Tabs -> [Tabs -> Seq(Messages)]]
  BY Empty DEF TypeInv
<1> QED BY <1>1, <1>2, Empty DEF ChannelInv

\* The streams of some tabs from a host end.
LEMMA EndHas ==
  ASSUME TypeInv, ChannelInv, NEW h \in Tabs, NEW ended \in SUBSET Tabs,
         \A t \in ended : ~Has(channel[h][t], "End"),
         channel' = [channel EXCEPT ![h] =
           [t \in Tabs |-> IF t \in ended THEN Append(channel[h][t], "End") ELSE channel[h][t]]]
  PROVE  /\ channel' \in [Tabs -> [Tabs -> Seq(Messages)]]
         /\ ChannelInv'
         /\ \A g, u \in Tabs : \A y :
              Has(channel'[g][u], y) <=>
                Has(channel[g][u], y) \/ (g = h /\ u \in ended /\ y = "End")
<1>1. \A g, u \in Tabs : channel'[g][u] =
        IF g = h /\ u \in ended THEN Append(channel[g][u], "End") ELSE channel[g][u]
  BY DEF TypeInv
<1>2. \A g, u \in Tabs : channel[g][u] \in Seq(Messages) /\ InOrder(channel[g][u])
  BY DEF TypeInv, ChannelInv
<1>3. "End" \in Messages /\ "End" \in Streams /\ "End" \notin Replies
  BY DEF Messages, Streams, Replies
<1>4. ASSUME NEW u \in ended
      PROVE  /\ Append(channel[h][u], "End") \in Seq(Messages)
             /\ InOrder(Append(channel[h][u], "End"))
             /\ \A y : Has(Append(channel[h][u], "End"), y) <=> Has(channel[h][u], y) \/ y = "End"
  <2>1. InOrder(Append(channel[h][u], "End"))
    BY <1>2, <1>3, AppendInOrder
  <2> QED BY <2>1, <1>2, <1>3, AppendHas
<1>5. channel' \in [Tabs -> [Tabs -> Seq(Messages)]]
  BY <1>2, <1>4 DEF TypeInv
<1> QED BY <1>1, <1>2, <1>4, <1>5 DEF ChannelInv

LEMMA ClosedHas ==
  ASSUME TypeInv, ChannelInv, NEW t \in Tabs,
         channel' = [h \in Tabs |-> [channel[h] EXCEPT ![t] = <<>>]]
  PROVE  /\ channel' \in [Tabs -> [Tabs -> Seq(Messages)]]
         /\ ChannelInv'
         /\ \A g, u \in Tabs : \A y :
              Has(channel'[g][u], y) <=> Has(channel[g][u], y) /\ u # t
<1>1. \A g, u \in Tabs : channel'[g][u] = IF u = t THEN <<>> ELSE channel[g][u]
  BY DEF TypeInv
<1>2. channel' \in [Tabs -> [Tabs -> Seq(Messages)]]
  BY Empty DEF TypeInv
<1> QED BY <1>1, <1>2, Empty DEF ChannelInv

(***************************************************************************)
(* Calls: what a step leaves of the record of a call.                      *)
(***************************************************************************)
LEMMA Underways ==
  ASSUME TypeInv, NEW t \in Tabs
  PROVE  /\ call[t] # NoCall <=> call[t].op # None
         /\ call[t] # NoCall => call[t] \in Underway /\ call[t].op \in Calls
         /\ call[t] = NoCall => call[t].op \notin Calls
  BY DEF TypeInv, Underway, NoCall

LEMMA Restaged ==
  ASSUME NEW c \in Underway, NEW s \in Stages, NEW d, d = [c EXCEPT !.stage = s]
  PROVE  /\ d \in Underway /\ d # NoCall /\ d.stage = s
         /\ d.op = c.op /\ d.host = c.host /\ d.fresh = c.fresh /\ d.id = c.id
         /\ d.recorded = c.recorded /\ d.effects = c.effects
         /\ d.done = c.done /\ d.lost = c.lost
  BY DEF Underway, NoCall

LEMMA Staled ==
  ASSUME NEW c \in Underway, NEW d, d = Stale(c)
  PROVE  /\ d \in Underway /\ d # NoCall /\ ~d.fresh
         /\ d.op = c.op /\ d.host = c.host /\ d.stage = c.stage /\ d.id = c.id
         /\ d.recorded = c.recorded /\ d.effects = c.effects
         /\ d.done = c.done /\ d.lost = c.lost
  BY DEF Underway, NoCall, Stale

LEMMA Completed ==
  ASSUME NEW c \in Underway, NEW d, d = [c EXCEPT !.done = TRUE]
  PROVE  /\ d \in Underway /\ d # NoCall /\ d.done
         /\ d.op = c.op /\ d.host = c.host /\ d.stage = c.stage /\ d.id = c.id
         /\ d.recorded = c.recorded /\ d.effects = c.effects
         /\ d.fresh = c.fresh /\ d.lost = c.lost
  BY DEF Underway, NoCall

LEMMA NoCallIsQuiet ==
  /\ NoCall.op = None /\ NoCall.op \notin Calls
  /\ Stale(NoCall) = NoCall /\ Once(NoCall)
  BY DEF NoCall, Calls, Stale, Once

-----------------------------------------------------------------------------
(***************************************************************************)
(* The leader lock under the steps of the owners.                          *)
(***************************************************************************)
LEMMA GivenBack ==
  ASSUME TypeInv, LockInv, NEW t \in Tabs, GiveLockBack(t),
         \A u \in Tabs : tab'[u] = "closed" => u = t \/ tab[u] = "closed"
  PROVE  /\ LockInv'
         /\ queue' \in Seq(Tabs) /\ phase' \in [Tabs -> Phases]
         /\ phase'[t] = "waiting"
         /\ \A u \in Tabs : u # t => phase'[u] = phase[u]
<1>1. /\ phase' = [phase EXCEPT ![t] = "waiting"]
      /\ queue' = RemoveFirst(queue, t)
  BY DEF GiveLockBack
<1>2. /\ queue' \in Seq(Tabs) /\ Distinct(queue')
      /\ \A y : Has(queue', y) <=> Has(queue, y) /\ y # t
      /\ queue # <<>> /\ Head(queue) # t => queue' # <<>> /\ Head(queue') = Head(queue)
  BY <1>1, RemoveFirstHas DEF TypeInv, LockInv
<1>3. /\ phase' \in [Tabs -> Phases] /\ phase'[t] = "waiting"
      /\ \A u \in Tabs : u # t => phase'[u] = phase[u]
  BY <1>1 DEF TypeInv, Phases
<1>4. \A u \in Tabs : phase'[u] # "waiting" <=> Has(queue', u)
  BY <1>2, <1>3 DEF LockInv
<1>5. ASSUME NEW u \in Tabs, phase'[u] \in Working
      PROVE  HasLock(u)'
  BY <1>2, <1>3, <1>5 DEF LockInv, HasLock, Working
<1>6. \A u \in Tabs : tab'[u] = "closed" => phase'[u] = "waiting"
  BY <1>3 DEF LockInv
<1> QED BY <1>2, <1>3, <1>4, <1>5, <1>6 DEF LockInv

LEMMA Advanced ==
  ASSUME TypeInv, LockInv, NEW t \in Tabs, NEW p \in Phases \ {"waiting"},
         phase[t] # "waiting", p \in Working => HasLock(t),
         phase' = [phase EXCEPT ![t] = p], UNCHANGED <<tab, queue>>
  PROVE  /\ LockInv'
         /\ queue' \in Seq(Tabs) /\ phase' \in [Tabs -> Phases]
         /\ phase'[t] = p /\ \A u \in Tabs : u # t => phase'[u] = phase[u]
<1>1. /\ phase' \in [Tabs -> Phases] /\ phase'[t] = p
      /\ \A u \in Tabs : u # t => phase'[u] = phase[u]
  BY DEF TypeInv
<1> QED BY <1>1 DEF LockInv, HasLock, TypeInv

\* What the invariant needs of a step that only moves owners: a term that lends its
\* replica goes on lending it, and one with streams goes on serving them.
LEMMA OwnersMove ==
  ASSUME IndInv, LockInv',
         tab' \in [Tabs -> {"unopened", "open", "closed"}],
         queue' \in Seq(Tabs), phase' \in [Tabs -> Phases],
         \A t \in Tabs : tab[t] = "closed" => tab'[t] = "closed",
         \A t \in Tabs : phase[t] \in Lent => phase'[t] \in Lent,
         \A t \in Tabs : phase[t] \in {"leading", "draining"} =>
                           phase'[t] \in {"leading", "draining"},
         UNCHANGED <<superseded, spaceVars, proxyVars, hub, channel>>
  PROVE  IndInv'
<1> USE DEF IndInv, spaceVars, proxyVars
<1>1. TypeInv'
  BY DEF TypeInv
<1>2. TermInv'
  <2>1. \A t \in Tabs : Runs(t)' <=> Runs(t)
    BY DEF Runs
  <2> QED BY <2>1 DEF TermInv
<1>3. ChannelInv'
  BY DEF ChannelInv
<1>4. RetiredInv' /\ AnswerInv' /\ CallInv'
  BY DEF RetiredInv, AnswerInv, CallInv
<1>5. StreamInv'
  <2>1. \A t \in Tabs : Served(t)'
    BY DEF StreamInv, Served, TypeInv
  <2> QED BY <2>1 DEF StreamInv, TypeInv
<1>6. MemoryInv'
  <2>1. \A t \in Tabs : (Learns(t)' <=> Learns(t)) /\ (Fresh(t)' <=> Fresh(t))
    BY DEF Learns, Fresh
  <2>2. \A t \in Tabs : Warned(t) => Warned(t)'
    BY DEF Warned, TypeInv
  <2> QED BY <2>1, <2>2 DEF MemoryInv
<1> QED BY <1>1, <1>2, <1>3, <1>4, <1>5, <1>6

LEMMA OpenTabStep ==
  ASSUME IndInv, NEW t \in Tabs, OpenTab(t)
  PROVE  IndInv'
<1>1. /\ tab[t] = "unopened" /\ tab' = [tab EXCEPT ![t] = "open"]
      /\ UNCHANGED <<superseded, queue, phase, spaceVars, proxyVars, hub, channel>>
  BY DEF OpenTab
<1>2. TypeInv /\ LockInv
  BY DEF IndInv
<1>3. LockInv' /\ queue' \in Seq(Tabs) /\ phase' \in [Tabs -> Phases]
  BY <1>1, <1>2 DEF LockInv, HasLock, TypeInv
<1>4. /\ tab' \in [Tabs -> {"unopened", "open", "closed"}]
      /\ \A u \in Tabs : tab[u] = "closed" => tab'[u] = "closed"
  BY <1>1, <1>2 DEF TypeInv
<1> QED BY <1>1, <1>3, <1>4, OwnersMove

LEMMA MarkerStep ==
  ASSUME IndInv, NEW t \in Tabs, SyncMarker(t) \/ ShowOrHide(t)
  PROVE  IndInv'
<1>1. UNCHANGED <<tab, superseded, queue, phase, spaceVars, proxyVars, hub, channel>>
  BY DEF SyncMarker, ShowOrHide
<1>2. LockInv' /\ TypeInv
  BY <1>1 DEF IndInv, LockInv, HasLock
<1> QED BY <1>1, <1>2, OwnersMove DEF TypeInv

LEMMA CandidateStep ==
  ASSUME IndInv, NEW t \in Tabs, Candidate(t)
  PROVE  IndInv'
<1>1. /\ Open(t) /\ phase[t] = "waiting"
      /\ phase' = [phase EXCEPT ![t] = "queued"] /\ queue' = Append(queue, t)
      /\ UNCHANGED <<tab, superseded, spaceVars, proxyVars, hub, channel>>
  BY DEF Candidate
<1>2. TypeInv /\ LockInv
  BY DEF IndInv
<1>3. queue \in Seq(Tabs) /\ Distinct(queue) /\ ~Has(queue, t)
  BY <1>1, <1>2 DEF TypeInv, LockInv
<1>4. /\ queue' \in Seq(Tabs) /\ queue' # <<>> /\ Distinct(queue')
      /\ \A y : Has(queue', y) <=> Has(queue, y) \/ y = t
      /\ queue # <<>> => Head(queue') = Head(queue)
  BY <1>1, <1>3, AppendHas, AppendDistinct
<1>5. /\ phase' \in [Tabs -> Phases] /\ phase'[t] = "queued"
      /\ \A u \in Tabs : u # t => phase'[u] = phase[u]
  BY <1>1, <1>2 DEF TypeInv, Phases
<1>6. LockInv'
  <2>1. \A u \in Tabs : phase'[u] \in Working => HasLock(u)'
    BY <1>2, <1>4, <1>5 DEF LockInv, HasLock, Working
  <2>2. \A u \in Tabs : tab'[u] = "closed" => phase'[u] = "waiting"
    BY <1>1, <1>2, <1>5 DEF LockInv, Open
  <2> QED BY <1>2, <1>4, <1>5, <2>1, <2>2 DEF LockInv
<1> QED BY <1>1, <1>2, <1>4, <1>5, <1>6, OwnersMove DEF TypeInv, Lent

LEMMA AcquireStep ==
  ASSUME IndInv, NEW t \in Tabs, Acquire(t)
  PROVE  IndInv'
<1>1. /\ phase[t] = "queued" /\ HasLock(t)
      /\ \/ GiveLockBack(t)
         \/ phase' = [phase EXCEPT ![t] = "building"] /\ UNCHANGED queue
      /\ UNCHANGED <<tab, superseded, spaceVars, proxyVars, hub, channel>>
  BY DEF Acquire
<1>2. TypeInv /\ LockInv
  BY DEF IndInv
<1>3. /\ LockInv' /\ queue' \in Seq(Tabs) /\ phase' \in [Tabs -> Phases]
      /\ \A u \in Tabs : u # t => phase'[u] = phase[u]
  <2>1. CASE GiveLockBack(t)
    BY <2>1, <1>1, <1>2, GivenBack
  <2>2. CASE phase' = [phase EXCEPT ![t] = "building"] /\ UNCHANGED queue
    BY <2>2, <1>1, <1>2, Advanced DEF Phases
  <2> QED BY <1>1, <2>1, <2>2
<1> QED BY <1>1, <1>2, <1>3, OwnersMove DEF TypeInv, Lent

LEMMA LeadStep ==
  ASSUME IndInv, NEW t \in Tabs, Lead(t)
  PROVE  IndInv'
<1>1. /\ phase[t] = "building" /\ phase' = [phase EXCEPT ![t] = "leading"]
      /\ UNCHANGED <<tab, queue, superseded, spaceVars, proxyVars, hub, channel>>
  BY DEF Lead
<1>2. TypeInv /\ LockInv /\ HasLock(t)
  BY <1>1 DEF IndInv, LockInv, Working
<1>3. /\ LockInv' /\ queue' \in Seq(Tabs) /\ phase' \in [Tabs -> Phases]
      /\ \A u \in Tabs : u # t => phase'[u] = phase[u]
  BY <1>1, <1>2, Advanced DEF Phases
<1> QED BY <1>1, <1>2, <1>3, OwnersMove DEF TypeInv, Lent

LEMMA BuildFailsStep ==
  ASSUME IndInv, NEW t \in Tabs, BuildFails(t)
  PROVE  IndInv'
<1>1. /\ phase[t] = "building" /\ GiveLockBack(t)
      /\ UNCHANGED <<tab, superseded, spaceVars, proxyVars, hub, channel>>
  BY DEF BuildFails
<1>2. TypeInv /\ LockInv
  BY DEF IndInv
<1>3. /\ LockInv' /\ queue' \in Seq(Tabs) /\ phase' \in [Tabs -> Phases]
      /\ \A u \in Tabs : u # t => phase'[u] = phase[u]
  BY <1>1, <1>2, GivenBack
<1> QED BY <1>1, <1>2, <1>3, OwnersMove DEF TypeInv, Lent

LEMMA CompareStep ==
  ASSUME IndInv, NEW t \in Tabs, Compare(t)
  PROVE  IndInv'
<1>1. /\ phase[t] = "leading"
      /\ phase' = [phase EXCEPT ![t] = "draining"] \/ phase' = phase
      /\ UNCHANGED <<tab, queue, superseded, spaceVars, proxyVars, hub, channel>>
  BY DEF Compare
<1>2. TypeInv /\ LockInv /\ HasLock(t)
  BY <1>1 DEF IndInv, LockInv, Working
<1>3. /\ LockInv' /\ queue' \in Seq(Tabs) /\ phase' \in [Tabs -> Phases]
      /\ phase'[t] \in {"leading", "draining"}
      /\ \A u \in Tabs : u # t => phase'[u] = phase[u]
  <2>1. CASE phase' = phase
    BY <2>1, <1>1, <1>2 DEF LockInv, HasLock, TypeInv
  <2>2. CASE phase' = [phase EXCEPT ![t] = "draining"]
    BY <2>2, <1>1, <1>2, Advanced DEF Phases
  <2> QED BY <1>1, <2>1, <2>2
<1> QED BY <1>1, <1>2, <1>3, OwnersMove DEF TypeInv, Lent

-----------------------------------------------------------------------------
(***************************************************************************)
(* Steps of one call.                                                      *)
(***************************************************************************)
\* No answer is on its way to a call that has not been answered.
LEMMA Unanswered ==
  ASSUME IndInv, NEW t \in Tabs \ superseded, call[t] # NoCall => call[t].stage # "replied"
  PROVE  \A h \in Tabs : \A m \in Replies : ~Has(channel[h][t], m)
  BY DEF IndInv, AnswerInv, Answers

\* What the invariant needs of a step that only changes a call that is not answered.
LEMMA CallMoves ==
  ASSUME IndInv, NEW t \in Tabs \ superseded,
         call[t] # NoCall => call[t].stage # "replied",
         NEW d \in Underway,
         call' = [call EXCEPT ![t] = d],
         UNCHANGED <<tab, superseded, queue, phase, spaceVars, subscribed, hub, reading,
                     live, joined, channel>>,
         d.stage \in {"running", "stopping"} => d.host \in Tabs /\ phase[d.host] \in Lent,
         Once(d),
         d.fresh => subscribed[t] # None,
         ~member /\ d.op = "Space" /\ d.fresh /\ d.done /\ d.effects = 1 => Warned(t)
  PROVE  IndInv'
<1> USE DEF spaceVars
<1>0. TypeInv /\ LockInv /\ TermInv /\ ChannelInv /\ RetiredInv /\ AnswerInv /\ CallInv
      /\ StreamInv /\ MemoryInv
  BY DEF IndInv
<1>1. call'[t] = d /\ \A u \in Tabs : u # t => call'[u] = call[u]
  BY <1>0 DEF TypeInv
<1>2. TypeInv'
  BY <1>0 DEF TypeInv
<1>3. LockInv' /\ ChannelInv'
  BY <1>0 DEF LockInv, ChannelInv, HasLock
<1>4. TermInv'
  BY <1>0, <1>1 DEF TermInv, Runs
<1>5. RetiredInv'
  BY <1>0, <1>1 DEF RetiredInv
<1>6. AnswerInv'
  BY <1>0, <1>1, Unanswered DEF AnswerInv
<1>7. CallInv'
  BY <1>0, <1>1 DEF CallInv
<1>8. StreamInv'
  BY <1>0 DEF StreamInv, Served
<1>9. MemoryInv'
  <2>1. \A u \in Tabs : Warned(u)' <=> Warned(u)
    BY DEF Warned
  <2>2. \A u \in Tabs : u # t => (Learns(u)' <=> Learns(u)) /\ (Fresh(u)' <=> Fresh(u))
    BY <1>1 DEF Learns, Fresh
  <2>3. Fresh(t)' => subscribed[t] # None
    BY <1>1 DEF Fresh
  <2>4. ~member /\ Learns(t)' => Warned(t)
    BY <1>1 DEF Learns, Fresh
  <2> QED BY <1>0, <2>1, <2>2, <2>3, <2>4 DEF MemoryInv
<1> QED BY <1>2, <1>3, <1>4, <1>5, <1>6, <1>7, <1>8, <1>9 DEF IndInv

\* A call that runs: what is known of it.
LEMMA Executing ==
  ASSUME IndInv, NEW t \in Tabs, call[t].op # None
  PROVE  /\ t \notin superseded /\ call[t] \in Underway /\ call[t] # NoCall
         /\ Once(call[t])
         /\ call[t].fresh => subscribed[t] # None
         /\ call[t].stage \in {"running", "stopping"} =>
              call[t].host \in Tabs /\ phase[call[t].host] \in Lent
<1>1. call[t] # NoCall /\ call[t] \in Underway
  BY Underways DEF IndInv
<1> QED BY <1>1 DEF IndInv, RetiredInv, CallInv, MemoryInv, Fresh, TermInv, Runs

LEMMA StartStep ==
  ASSUME IndInv, NEW t \in Tabs, NEW op \in Calls, Start(t, op)
  PROVE  IndInv'
<1> DEFINE d == [op |-> op, stage |-> "routing", host |-> None,
                 fresh |-> op = "Space" /\ t \in live, id |-> 1, recorded |-> {},
                 effects |-> 0, done |-> FALSE, lost |-> FALSE]
<1>1. /\ t \notin superseded /\ call[t] = NoCall /\ call' = [call EXCEPT ![t] = d]
      /\ UNCHANGED <<tab, superseded, queue, phase, spaceVars, subscribed, hub, reading,
                     live, joined, channel>>
  BY DEF Start, ownerVars, spaceVars
<1>2. d \in Underway /\ d.stage = "routing" /\ d.done = FALSE /\ Once(d)
  BY DEF Underway, Stages, Once
<1>3. d.fresh => subscribed[t] # None
  BY <1>1 DEF IndInv, MemoryInv
<1> HIDE DEF d
<1> QED BY <1>1, <1>2, <1>3, CallMoves

LEMMA ServeStep ==
  ASSUME IndInv, NEW t \in Tabs, NEW h \in Tabs, Serve(t, h)
  PROVE  IndInv'
<1> DEFINE d == [call[t] EXCEPT !.stage = "running", !.host = h]
<1>1. /\ call[t].op # None /\ call[t].stage = "routing" /\ phase[h] \in Lent
      /\ call' = [call EXCEPT ![t] = d]
      /\ UNCHANGED <<tab, superseded, queue, phase, spaceVars, subscribed, hub, reading,
                     live, joined, channel>>
  BY DEF Serve, ownerVars, spaceVars, MayServe, Active, Lent, IndInv, TypeInv
<1>2. /\ t \notin superseded /\ call[t] \in Underway /\ Once(call[t])
      /\ call[t].fresh => subscribed[t] # None
  BY <1>1, Executing
<1>3. /\ d \in Underway /\ d.stage = "running" /\ d.host = h /\ d.fresh = call[t].fresh
      /\ d.op = call[t].op /\ d.done = call[t].done /\ d.effects = call[t].effects
      /\ d.id = call[t].id /\ d.recorded = call[t].recorded /\ d.lost = call[t].lost
  BY <1>2 DEF Underway, Stages
<1> HIDE DEF d
<1>4. Once(d)
  BY <1>2, <1>3 DEF Once
<1>5. ~member /\ d.op = "Space" /\ d.fresh /\ d.done /\ d.effects = 1 => Warned(t)
  BY <1>1, <1>3, Underways DEF IndInv, MemoryInv, Learns, Fresh
<1> QED BY <1>1, <1>2, <1>3, <1>4, <1>5, CallMoves

LEMMA CommitStep ==
  ASSUME IndInv, NEW t \in Tabs, Commit(t)
  PROVE  IndInv'
<1> DEFINE c == call[t]
           r == c.recorded \cup {c.id}
           e == IF c.id \in c.recorded THEN c.effects ELSE c.effects + 1
           d == [c EXCEPT !.done = TRUE, !.recorded = r, !.effects = e]
<1>1. /\ c.op = "Mutate" /\ c.stage \in {"running", "stopping"}
      /\ UNCHANGED <<tab, superseded, queue, phase, spaceVars, subscribed, hub, reading,
                     live, joined, channel>>
  BY DEF Commit, Running, ownerVars, spaceVars
<1>2. call' = [call EXCEPT ![t] = d]
  BY DEF Commit, IndInv, TypeInv
<1>3. /\ t \notin superseded /\ c \in Underway /\ Once(c)
      /\ c.fresh => subscribed[t] # None
      /\ c.host \in Tabs /\ phase[c.host] \in Lent
  BY <1>1, Executing DEF Calls
<1> HIDE DEF c
<1>4. r \in SUBSET Nat /\ e \in Nat
  BY <1>3 DEF Underway
<1> HIDE DEF r, e
<1>5. d = [c EXCEPT !.done = TRUE, !.recorded = r, !.effects = e]
  OBVIOUS
<1> HIDE DEF d
<1>6. /\ d \in Underway /\ d.done /\ d.effects = e /\ d.recorded = r
      /\ d.op = c.op /\ d.host = c.host /\ d.stage = c.stage /\ d.id = c.id
      /\ d.fresh = c.fresh
  BY <1>3, <1>4, <1>5 DEF Underway
<1>7. Once(d)
  BY <1>1, <1>3, <1>6 DEF Once, r, e
<1> QED BY <1>1, <1>2, <1>3, <1>6, <1>7, CallMoves DEF c

LEMMA DeliverStep ==
  ASSUME IndInv, NEW t \in Tabs, Deliver(t)
  PROVE  IndInv'
<1> DEFINE c == call[t]
           e == IF c.effects < 2 THEN c.effects + 1 ELSE c.effects
           d == [c EXCEPT !.done = TRUE, !.effects = e]
<1>1. /\ c.op = "Publish" /\ c.stage = "running" /\ ~c.done
      /\ UNCHANGED <<tab, superseded, queue, phase, spaceVars, subscribed, hub, reading,
                     live, joined, channel>>
  BY DEF Deliver, Running, ownerVars, spaceVars
<1>2. call' = [call EXCEPT ![t] = d]
  BY DEF Deliver, IndInv, TypeInv
<1>3. /\ t \notin superseded /\ c \in Underway /\ Once(c)
      /\ c.fresh => subscribed[t] # None
      /\ c.host \in Tabs /\ phase[c.host] \in Lent
  BY <1>1, Executing DEF Calls
<1> HIDE DEF c
<1>4. e \in Nat /\ c.effects \in Nat
  BY <1>3 DEF Underway
<1> HIDE DEF e
<1>5. d = [c EXCEPT !.done = TRUE, !.effects = e]
  OBVIOUS
<1> HIDE DEF d
<1>6. /\ d \in Underway /\ d.done /\ d.effects = e /\ d.op = c.op /\ d.host = c.host
      /\ d.stage = c.stage /\ d.fresh = c.fresh /\ d.lost = c.lost
  BY <1>3, <1>4, <1>5 DEF Underway
<1>7. Once(d)
  BY <1>1, <1>3, <1>4, <1>6 DEF Once, e
<1> QED BY <1>1, <1>2, <1>3, <1>6, <1>7, CallMoves DEF c

LEMMA LookUpStep ==
  ASSUME IndInv, NEW t \in Tabs, LookUp(t)
  PROVE  IndInv'
<1> DEFINE c == call[t]
           e == IF member /\ cleanup[c.host] = "no" THEN 1 ELSE 0
           d == [c EXCEPT !.done = TRUE, !.effects = e]
<1>1. /\ c.op = "Space" /\ c.stage = "running" /\ ~c.done
      /\ UNCHANGED <<tab, superseded, queue, phase, spaceVars, subscribed, hub, reading,
                     live, joined, channel>>
  BY DEF LookUp, Running, ownerVars, spaceVars
<1>2. call' = [call EXCEPT ![t] = d]
  BY DEF LookUp, IndInv, TypeInv
<1>3. /\ t \notin superseded /\ c \in Underway
      /\ c.fresh => subscribed[t] # None
      /\ c.host \in Tabs /\ phase[c.host] \in Lent
  BY <1>1, Executing DEF Calls
<1> HIDE DEF c
<1>4. e \in Nat /\ (e = 1 => member)
  OBVIOUS
<1> HIDE DEF e
<1>5. d = [c EXCEPT !.done = TRUE, !.effects = e]
  OBVIOUS
<1> HIDE DEF d
<1>6. /\ d \in Underway /\ d.effects = e /\ d.op = c.op /\ d.host = c.host
      /\ d.stage = c.stage /\ d.fresh = c.fresh
  BY <1>3, <1>4, <1>5 DEF Underway
<1>7. Once(d)
  BY <1>1, <1>6 DEF Once
<1> QED BY <1>1, <1>2, <1>3, <1>4, <1>6, <1>7, CallMoves DEF c

-----------------------------------------------------------------------------
(***************************************************************************)
(* Steps of several calls: those a fence interrupts, those cut off from a  *)
(* closed tab, and those whose space has been left.                        *)
(***************************************************************************)
Kept(c, d) ==
  \/ d = c
  \/ /\ c \in Underway /\ d \in Underway /\ c.stage \in {"running", "stopping"}
     /\ d.op = c.op /\ d.host = c.host /\ d.fresh = c.fresh /\ d.id = c.id
     /\ d.recorded = c.recorded /\ d.effects = c.effects /\ d.lost = c.lost
     /\ d.done = c.done \/ c.op = "Leave"
     /\ d.stage \in {c.stage, "cut"} \/ (d.stage = "stopping" /\ c.op # "Publish")

LEMMA KeptFacts ==
  ASSUME IndInv, NEW u \in Tabs, Kept(call[u], call'[u])
  PROVE  /\ call'[u] \in {NoCall} \cup Underway
         /\ call[u] = NoCall => call'[u] = NoCall
         /\ Once(call'[u])
         /\ (Fresh(u)' <=> Fresh(u)) /\ (Learns(u)' <=> Learns(u))
         /\ \A h \in Tabs : \A m \in Replies :
              Answers(call[u], h, m) => Answers(call'[u], h, m)
         /\ Runs(u)' => Runs(u) /\ call'[u].host = call[u].host
<1>1. call[u] \in {NoCall} \cup Underway /\ Once(call[u])
  BY DEF IndInv, TypeInv, CallInv
<1>2. NoCall \notin Underway
  BY DEF Underway, NoCall
<1>3. CASE call'[u] = call[u]
  BY <1>1, <1>3 DEF Fresh, Learns, Runs
<1>4. CASE call'[u] # call[u]
  <2> DEFINE c == call[u]
             d == call'[u]
  <2>1. /\ c \in Underway /\ d \in Underway /\ c.stage \in {"running", "stopping"}
        /\ d.op = c.op /\ d.host = c.host /\ d.fresh = c.fresh /\ d.id = c.id
        /\ d.recorded = c.recorded /\ d.effects = c.effects /\ d.lost = c.lost
        /\ d.done = c.done \/ c.op = "Leave"
        /\ d.stage \in {c.stage, "cut"} \/ (d.stage = "stopping" /\ c.op # "Publish")
    BY <1>4 DEF Kept
  <2>2. Once(d)
    BY <1>1, <2>1 DEF Once
  <2>3. (Fresh(u)' <=> Fresh(u)) /\ (Learns(u)' <=> Learns(u))
    BY <2>1, <1>2 DEF Fresh, Learns
  <2>4. \A h \in Tabs : \A m \in Replies : Answers(c, h, m) => Answers(d, h, m)
    BY <2>1 DEF Answers
  <2>5. Runs(u)' => Runs(u) /\ d.host = c.host
    BY <2>1 DEF Runs
  <2> QED BY <2>1, <2>2, <2>3, <2>4, <2>5, <1>2
<1> QED BY <1>3, <1>4

\* Handlers go on running, and cleanups go on, only on replicas that are lent.
LEMMA TermKept ==
  ASSUME TermInv,
         \A u \in Tabs : Runs(u)' => Runs(u) /\ call'[u].host = call[u].host,
         \A h \in Tabs : cleanup'[h] # "no" => cleanup[h] # "no",
         \A h \in Tabs : phase[h] \in Lent /\ phase'[h] \notin Lent =>
           cleanup'[h] = "no" /\ \A u \in Tabs : Runs(u)' => call'[u].host # h
  PROVE  TermInv'
  BY DEF TermInv

\* Answers on their way are answers to calls that have not changed since.
LEMMA AnswersKept ==
  ASSUME AnswerInv, superseded \subseteq superseded',
         \A h \in Tabs : \A u \in Tabs \ superseded' : \A m \in Replies :
           Has(channel'[h][u], m) => Has(channel[h][u], m),
         \A u \in Tabs \ superseded' : \A h \in Tabs : \A m \in Replies :
           Has(channel'[h][u], m) /\ Answers(call[u], h, m) => Answers(call'[u], h, m)
  PROVE  AnswerInv'
  BY DEF AnswerInv

-----------------------------------------------------------------------------
(***************************************************************************)
(* Leaving the space.                                                      *)
(***************************************************************************)
LEMMA LeaveSpaceStep ==
  ASSUME IndInv, NEW t \in Tabs, LeaveSpace(t)
  PROVE  IndInv'
<1> DEFINE c == call[t]
           h == c.host
           d == [c EXCEPT !.done = TRUE]
<1>1. /\ c.op = "Leave" /\ c.stage = "running" /\ cleanup[h] = "no"
      /\ \/ member /\ cleanup' = [cleanup EXCEPT ![h] = "leaving"] /\ UNCHANGED call
         \/ call' = [call EXCEPT ![t] = d] /\ UNCHANGED cleanup
      /\ UNCHANGED <<tab, superseded, queue, phase, member, subscribed, hub, reading,
                     live, joined, channel>>
  BY DEF LeaveSpace, Running, ownerVars
<1>2. /\ t \notin superseded /\ c \in Underway /\ c # NoCall
      /\ c.fresh => subscribed[t] # None
      /\ h \in Tabs /\ phase[h] \in Lent
  BY <1>1, Executing DEF Calls
<1>3. CASE member /\ cleanup' = [cleanup EXCEPT ![h] = "leaving"] /\ UNCHANGED call
  <2> USE DEF IndInv
  <2> HIDE DEF h
  <2>1. TypeInv'
    BY <1>1, <1>2, <1>3 DEF TypeInv
  <2>2. LockInv' /\ ChannelInv' /\ RetiredInv' /\ AnswerInv' /\ CallInv'
    BY <1>1, <1>3 DEF LockInv, HasLock, ChannelInv, RetiredInv, AnswerInv, CallInv
  <2>3. TermInv'
    <3>1. \A u \in Tabs : Runs(u)' <=> Runs(u)
      BY <1>3 DEF Runs
    <3>2. \A g \in Tabs : cleanup'[g] # "no" => g = h \/ cleanup[g] # "no"
      BY <1>2, <1>3 DEF TypeInv
    <3> QED BY <1>1, <1>2, <1>3, <3>1, <3>2 DEF TermInv
  <2>4. StreamInv'
    BY <1>1 DEF StreamInv, Served
  <2>5. MemoryInv'
    BY <1>1, <1>3 DEF MemoryInv, Fresh
  <2> QED BY <2>1, <2>2, <2>3, <2>4, <2>5
<1>4. CASE call' = [call EXCEPT ![t] = d] /\ UNCHANGED cleanup
  <2>1. d = [c EXCEPT !.done = TRUE]
    OBVIOUS
  <2> HIDE DEF c, d
  <2>2. /\ d \in Underway /\ d.op = c.op /\ d.host = c.host /\ d.stage = c.stage
        /\ d.fresh = c.fresh
    BY <1>2, <2>1 DEF Underway
  <2>3. Once(d)
    BY <1>1, <2>2 DEF Once
  <2> QED BY <1>1, <1>2, <1>4, <2>2, <2>3, CallMoves DEF spaceVars, c
<1> QED BY <1>1, <1>3, <1>4

LEMMA DeleteRowsStep ==
  ASSUME IndInv, NEW h \in Tabs, DeleteRows(h)
  PROVE  IndInv'
<1>1. /\ cleanup[h] = "leaving" /\ cleanup' = [cleanup EXCEPT ![h] = "deleted"]
      /\ member' = FALSE
      /\ UNCHANGED <<tab, superseded, queue, phase, proxyVars, hub, channel>>
  BY DEF DeleteRows, ownerVars
<1> USE DEF IndInv, proxyVars
<1>2. TypeInv'
  BY <1>1 DEF TypeInv
<1>3. LockInv' /\ ChannelInv' /\ RetiredInv' /\ AnswerInv' /\ CallInv' /\ StreamInv'
  BY <1>1 DEF LockInv, HasLock, ChannelInv, RetiredInv, AnswerInv, CallInv, StreamInv, Served
<1>4. TermInv'
  <2>1. \A u \in Tabs : Runs(u)' <=> Runs(u)
    BY <1>1 DEF Runs
  <2>2. \A g \in Tabs : cleanup'[g] # "no" => cleanup[g] # "no"
    BY <1>1 DEF TypeInv
  <2> QED BY <1>1, <2>1, <2>2 DEF TermInv
<1>5. MemoryInv'
  <2>1. cleanup'[h] = "deleted" /\ \A g \in Tabs : g # h => cleanup'[g] = cleanup[g]
    BY <1>1 DEF TypeInv
  <2>2. \A u \in Tabs : (Learns(u)' <=> Learns(u)) /\ (Fresh(u)' <=> Fresh(u))
    BY <1>1 DEF Learns, Fresh
  \* Only the holder of the lock has streams, and it is the one that deletes.
  <2>3. ASSUME NEW u \in Tabs, subscribed[u] # None
        PROVE  Warned(u)'
    <3> DEFINE g == subscribed[u]
    <3>1. g \in Tabs
      BY <2>3 DEF TypeInv
    <3>2. CASE hub[u] = "none"
      BY <3>1, <3>2, <1>1, <2>3 DEF StreamInv, Warned
    <3>3. CASE hub[u] # "none"
      <4>1. phase[g] \in Working /\ phase[h] \in Working
        BY <1>1, <3>3 DEF StreamInv, Served, TermInv, Working, Lent
      <4>2. g = h
        BY <3>1, <4>1 DEF LockInv, HasLock
      <4> QED BY <1>1, <2>1, <2>3, <4>2 DEF Warned
    <3> QED BY <3>2, <3>3
  <2> QED BY <1>1, <2>2, <2>3 DEF MemoryInv, Learns
<1> QED BY <1>2, <1>3, <1>4, <1>5

LEMMA AnnounceLeaveStep ==
  ASSUME IndInv, NEW h \in Tabs, AnnounceLeave(h)
  PROVE  IndInv'
<1>1. /\ cleanup[h] = "deleted" /\ cleanup' = [cleanup EXCEPT ![h] = "no"]
      /\ hub' = [t \in Tabs |-> IF t \in Streaming(h) THEN "pending" ELSE hub[t]]
      /\ call' = [t \in Tabs |->
           IF call[t].op = "Leave" /\ call[t].host = h /\ call[t].stage = "running"
           THEN [call[t] EXCEPT !.done = TRUE] ELSE call[t]]
      /\ UNCHANGED <<tab, superseded, queue, phase, member, subscribed, reading, live,
                     joined, channel>>
  BY DEF AnnounceLeave, ownerVars, Published
<1>2. TypeInv /\ LockInv /\ TermInv /\ ChannelInv /\ RetiredInv /\ AnswerInv /\ CallInv
      /\ StreamInv /\ MemoryInv
  BY DEF IndInv
<1>3. ASSUME NEW u \in Tabs
      PROVE  Kept(call[u], call'[u])
  <2>1. CASE call[u].op = "Leave" /\ call[u].host = h /\ call[u].stage = "running"
    <3> DEFINE c == call[u]
               d == call'[u]
    <3>1. c \in Underway /\ d = [c EXCEPT !.done = TRUE]
      BY <1>1, <1>2, <2>1, Underways DEF Calls
    <3> QED BY <3>1, <2>1, Completed DEF Kept
  <2>2. CASE ~(call[u].op = "Leave" /\ call[u].host = h /\ call[u].stage = "running")
    BY <1>1, <2>2 DEF Kept
  <2> QED BY <2>1, <2>2
<1>4. \A u \in Tabs :
        /\ call'[u] \in {NoCall} \cup Underway /\ (call[u] = NoCall => call'[u] = NoCall)
        /\ Once(call'[u])
        /\ (Fresh(u)' <=> Fresh(u)) /\ (Learns(u)' <=> Learns(u))
        /\ \A g \in Tabs : \A m \in Replies :
             Answers(call[u], g, m) => Answers(call'[u], g, m)
        /\ Runs(u)' => Runs(u) /\ call'[u].host = call[u].host
  BY <1>3, KeptFacts
<1>5. \A u \in Tabs : /\ hub'[u] \in {"none", "idle", "pending"}
                      /\ hub'[u] = "none" <=> hub[u] = "none"
                      /\ hub[u] = "pending" => hub'[u] = "pending"
                      /\ subscribed[u] = h /\ hub[u] # "none" => hub'[u] = "pending"
  BY <1>1, <1>2 DEF TypeInv, Streaming
<1>6. cleanup'[h] = "no" /\ \A g \in Tabs : g # h => cleanup'[g] = cleanup[g]
  BY <1>1, <1>2 DEF TypeInv
<1>7. TypeInv'
  <2>1. call' \in [Tabs -> {NoCall} \cup Underway]
    BY <1>1, <1>4
  <2>2. hub' \in [Tabs -> {"none", "idle", "pending"}]
    BY <1>1, <1>5
  <2> QED BY <1>1, <1>2, <2>1, <2>2 DEF TypeInv
<1>8. LockInv' /\ ChannelInv'
  BY <1>1, <1>2 DEF LockInv, HasLock, ChannelInv
<1>9. TermInv'
  BY <1>1, <1>2, <1>4, <1>6, TermKept
<1>10. RetiredInv' /\ CallInv'
  BY <1>1, <1>2, <1>4, <1>5 DEF RetiredInv, CallInv, TypeInv
<1>11. AnswerInv'
  BY <1>1, <1>2, <1>4, AnswersKept
<1>12. StreamInv'
  BY <1>1, <1>2, <1>5 DEF StreamInv, Served
<1>13. MemoryInv'
  <2>1. ASSUME NEW u \in Tabs, Warned(u)
        PROVE  Warned(u)'
    <3>1. CASE subscribed[u] = h /\ hub[u] = "none"
      <4>1. phase[h] # "waiting" /\ tab[h] # "closed"
        BY <1>1, <1>2 DEF TermInv, LockInv, Lent
      <4>2. Has(channel[h][u], "End")
        BY <1>2, <3>1, <4>1 DEF StreamInv
      <4> QED BY <1>1, <4>2 DEF Warned
    <3>2. CASE subscribed[u] = h /\ hub[u] # "none"
      BY <1>1, <1>5, <3>2 DEF Warned
    <3>3. CASE subscribed[u] # h
      BY <1>1, <1>2, <1>5, <1>6, <2>1, <3>3 DEF Warned, TypeInv
    <3> QED BY <3>1, <3>2, <3>3
  <2> QED BY <1>1, <1>2, <1>4, <2>1 DEF MemoryInv
<1> QED BY <1>7, <1>8, <1>9, <1>10, <1>11, <1>12, <1>13 DEF IndInv

-----------------------------------------------------------------------------
(***************************************************************************)
(* Answers.                                                                *)
(***************************************************************************)
LEMMA ReplyStep ==
  ASSUME IndInv, NEW t \in Tabs, Reply(t)
  PROVE  IndInv'
<1> DEFINE c == call[t]
           h == c.host
           d == [c EXCEPT !.stage = "replied"]
<1>1. /\ Runs(t)
      /\ call' = [call EXCEPT ![t] = d]
      /\ UNCHANGED <<tab, superseded, queue, phase, cleanup, member, subscribed, hub,
                     reading, live, joined>>
  BY DEF Reply, ownerVars, spaceVars, IndInv, TypeInv
<1>2. PICK m \in Replies : /\ Post(h, t, m)
                           /\ m = "Answer" => c.done
                           /\ m = "Interrupt" => c.stage = "stopping"
  BY DEF Reply, Replies
<1>3. /\ TypeInv /\ LockInv /\ TermInv /\ ChannelInv /\ RetiredInv /\ AnswerInv /\ CallInv
      /\ StreamInv /\ MemoryInv
  BY DEF IndInv
<1>4. /\ t \notin superseded /\ c \in Underway /\ c # NoCall /\ Once(c) /\ h \in Tabs
      /\ c.stage \in {"running", "stopping"}
  BY <1>1, Executing DEF Runs
<1>5. \A g \in Tabs : \A y \in Replies : ~Has(channel[g][t], y)
  <2>1. c.stage # "replied"
    BY <1>4
  <2> QED BY <1>4, <2>1, Unanswered
<1>6. m \in Messages /\ m \notin Streams
  BY DEF Messages, Replies, Streams
<1>7. d = [c EXCEPT !.stage = "replied"]
  OBVIOUS
<1> HIDE DEF c, h, d
<1>8. /\ d \in Underway /\ d # NoCall /\ d.stage = "replied"
      /\ d.op = c.op /\ d.host = c.host /\ d.fresh = c.fresh /\ d.id = c.id
      /\ d.recorded = c.recorded /\ d.effects = c.effects
      /\ d.done = c.done /\ d.lost = c.lost
  BY <1>4, <1>7, Restaged DEF Stages
<1>9. call'[t] = d /\ \A u \in Tabs : u # t => call'[u] = call[u]
  BY <1>1, <1>3 DEF TypeInv
<1>10. /\ channel' \in [Tabs -> [Tabs -> Seq(Messages)]]
       /\ \A g, u \in Tabs : \A y :
            Has(channel'[g][u], y) <=> Has(channel[g][u], y) \/ (g = h /\ u = t /\ y = m)
  <2>1. Post(h, t, m) /\ TypeInv /\ m \in Messages /\ h \in Tabs
    BY <1>2, <1>3, <1>4, <1>6
  <2> QED BY <2>1, PostHas
<1>11. ChannelInv'
  BY <1>2, <1>3, <1>4, <1>5, <1>6, PostInOrder
<1>12. TypeInv'
  BY <1>1, <1>3, <1>8, <1>10 DEF TypeInv
<1>13. LockInv'
  BY <1>1, <1>3 DEF LockInv, HasLock
<1>14. TermInv'
  BY <1>1, <1>3, <1>8, <1>9 DEF TermInv, Runs
<1>15. RetiredInv'
  BY <1>1, <1>3, <1>4, <1>9 DEF RetiredInv
<1>16. Once(d) /\ (m = "Interrupt" => d.op # "Publish")
  BY <1>2, <1>4, <1>8 DEF Once
<1>17. CallInv'
  BY <1>3, <1>9, <1>16 DEF CallInv
<1>18. AnswerInv'
  <2>1. ASSUME NEW g \in Tabs, NEW u \in Tabs \ superseded, NEW y \in Replies,
               Has(channel'[g][u], y)
        PROVE  Answers(call'[u], g, y)
    <3>1. CASE u # t
      BY <1>3, <1>9, <1>10, <2>1, <3>1 DEF AnswerInv
    <3>2. CASE u = t
      <4>1. g = h /\ y = m
        BY <1>5, <1>10, <2>1, <3>2
      <4> QED BY <1>2, <1>8, <1>9, <1>16, <3>2, <4>1 DEF Answers, c, h
    <3> QED BY <3>1, <3>2
  <2> QED BY <1>1, <2>1 DEF AnswerInv
<1>19. StreamInv'
  <2>1. \A g, u \in Tabs : \A y \in Streams : Has(channel'[g][u], y) <=> Has(channel[g][u], y)
    BY <1>6, <1>10
  <2>2. UNCHANGED <<hub, subscribed, phase, superseded, tab>> /\ "End" \in Streams
    BY <1>1 DEF Streams
  <2>3. \A u \in Tabs : Served(u)'
    BY <1>3, <2>2 DEF StreamInv, Served
  <2>4. ASSUME NEW g \in Tabs, NEW u \in Tabs \ superseded', NEW y \in Streams,
               Has(channel'[g][u], y)
        PROVE  subscribed'[u] = g /\ (y = "End" => hub'[u] = "none")
    <3>1. u \in Tabs \ superseded /\ Has(channel[g][u], y)
      BY <2>1, <2>2, <2>4
    <3>2. subscribed[u] = g /\ (y = "End" => hub[u] = "none")
      BY <1>3, <3>1 DEF StreamInv
    <3> QED BY <2>2, <3>2
  <2>5. ASSUME NEW u \in Tabs, subscribed'[u] # None, hub'[u] = "none"
        PROVE  tab'[subscribed'[u]] = "closed" \/ Has(channel'[subscribed'[u]][u], "End")
    <3>1. PICK g : g = subscribed[u] /\ g = subscribed'[u]
      BY <2>2
    <3>2. g \in Tabs /\ (tab[g] = "closed" \/ Has(channel[g][u], "End"))
      BY <1>3, <2>2, <2>5, <3>1 DEF StreamInv, TypeInv
    <3>3. Has(channel[g][u], "End") => Has(channel'[g][u], "End")
      BY <2>1, <2>2, <3>2
    <3> QED BY <2>2, <3>1, <3>2, <3>3
  <2> QED BY <2>3, <2>4, <2>5 DEF StreamInv
<1>20. MemoryInv'
  <2>1. \A u \in Tabs : (Learns(u)' <=> Learns(u)) /\ (Fresh(u)' <=> Fresh(u))
    BY <1>4, <1>8, <1>9 DEF Learns, Fresh, c
  <2>2. \A u \in Tabs : Warned(u) => Warned(u)'
    BY <1>1, <1>10 DEF Warned
  <2> QED BY <1>1, <1>3, <2>1, <2>2 DEF MemoryInv
<1> QED BY <1>11, <1>12, <1>13, <1>14, <1>15, <1>17, <1>18, <1>19, <1>20 DEF IndInv

\* What the invariant needs of the arrival of an answer, which ends a call or sends it
\* on its way again.
LEMMA AnswerArrives ==
  ASSUME IndInv, NEW t \in Tabs, NEW h \in Tabs, NEW m \in Replies,
         Reads(h, t, m), Take(h, t),
         NEW d \in {NoCall} \cup Underway, call' = [call EXCEPT ![t] = d],
         call[t] = NoCall => d = NoCall,
         Once(d),
         d # NoCall => d.stage = "routing" /\ ~d.done /\ (d.fresh => call[t].fresh),
         joined' \subseteq Tabs,
         \A u \in joined' : u \in joined \/ (u = t /\ Learns(t)),
         UNCHANGED <<tab, superseded, queue, phase, cleanup, member, subscribed, hub,
                     reading, live>>
  PROVE  IndInv'
<1>1. /\ TypeInv /\ LockInv /\ TermInv /\ ChannelInv /\ RetiredInv /\ AnswerInv /\ CallInv
      /\ StreamInv /\ MemoryInv
  BY DEF IndInv
<1>2. m \in Messages /\ m \notin Streams
  BY DEF Messages, Replies, Streams
<1>3. /\ channel' \in [Tabs -> [Tabs -> Seq(Messages)]] /\ ChannelInv'
      /\ Has(channel[h][t], m)
      /\ \A g, u \in Tabs : \A y : Has(channel'[g][u], y) => Has(channel[g][u], y)
      /\ \A g, u \in Tabs : \A y :
           Has(channel[g][u], y) /\ ~(g = h /\ u = t /\ y = m) => Has(channel'[g][u], y)
      /\ \A y \in Replies : ~Has(channel'[h][t], y)
  BY <1>1, <1>2, TakeHas
<1>4. call'[t] = d /\ \A u \in Tabs : u # t => call'[u] = call[u]
  BY <1>1 DEF TypeInv
<1>5. TypeInv'
  BY <1>1, <1>3 DEF TypeInv
<1>6. LockInv'
  BY <1>1 DEF LockInv, HasLock
<1>7. TermInv'
  BY <1>1, <1>4 DEF TermInv, Runs, NoCall
<1>8. RetiredInv'
  BY <1>1, <1>4 DEF RetiredInv, Learns, Fresh
<1>9. CallInv'
  BY <1>1, <1>4 DEF CallInv
<1>10. AnswerInv'
  <2>1. ASSUME NEW g \in Tabs, NEW u \in Tabs \ superseded, NEW y \in Replies,
               Has(channel'[g][u], y)
        PROVE  Answers(call'[u], g, y)
    <3>1. CASE u # t
      BY <1>1, <1>3, <1>4, <2>1, <3>1 DEF AnswerInv
    <3>2. CASE u = t
      <4>1. Answers(call[t], h, m) /\ Answers(call[t], g, y)
        BY <1>1, <1>3, <2>1, <3>2 DEF AnswerInv
      <4>2. g = h
        BY <4>1 DEF Answers
      <4> QED BY <1>3, <2>1, <3>2, <4>2
    <3> QED BY <3>1, <3>2
  <2> QED BY <2>1 DEF AnswerInv
<1>11. StreamInv'
  <2>1. \A g, u \in Tabs : \A y \in Streams : Has(channel'[g][u], y) <=> Has(channel[g][u], y)
    BY <1>2, <1>3
  <2>2. \A u \in Tabs : Served(u)' /\ (subscribed[u] # None => subscribed[u] \in Tabs)
    BY <1>1 DEF StreamInv, Served, TypeInv
  <2>3. "End" \in Streams
    BY DEF Streams
  <2> QED BY <1>1, <2>1, <2>2, <2>3 DEF StreamInv
<1>12. MemoryInv'
  <2>1. \A u \in Tabs : u # t => (Learns(u)' <=> Learns(u)) /\ (Fresh(u)' <=> Fresh(u))
    BY <1>4 DEF Learns, Fresh
  <2>2. ~Learns(t)' /\ (Fresh(t)' => Fresh(t))
    BY <1>4 DEF Learns, Fresh
  <2>3. \A g, u \in Tabs : \A y \in Streams : Has(channel'[g][u], y) <=> Has(channel[g][u], y)
    BY <1>2, <1>3
  <2>4. \A u \in Tabs : Warned(u) => Warned(u)'
    BY <2>3 DEF Warned, Streams
  <2> QED BY <1>1, <2>1, <2>2, <2>4 DEF MemoryInv, Learns
<1> QED BY <1>3, <1>5, <1>6, <1>7, <1>8, <1>9, <1>10, <1>11, <1>12 DEF IndInv

LEMMA ReceiveAnswerStep ==
  ASSUME IndInv, NEW t \in Tabs, NEW h \in Tabs, ReceiveAnswer(t, h)
  PROVE  IndInv'
<1>1. /\ Reads(h, t, "Answer") /\ Take(h, t)
      /\ call' = [call EXCEPT ![t] = NoCall]
      /\ UNCHANGED <<tab, superseded, queue, phase, cleanup, member, subscribed, hub,
                     reading, live>>
  BY DEF ReceiveAnswer, ownerVars, spaceVars
<1>2. /\ TypeInv /\ ChannelInv /\ "Answer" \in Replies /\ "Answer" \in Messages
  BY DEF IndInv, Messages, Replies
<1>3. Has(channel[h][t], "Answer")
  BY <1>1, <1>2, TakeHas
<1>4. call[t].op = "Space" /\ call[t].effects = 1 /\ MayRemember(call[t]) => Learns(t)
  <2> SUFFICES ASSUME call[t].op = "Space", call[t].effects = 1, MayRemember(call[t])
               PROVE  Learns(t)
    OBVIOUS
  <2>1. call[t] # NoCall /\ t \notin superseded
    BY <1>2, Underways DEF Calls, IndInv, RetiredInv
  <2>2. Answers(call[t], h, "Answer")
    BY <1>2, <1>3, <2>1 DEF IndInv, AnswerInv
  <2> QED BY <2>1, <2>2 DEF Learns, Fresh, MayRemember, Answers
<1>5. \/ joined' = joined \cup {t} /\ Learns(t)
      \/ joined' = joined \ {t}
      \/ joined' = joined
  BY <1>4 DEF ReceiveAnswer
<1>6. joined' \subseteq Tabs /\ \A u \in joined' : u \in joined \/ (u = t /\ Learns(t))
  BY <1>2, <1>5 DEF TypeInv
<1> QED BY <1>1, <1>2, <1>6, NoCallIsQuiet, AnswerArrives

LEMMA ReceiveInterruptStep ==
  ASSUME IndInv, NEW t \in Tabs, NEW h \in Tabs, ReceiveInterrupt(t, h)
  PROVE  IndInv'
<1> DEFINE c == call[t]
           d == [c EXCEPT !.stage = "routing", !.host = None, !.done = FALSE, !.id = c.id]
<1>1. /\ Reads(h, t, "Interrupt") /\ Take(h, t)
      /\ UNCHANGED <<tab, superseded, queue, phase, cleanup, member, subscribed, hub,
                     reading, live, joined>>
  BY DEF ReceiveInterrupt, ownerVars, spaceVars
<1>2. /\ TypeInv /\ ChannelInv /\ "Interrupt" \in Replies /\ "Interrupt" \in Messages
      /\ Once(c) /\ joined \subseteq Tabs
  BY DEF IndInv, Messages, Replies, CallInv, TypeInv
<1>3. Has(channel[h][t], "Interrupt")
  BY <1>1, <1>2, TakeHas
<1>4. CASE c = NoCall
  <2>1. call' = call
    BY <1>4 DEF ReceiveInterrupt
  <2>2. call' = [call EXCEPT ![t] = NoCall]
    BY <1>2, <1>4, <2>1 DEF TypeInv
  <2> QED BY <1>1, <1>2, <2>2, NoCallIsQuiet, AnswerArrives
<1>5. CASE c # NoCall
  <2>1. call' = [call EXCEPT ![t] = d]
    BY <1>2, <1>5 DEF ReceiveInterrupt, RetriedId, TypeInv
  <2>2. c \in Underway /\ t \notin superseded
    BY <1>2, <1>5 DEF TypeInv, IndInv, RetiredInv
  <2>3. c.op # "Publish"
    BY <1>2, <1>3, <2>2 DEF IndInv, AnswerInv, Answers
  <2>4. d = [c EXCEPT !.stage = "routing", !.host = None, !.done = FALSE, !.id = c.id]
    OBVIOUS
  <2> HIDE DEF c, d
  <2>5. /\ d \in Underway /\ d.stage = "routing" /\ d.done = FALSE
        /\ d.op = c.op /\ d.fresh = c.fresh /\ d.id = c.id
        /\ d.recorded = c.recorded /\ d.effects = c.effects
    BY <2>2, <2>4 DEF Underway, Stages
  <2>6. Once(d)
    BY <1>2, <2>3, <2>5 DEF Once
  <2> QED BY <1>1, <1>2, <1>5, <2>1, <2>5, <2>6, AnswerArrives DEF c
<1> QED BY <1>4, <1>5

-----------------------------------------------------------------------------
(***************************************************************************)
(* The stream of invalidations.                                            *)
(***************************************************************************)
LEMMA SubscribeStep ==
  ASSUME IndInv, NEW t \in Tabs, NEW h \in Tabs, Subscribe(t, h)
  PROVE  IndInv'
<1>1. /\ t \notin superseded /\ subscribed[t] = None /\ phase[h] \in {"leading", "draining"}
      /\ subscribed' = [subscribed EXCEPT ![t] = h]
      /\ hub' = [hub EXCEPT ![t] = "idle"]
      /\ Post(h, t, "Subscribed")
      /\ UNCHANGED <<tab, superseded, queue, phase, cleanup, member, call, reading, live, joined>>
  BY DEF Subscribe, MayServe, Active, ownerVars, spaceVars
<1>2. /\ TypeInv /\ LockInv /\ TermInv /\ ChannelInv /\ RetiredInv /\ AnswerInv /\ CallInv
      /\ StreamInv /\ MemoryInv
  BY DEF IndInv
<1>3. "Subscribed" \in Messages /\ "Subscribed" \notin Replies /\ "End" \in Streams
  BY DEF Messages, Streams, Replies
<1>4. \A g \in Tabs : \A y \in Streams : ~Has(channel[g][t], y)
  BY <1>1, <1>2 DEF StreamInv, TypeInv
<1>5. /\ channel' \in [Tabs -> [Tabs -> Seq(Messages)]]
      /\ \A g, u \in Tabs : \A y : Has(channel'[g][u], y) <=>
           Has(channel[g][u], y) \/ (g = h /\ u = t /\ y = "Subscribed")
  BY <1>1, <1>2, <1>3, PostHas
<1>6. ChannelInv'
  BY <1>1, <1>2, <1>3, <1>4, PostInOrder
<1>7. /\ subscribed'[t] = h /\ hub'[t] = "idle"
      /\ \A u \in Tabs : u # t => subscribed'[u] = subscribed[u] /\ hub'[u] = hub[u]
  BY <1>1, <1>2 DEF TypeInv
<1>8. TypeInv'
  BY <1>1, <1>2, <1>5 DEF TypeInv
<1>9. LockInv' /\ CallInv'
  BY <1>1, <1>2 DEF LockInv, HasLock, CallInv
<1>10. TermInv'
  <2>1. \A u \in Tabs : Runs(u)' <=> Runs(u)
    BY <1>1 DEF Runs
  <2> QED BY <1>1, <1>2, <2>1 DEF TermInv
<1>11. RetiredInv'
  BY <1>1, <1>2, <1>7 DEF RetiredInv, TypeInv
<1>12. AnswerInv'
  BY <1>1, <1>2, <1>3, <1>5, AnswersKept
<1>13. StreamInv'
  <2>1. \A u \in Tabs : Served(u)'
    BY <1>1, <1>2, <1>7 DEF StreamInv, Served
  <2>2. ASSUME NEW g \in Tabs, NEW u \in Tabs \ superseded, NEW y \in Streams,
               Has(channel'[g][u], y)
        PROVE  subscribed'[u] = g /\ (y = "End" => hub'[u] = "none")
    <3>1. CASE u = t
      <4>1. g = h /\ y = "Subscribed"
        BY <1>4, <1>5, <2>2, <3>1
      <4> QED BY <1>7, <3>1, <4>1
    <3>2. CASE u # t
      <4>1. Has(channel[g][u], y)
        BY <1>5, <2>2, <3>2
      <4>2. subscribed[u] = g /\ (y = "End" => hub[u] = "none")
        BY <1>2, <4>1 DEF StreamInv
      <4> QED BY <1>7, <3>2, <4>2
    <3> QED BY <3>1, <3>2
  <2>3. ASSUME NEW u \in Tabs, subscribed'[u] # None, hub'[u] = "none"
        PROVE  tab'[subscribed'[u]] = "closed" \/ Has(channel'[subscribed'[u]][u], "End")
    <3>1. u # t /\ subscribed'[u] = subscribed[u] /\ hub[u] = "none"
      BY <1>7, <2>3
    <3>2. subscribed[u] \in Tabs
      BY <1>2, <2>3, <3>1 DEF TypeInv
    <3>3. tab[subscribed[u]] = "closed" \/ Has(channel[subscribed[u]][u], "End")
      BY <1>2, <2>3, <3>1 DEF StreamInv
    <3> QED BY <1>1, <1>5, <3>1, <3>2, <3>3
  <2> QED BY <1>1, <2>1, <2>2, <2>3 DEF StreamInv
<1>14. MemoryInv'
  <2>1. \A u \in Tabs : (Learns(u)' <=> Learns(u)) /\ (Fresh(u)' <=> Fresh(u))
    BY <1>1 DEF Learns, Fresh
  <2>2. t \notin joined /\ ~Fresh(t)
    BY <1>1, <1>2 DEF MemoryInv
  <2>3. \A u \in Tabs : u # t /\ Warned(u) => Warned(u)'
    BY <1>1, <1>5, <1>7 DEF Warned
  <2>4. h # None
    OBVIOUS
  <2> QED BY <1>1, <1>2, <1>7, <2>1, <2>2, <2>3, <2>4 DEF MemoryInv, Learns
<1> QED BY <1>6, <1>8, <1>9, <1>10, <1>11, <1>12, <1>13, <1>14 DEF IndInv

LEMMA TakeBatchStep ==
  ASSUME IndInv, NEW t \in Tabs, TakeBatch(t)
  PROVE  IndInv'
<1> DEFINE h == subscribed[t]
<1>1. /\ hub[t] = "pending" /\ hub' = [hub EXCEPT ![t] = "idle"]
      /\ Post(h, t, "Keys")
      /\ UNCHANGED <<tab, superseded, queue, phase, cleanup, member, call, subscribed,
                     reading, live, joined>>
  BY DEF TakeBatch, ownerVars, spaceVars, proxyVars
<1>2. /\ TypeInv /\ LockInv /\ TermInv /\ ChannelInv /\ RetiredInv /\ AnswerInv /\ CallInv
      /\ StreamInv /\ MemoryInv
  BY DEF IndInv
<1>3. /\ "Keys" \in Messages /\ "Keys" \notin Replies /\ "End" \in Streams
      /\ "Keys" \in Streams /\ "Keys" # "End"
  BY DEF Messages, Streams, Replies
<1>4. t \notin superseded /\ h # None /\ h \in Tabs
  BY <1>1, <1>2 DEF RetiredInv, StreamInv, Served, TypeInv
<1> HIDE DEF h
<1>5. ~Has(channel[h][t], "End")
  BY <1>1, <1>2, <1>3, <1>4 DEF StreamInv
<1>6. /\ channel' \in [Tabs -> [Tabs -> Seq(Messages)]]
      /\ \A g, u \in Tabs : \A y : Has(channel'[g][u], y) <=>
           Has(channel[g][u], y) \/ (g = h /\ u = t /\ y = "Keys")
  <2>1. PICK m : m = "Keys"
    OBVIOUS
  <2>2. Post(h, t, m) /\ TypeInv /\ m \in Messages /\ h \in Tabs /\ t \in Tabs
    BY <1>1, <1>2, <1>3, <1>4, <2>1
  <2>3. /\ channel' \in [Tabs -> [Tabs -> Seq(Messages)]]
        /\ \A g, u \in Tabs : \A y :
             Has(channel'[g][u], y) <=> Has(channel[g][u], y) \/ (g = h /\ u = t /\ y = m)
    BY <2>2, PostHas
  <2> QED BY ONLY <2>1, <2>3
<1>7. ChannelInv'
  BY <1>1, <1>2, <1>3, <1>4, <1>5, PostInOrder
<1>8. /\ hub'[t] = "idle" /\ \A u \in Tabs : u # t => hub'[u] = hub[u]
  BY <1>1, <1>2 DEF TypeInv
<1>9. TypeInv'
  BY <1>1, <1>2, <1>6 DEF TypeInv
<1>10. LockInv' /\ CallInv'
  BY <1>1, <1>2 DEF LockInv, HasLock, CallInv
<1>11. TermInv'
  <2>1. \A u \in Tabs : Runs(u)' <=> Runs(u)
    BY <1>1 DEF Runs
  <2> QED BY <1>1, <1>2, <2>1 DEF TermInv
<1>12. RetiredInv'
  BY <1>1, <1>2, <1>4, <1>8 DEF RetiredInv, TypeInv
<1>13. AnswerInv'
  BY <1>1, <1>2, <1>3, <1>6, AnswersKept
<1>14. StreamInv'
  <2>1. \A u \in Tabs : Served(u)'
    BY <1>1, <1>2, <1>8 DEF StreamInv, Served
  <2>2. ASSUME NEW g \in Tabs, NEW u \in Tabs \ superseded, NEW y \in Streams,
               Has(channel'[g][u], y)
        PROVE  subscribed'[u] = g /\ (y = "End" => hub'[u] = "none")
    <3>1. CASE g = h /\ u = t /\ y = "Keys"
      BY <1>1, <1>3, <3>1 DEF h
    <3>2. CASE ~(g = h /\ u = t /\ y = "Keys")
      <4>1. Has(channel[g][u], y)
        BY <1>6, <2>2, <3>2
      <4>2. subscribed[u] = g /\ (y = "End" => hub[u] = "none")
        BY <1>2, <4>1 DEF StreamInv
      <4>3. y = "End" => u # t
        BY <1>1, <4>2
      <4> QED BY <1>1, <1>8, <4>2, <4>3
    <3> QED BY <3>1, <3>2
  <2>3. ASSUME NEW u \in Tabs, subscribed'[u] # None, hub'[u] = "none"
        PROVE  tab'[subscribed'[u]] = "closed" \/ Has(channel'[subscribed'[u]][u], "End")
    <3>1. u # t /\ subscribed'[u] = subscribed[u] /\ hub[u] = "none"
      BY <1>1, <1>8, <2>3
    <3>2. subscribed[u] \in Tabs
      BY <1>2, <2>3, <3>1 DEF TypeInv
    <3>3. tab[subscribed[u]] = "closed" \/ Has(channel[subscribed[u]][u], "End")
      BY <1>2, <2>3, <3>1 DEF StreamInv
    <3> QED BY <1>1, <1>6, <3>1, <3>2, <3>3
  <2> QED BY <1>1, <2>1, <2>2, <2>3 DEF StreamInv
<1>15. MemoryInv'
  <2>1. \A u \in Tabs : (Learns(u)' <=> Learns(u)) /\ (Fresh(u)' <=> Fresh(u))
    BY <1>1 DEF Learns, Fresh
  <2>2. Warned(t)'
    BY <1>4, <1>6 DEF Warned
  <2>3. \A u \in Tabs : u # t /\ Warned(u) => Warned(u)'
    BY <1>1, <1>6, <1>8 DEF Warned
  <2> QED BY <1>1, <1>2, <2>1, <2>2, <2>3 DEF MemoryInv
<1> QED BY <1>7, <1>9, <1>10, <1>11, <1>12, <1>13, <1>14, <1>15 DEF IndInv

\* A call that was begun before the tab forgot what it knows is no longer fresh.
LEMMA StaleFacts ==
  ASSUME IndInv, NEW t \in Tabs, NEW c, c = Stale(call[t])
  PROVE  /\ c \in {NoCall} \cup Underway
         /\ call[t] = NoCall => c = NoCall
         /\ Once(c)
         /\ ~(c # NoCall /\ c.fresh)
         /\ \A h \in Tabs : \A m \in Replies : Answers(call[t], h, m) => Answers(c, h, m)
         /\ c.op # None /\ c.stage \in {"running", "stopping"} => Runs(t) /\ c.host = call[t].host
<1>1. CASE call[t] = NoCall
  BY <1>1, NoCallIsQuiet DEF Answers, NoCall
<1>2. CASE call[t] # NoCall
  <2>1. call[t] \in Underway /\ call[t].op # None /\ Once(call[t])
    BY <1>2, Underways DEF IndInv, CallInv
  <2>2. /\ c \in Underway /\ c # NoCall /\ ~c.fresh
        /\ c.op = call[t].op /\ c.host = call[t].host /\ c.stage = call[t].stage
        /\ c.id = call[t].id /\ c.recorded = call[t].recorded /\ c.effects = call[t].effects
        /\ c.done = call[t].done /\ c.lost = call[t].lost
    BY <2>1, Staled
  <2>3. Once(c)
    BY <2>1, <2>2 DEF Once
  <2>4. \A h \in Tabs : \A m \in Replies : Answers(call[t], h, m) => Answers(c, h, m)
    BY <2>2 DEF Answers
  <2> QED BY <1>2, <2>1, <2>2, <2>3, <2>4 DEF Runs
<1> QED BY <1>1, <1>2

\* What the invariant needs of a message of a stream that arrives.
LEMMA StreamArrives ==
  ASSUME IndInv, NEW t \in Tabs, NEW h \in Tabs, NEW m \in Streams,
         Reads(h, t, m), Take(h, t),
         \/ call' = [call EXCEPT ![t] = Stale(call[t])] /\ joined' = joined \ {t}
         \/ m = "Subscribed" /\ UNCHANGED <<call, joined>>,
         IF m = "End" THEN subscribed' = [subscribed EXCEPT ![t] = IF @ = h THEN None ELSE @]
                      ELSE UNCHANGED subscribed,
         reading' \subseteq Tabs, live' \subseteq Tabs,
         live' \subseteq live \cup {t}, m # "Subscribed" => live' \subseteq live,
         m = "End" => t \notin live',
         UNCHANGED <<tab, superseded, queue, phase, cleanup, member, hub>>
  PROVE  IndInv'
<1>1. /\ TypeInv /\ LockInv /\ TermInv /\ ChannelInv /\ RetiredInv /\ AnswerInv /\ CallInv
      /\ StreamInv /\ MemoryInv
  BY DEF IndInv
<1>2. m \in Messages /\ m \notin Replies /\ "End" \in Streams
  BY DEF Messages, Streams, Replies
<1>3. /\ channel' \in [Tabs -> [Tabs -> Seq(Messages)]] /\ ChannelInv'
      /\ Has(channel[h][t], m)
      /\ \A g, u \in Tabs : \A y : Has(channel'[g][u], y) => Has(channel[g][u], y)
      /\ \A g, u \in Tabs : \A y :
           Has(channel[g][u], y) /\ ~(g = h /\ u = t /\ y = m) => Has(channel'[g][u], y)
      /\ m = "End" => \A y \in Streams : ~Has(channel'[h][t], y)
  BY <1>1, <1>2, TakeHas
<1>4. \A u \in Tabs :
        /\ call'[u] \in {NoCall} \cup Underway /\ (call[u] = NoCall => call'[u] = NoCall)
        /\ Once(call'[u])
        /\ (Fresh(u)' => Fresh(u)) /\ (Learns(u)' => Learns(u))
        /\ \A g \in Tabs : \A y \in Replies :
             Answers(call[u], g, y) => Answers(call'[u], g, y)
        /\ Runs(u)' => Runs(u) /\ call'[u].host = call[u].host
  <2>1. CASE UNCHANGED call
    BY <1>1, <2>1 DEF TypeInv, CallInv, Fresh, Learns, Runs
  <2>2. CASE call' = [call EXCEPT ![t] = Stale(call[t])]
    <3>1. call'[t] = Stale(call[t]) /\ \A u \in Tabs : u # t => call'[u] = call[u]
      BY <1>1, <2>2 DEF TypeInv
    <3>2. \A u \in Tabs : u # t =>
            /\ call'[u] \in {NoCall} \cup Underway /\ (call[u] = NoCall => call'[u] = NoCall)
            /\ Once(call'[u])
            /\ (Fresh(u)' => Fresh(u)) /\ (Learns(u)' => Learns(u))
            /\ \A g \in Tabs : \A y \in Replies :
                 Answers(call[u], g, y) => Answers(call'[u], g, y)
            /\ Runs(u)' => Runs(u) /\ call'[u].host = call[u].host
      BY <1>1, <3>1 DEF TypeInv, CallInv, Fresh, Learns, Runs
    <3> DEFINE c == call'[t]
    <3>3. /\ c \in {NoCall} \cup Underway
          /\ call[t] = NoCall => c = NoCall
          /\ Once(c)
          /\ ~(c # NoCall /\ c.fresh)
          /\ \A g \in Tabs : \A y \in Replies : Answers(call[t], g, y) => Answers(c, g, y)
          /\ c.op # None /\ c.stage \in {"running", "stopping"} =>
               Runs(t) /\ c.host = call[t].host
      BY <3>1, StaleFacts
    <3>4. ~Fresh(t)' /\ ~Learns(t)' /\ (Runs(t)' => Runs(t) /\ c.host = call[t].host)
      BY <3>3 DEF Fresh, Learns, Runs
    <3> QED BY <3>2, <3>3, <3>4
  <2> QED BY <2>1, <2>2
<1>5. /\ subscribed' \in [Tabs -> Tabs \cup {None}]
      /\ \A u \in Tabs : u # t => subscribed'[u] = subscribed[u]
      /\ subscribed'[t] = IF m = "End" /\ subscribed[t] = h THEN None ELSE subscribed[t]
  <2>1. subscribed \in [Tabs -> Tabs \cup {None}]
    BY <1>1 DEF TypeInv
  <2>2. CASE m = "End"
    <3>1. subscribed' = [subscribed EXCEPT ![t] = IF subscribed[t] = h THEN None ELSE subscribed[t]]
      BY <2>1, <2>2
    <3>2. (IF subscribed[t] = h THEN None ELSE subscribed[t]) \in Tabs \cup {None}
      BY <2>1
    <3> QED BY <2>1, <2>2, <3>1, <3>2
  <2>3. CASE m # "End"
    BY <2>1, <2>3
  <2> QED BY <2>2, <2>3
<1>6. TypeInv'
  <2>1. call' \in [Tabs -> {NoCall} \cup Underway]
    BY <1>1, <1>4 DEF TypeInv
  <2>2. joined' \subseteq Tabs
    BY <1>1 DEF TypeInv
  <2> QED BY <1>1, <1>3, <1>5, <2>1, <2>2 DEF TypeInv
<1>7. LockInv'
  BY <1>1 DEF LockInv, HasLock
<1>8. TermInv'
  BY <1>1, <1>4, TermKept
<1>9. CallInv'
  BY <1>4 DEF CallInv
<1>10. RetiredInv'
  BY <1>1, <1>4, <1>5 DEF RetiredInv, TypeInv
<1>11. AnswerInv'
  BY <1>1, <1>3, <1>4, AnswersKept
\* What was read came from where the tab is subscribed.
<1>12. t \notin superseded => subscribed[t] = h /\ (m = "End" => hub[t] = "none")
  BY <1>1, <1>3 DEF StreamInv
<1>13. StreamInv'
  <2>1. \A u \in Tabs : Served(u)'
    <3>1. hub[t] # "none" => t \notin superseded
      BY <1>1 DEF RetiredInv
    <3> QED BY <1>1, <1>5, <1>12, <3>1 DEF StreamInv, Served
  <2>2. ASSUME NEW g \in Tabs, NEW u \in Tabs \ superseded, NEW y \in Streams,
               Has(channel'[g][u], y)
        PROVE  subscribed'[u] = g /\ (y = "End" => hub'[u] = "none")
    <3>1. subscribed[u] = g /\ (y = "End" => hub[u] = "none")
      BY <1>1, <1>3, <2>2 DEF StreamInv
    <3>2. ~(m = "End" /\ u = t)
      BY <1>3, <1>12, <2>2, <3>1
    <3> QED BY <1>5, <3>1, <3>2
  <2>3. ASSUME NEW u \in Tabs, subscribed'[u] # None, hub'[u] = "none"
        PROVE  tab'[subscribed'[u]] = "closed" \/ Has(channel'[subscribed'[u]][u], "End")
    <3>1. subscribed'[u] = subscribed[u] /\ subscribed[u] \in Tabs
      BY <1>1, <1>5, <2>3 DEF TypeInv
    <3>2. tab[subscribed[u]] = "closed" \/ Has(channel[subscribed[u]][u], "End")
      BY <1>1, <2>3, <3>1 DEF StreamInv
    <3>3. ~(subscribed[u] = h /\ u = t /\ m = "End")
      BY <1>5, <2>3, <3>1
    <3> QED BY <1>3, <3>1, <3>2, <3>3
  <2> QED BY <1>1, <2>1, <2>2, <2>3 DEF StreamInv
<1>14. MemoryInv'
  <2>1. m = "Subscribed" \/ (t \notin joined' /\ ~Fresh(t)')
    <3>1. CASE call' = [call EXCEPT ![t] = Stale(call[t])] /\ joined' = joined \ {t}
      <4>1. call'[t] = Stale(call[t])
        BY <1>1, <3>1 DEF TypeInv
      <4>2. ~Fresh(t)'
        BY <4>1, StaleFacts DEF Fresh
      <4> QED BY <3>1, <4>2
    <3> QED BY <3>1
  <2>2. joined' \subseteq joined
    OBVIOUS
  <2>3. ASSUME NEW u \in Tabs, u \in joined' \/ Fresh(u)' \/ u \in live' \ superseded
        PROVE  subscribed'[u] # None
    <3>1. CASE u # t
      BY <1>1, <1>4, <1>5, <2>2, <2>3, <3>1 DEF MemoryInv
    <3>2. CASE u = t
      BY <1>1, <1>4, <1>5, <1>12, <2>1, <2>2, <2>3, <3>2 DEF MemoryInv
    <3> QED BY <3>1, <3>2
  <2>4. ASSUME ~member, NEW u \in Tabs, u \in joined' \/ Learns(u)'
        PROVE  Warned(u)'
    <3>1. Warned(u)
      BY <1>1, <1>4, <2>2, <2>4 DEF MemoryInv
    <3>2. CASE u # t
      BY <1>3, <1>5, <3>1, <3>2 DEF Warned
    <3>3. CASE u = t
      <4>1. m = "Subscribed"
        BY <2>1, <2>4, <3>3 DEF Learns
      <4>2. \A g \in Tabs : /\ Has(channel[g][t], "Keys") => Has(channel'[g][t], "Keys")
                            /\ Has(channel[g][t], "End") => Has(channel'[g][t], "End")
        BY <1>3, <4>1
      <4> QED BY <1>5, <3>1, <3>3, <4>1, <4>2 DEF Warned
    <3> QED BY <3>2, <3>3
  <2> QED BY <2>3, <2>4 DEF MemoryInv
<1> QED BY <1>3, <1>6, <1>7, <1>8, <1>9, <1>10, <1>11, <1>13, <1>14 DEF IndInv

LEMMA ReceiveStreamStep ==
  ASSUME IndInv, NEW t \in Tabs, NEW h \in Tabs,
         ReceiveSubscribed(t, h) \/ ReceiveKeys(t, h) \/ ReceiveEnd(t, h)
  PROVE  IndInv'
<1>1. call \in [Tabs -> {NoCall} \cup Underway] /\ reading \subseteq Tabs /\ live \subseteq Tabs
  BY DEF IndInv, TypeInv
<1>2. "Subscribed" \in Streams /\ "Keys" \in Streams /\ "End" \in Streams
  BY DEF Streams
<1>3. CASE ReceiveSubscribed(t, h)
  <2>1. /\ Reads(h, t, "Subscribed") /\ Take(h, t)
        /\ \/ call' = [call EXCEPT ![t] = Stale(call[t])] /\ joined' = joined \ {t}
           \/ UNCHANGED <<call, joined>>
        /\ live' = live \cup {t} /\ reading' = reading \cup {t}
        /\ UNCHANGED <<tab, superseded, queue, phase, cleanup, member, hub, subscribed>>
    BY <1>1, <1>3 DEF ReceiveSubscribed, ownerVars, spaceVars, Forget
  <2> QED BY <1>1, <1>2, <2>1, StreamArrives
<1>4. CASE ReceiveKeys(t, h)
  <2>1. /\ Reads(h, t, "Keys") /\ Take(h, t)
        /\ call' = [call EXCEPT ![t] = Stale(call[t])] /\ joined' = joined \ {t}
        /\ UNCHANGED <<tab, superseded, queue, phase, cleanup, member, hub, subscribed,
                       live, reading>>
    BY <1>1, <1>4 DEF ReceiveKeys, ownerVars, spaceVars, Forget
  <2> QED BY <1>1, <1>2, <2>1, StreamArrives
<1>5. CASE ReceiveEnd(t, h)
  <2>1. /\ Reads(h, t, "End") /\ Take(h, t)
        /\ call' = [call EXCEPT ![t] = Stale(call[t])] /\ joined' = joined \ {t}
        /\ subscribed' = [subscribed EXCEPT ![t] = IF @ = h THEN None ELSE @]
        /\ live' = live \ {t}
        /\ UNCHANGED <<tab, superseded, queue, phase, cleanup, member, hub, reading>>
    BY <1>1, <1>5 DEF ReceiveEnd, ownerVars, spaceVars, Forget
  <2> QED BY <1>1, <1>2, <2>1, StreamArrives
<1> QED BY <1>3, <1>4, <1>5

-----------------------------------------------------------------------------
(***************************************************************************)
(* The end of a term, of a build and of a document.                        *)
(***************************************************************************)
\* What the invariant needs of a fence: streams are told, handlers are interrupted,
\* and the tab that is fenced may go with it.
LEMMA TermEnds ==
  ASSUME IndInv, NEW h \in Tabs, NEW gone \in SUBSET {h},
         phase[h] \in {"leading", "draining"},
         phase' = [phase EXCEPT ![h] = "fenced"],
         superseded' = superseded \cup gone,
         joined' = joined \ gone, live' = live \ gone,
         subscribed' \in [Tabs -> Tabs \cup {None}],
         \A u \in Tabs : subscribed'[u] = IF u \in gone THEN None ELSE subscribed[u],
         call' \in [Tabs -> {NoCall} \cup Underway],
         \A u \in Tabs : IF u \in gone THEN call'[u] = NoCall ELSE Kept(call[u], call'[u]),
         hub' \in [Tabs -> {"none", "idle", "pending"}],
         \A u \in Tabs : hub'[u] = IF u \in Streaming(h) \cup gone THEN "none" ELSE hub[u],
         channel' = [channel EXCEPT ![h] =
           [u \in Tabs |-> IF u \in Streaming(h) \ gone
                           THEN Append(channel[h][u], "End") ELSE channel[h][u]]],
         UNCHANGED <<tab, queue, cleanup, member, reading>>
  PROVE  IndInv'
<1>1. /\ TypeInv /\ LockInv /\ TermInv /\ ChannelInv /\ RetiredInv /\ AnswerInv /\ CallInv
      /\ StreamInv /\ MemoryInv
  BY DEF IndInv
<1>2. HasLock(h)
  BY <1>1 DEF LockInv, Working
<1>3. LockInv' /\ phase' \in [Tabs -> Phases] /\ phase'[h] = "fenced"
      /\ \A u \in Tabs : u # h => phase'[u] = phase[u]
  BY <1>1, <1>2, Advanced DEF Phases
<1>4. ASSUME NEW u \in Streaming(h) \ gone
      PROVE  /\ u \in Tabs \ superseded /\ subscribed[u] = h /\ hub[u] # "none"
             /\ ~Has(channel[h][u], "End")
  <2>1. u \in Tabs /\ subscribed[u] = h /\ hub[u] # "none"
    BY DEF Streaming
  <2>2. u \notin superseded
    BY <1>1, <2>1 DEF RetiredInv
  <2> QED BY <1>1, <2>1, <2>2 DEF StreamInv, Streams
<1>5. /\ channel' \in [Tabs -> [Tabs -> Seq(Messages)]] /\ ChannelInv'
      /\ \A g, u \in Tabs : \A y : Has(channel'[g][u], y) <=>
           Has(channel[g][u], y) \/ (g = h /\ u \in Streaming(h) \ gone /\ y = "End")
  <2>1. Streaming(h) \ gone \in SUBSET Tabs
    BY DEF Streaming
  <2> QED BY <1>1, <1>4, <2>1, EndHas
<1>6. \A u \in Tabs \ gone :
        /\ call[u] = NoCall => call'[u] = NoCall
        /\ Once(call'[u])
        /\ (Fresh(u)' <=> Fresh(u)) /\ (Learns(u)' <=> Learns(u))
        /\ \A g \in Tabs : \A y \in Replies :
             Answers(call[u], g, y) => Answers(call'[u], g, y)
        /\ Runs(u)' => Runs(u) /\ call'[u].host = call[u].host
  BY KeptFacts
<1>7. \A u \in gone : Once(call'[u]) /\ ~Fresh(u)' /\ ~Learns(u)' /\ ~Runs(u)'
  BY NoCallIsQuiet DEF Fresh, Learns, Runs
<1>8. TypeInv'
  BY <1>1, <1>3, <1>5 DEF TypeInv
<1>9. TermInv'
  <2>1. \A u \in Tabs : Runs(u)' => Runs(u) /\ call'[u].host = call[u].host
    BY <1>6, <1>7
  <2>2. \A g \in Tabs : phase[g] \in Lent => phase'[g] \in Lent
    BY <1>3 DEF Lent
  <2> QED BY <1>1, <2>1, <2>2, TermKept
<1>10. CallInv'
  BY <1>6, <1>7 DEF CallInv
<1>11. RetiredInv'
  BY <1>1, <1>6 DEF RetiredInv, TypeInv
<1>12. AnswerInv'
  <2>1. "End" \notin Replies
    BY DEF Replies
  <2>2. \A g \in Tabs : \A u \in Tabs \ superseded' : \A y \in Replies :
          Has(channel'[g][u], y) => Has(channel[g][u], y)
    <3>1. SUFFICES ASSUME NEW g \in Tabs, NEW u \in Tabs, NEW y \in Replies,
                          Has(channel'[g][u], y)
                   PROVE  Has(channel[g][u], y)
      OBVIOUS
    <3>2. y # "End"
      BY ONLY <2>1, <3>1
    <3>3. Has(channel[g][u], y) \/ y = "End"
      BY ONLY <1>5, <3>1
    <3> QED BY ONLY <3>2, <3>3
  <2> QED BY <1>1, <1>6, <2>2, AnswersKept
<1>13. StreamInv'
  <2>1. ASSUME NEW u \in Tabs
        PROVE  Served(u)'
    <3>1. SUFFICES ASSUME hub'[u] # "none"
                   PROVE  subscribed'[u] # None /\ phase'[subscribed'[u]] \in {"leading", "draining"}
      BY DEF Served
    <3>2. u \notin gone /\ u \notin Streaming(h) /\ hub[u] = hub'[u] /\ hub[u] # "none"
      BY <3>1
    <3>3. subscribed[u] # h
      BY <1>1, <3>2 DEF Streaming, TypeInv
    <3>4. subscribed[u] # None /\ phase[subscribed[u]] \in {"leading", "draining"}
      BY <1>1, <3>2 DEF StreamInv, Served
    <3>5. subscribed[u] \in Tabs
      BY <1>1, <3>4 DEF TypeInv
    <3> QED BY <1>3, <3>2, <3>3, <3>4, <3>5
  <2>2. ASSUME NEW g \in Tabs, NEW u \in Tabs \ superseded', NEW y \in Streams,
               Has(channel'[g][u], y)
        PROVE  subscribed'[u] = g /\ (y = "End" => hub'[u] = "none")
    <3>1. u \notin superseded /\ u \notin gone
      BY <2>2
    <3>2. CASE Has(channel[g][u], y)
      <4>1. subscribed[u] = g /\ (y = "End" => hub[u] = "none")
        BY <1>1, <3>1, <3>2 DEF StreamInv
      <4> QED BY <3>1, <4>1
    <3>3. CASE g = h /\ u \in Streaming(h) \ gone
      BY <1>4, <3>3
    <3> QED BY <1>5, <2>2, <3>2, <3>3
  <2>3. ASSUME NEW u \in Tabs, subscribed'[u] # None, hub'[u] = "none"
        PROVE  tab'[subscribed'[u]] = "closed" \/ Has(channel'[subscribed'[u]][u], "End")
    <3>1. u \notin gone /\ subscribed'[u] = subscribed[u] /\ subscribed[u] \in Tabs
      BY <1>1, <2>3 DEF TypeInv
    <3>2. CASE hub[u] = "none"
      <4>1. tab[subscribed[u]] = "closed" \/ Has(channel[subscribed[u]][u], "End")
        BY <1>1, <2>3, <3>1, <3>2 DEF StreamInv
      <4> QED BY <1>5, <3>1, <4>1
    <3>3. CASE hub[u] # "none"
      <4>1. u \in Streaming(h) \ gone
        BY <2>3, <3>1, <3>3
      <4>2. subscribed[u] = h
        BY <1>4, <4>1
      <4>3. Has(channel'[h][u], "End")
        BY <1>5, <4>1
      <4> QED BY <3>1, <4>2, <4>3
    <3> QED BY <3>2, <3>3
  <2> QED BY <2>1, <2>2, <2>3 DEF StreamInv
<1>14. MemoryInv'
  <2>1. ASSUME NEW u \in Tabs, u \in joined' \/ Fresh(u)' \/ u \in live' \ superseded'
        PROVE  subscribed'[u] # None
    <3>1. u \notin gone /\ (u \in joined \/ Fresh(u) \/ u \in live \ superseded)
      BY <1>6, <1>7, <2>1
    <3> QED BY <1>1, <3>1 DEF MemoryInv
  <2>2. ASSUME ~member, NEW u \in Tabs, u \in joined' \/ Learns(u)'
        PROVE  Warned(u)'
    <3>1. u \notin gone /\ (u \in joined \/ Learns(u))
      BY <1>6, <1>7, <2>2
    <3>2. Warned(u)
      BY <1>1, <2>2, <3>1 DEF MemoryInv
    <3>3. CASE u \in Streaming(h)
      <4>1. Has(channel'[h][u], "End")
        BY <1>5, <3>1, <3>3
      <4> QED BY <4>1 DEF Warned
    <3>4. CASE u \notin Streaming(h)
      BY <1>5, <3>1, <3>2, <3>4 DEF Warned
    <3> QED BY <3>3, <3>4
  <2> QED BY <2>1, <2>2 DEF MemoryInv
<1> QED BY <1>3, <1>5, <1>8, <1>9, <1>10, <1>11, <1>12, <1>13, <1>14 DEF IndInv

\* The calls a fence interrupts.
LEMMA Interrupted ==
  ASSUME IndInv, NEW h \in Tabs, NEW u \in Holders(h), InterruptOnFence(call[u].op),
         NEW d, d = [call[u] EXCEPT !.stage = "stopping"]
  PROVE  d \in Underway /\ Kept(call[u], d)
<1>1. u \in Tabs /\ call[u].op # None /\ call[u].stage \in {"running", "stopping"}
  BY DEF Holders, Runs
<1>2. call[u] \in Underway /\ "stopping" \in Stages
  BY <1>1, Executing DEF Stages
<1>3. /\ d \in Underway /\ d # NoCall /\ d.stage = "stopping"
      /\ d.op = call[u].op /\ d.host = call[u].host /\ d.fresh = call[u].fresh
      /\ d.id = call[u].id /\ d.recorded = call[u].recorded
      /\ d.effects = call[u].effects /\ d.done = call[u].done /\ d.lost = call[u].lost
  BY <1>2, Restaged
<1> QED BY <1>1, <1>2, <1>3 DEF Kept, InterruptOnFence

LEMMA FenceStep ==
  ASSUME IndInv, NEW h \in Tabs, Fence(h)
  PROVE  IndInv'
<1>1. /\ phase[h] = "draining" /\ phase' = [phase EXCEPT ![h] = "fenced"]
      /\ call' = [u \in Tabs |->
           IF u \in Holders(h) /\ InterruptOnFence(call[u].op)
           THEN [call[u] EXCEPT !.stage = "stopping"] ELSE call[u]]
      /\ hub' = [u \in Tabs |-> IF u \in Streaming(h) THEN "none" ELSE hub[u]]
      /\ channel' = [channel EXCEPT ![h] =
           [u \in Tabs |-> IF u \in Streaming(h)
                           THEN Append(channel[h][u], "End") ELSE channel[h][u]]]
      /\ UNCHANGED <<tab, superseded, queue, cleanup, member, subscribed, reading, live, joined>>
  BY DEF Fence, Fenced, spaceVars, IndInv, TypeInv
<1>2. /\ TypeInv /\ hub \in [Tabs -> {"none", "idle", "pending"}]
      /\ subscribed \in [Tabs -> Tabs \cup {None}]
      /\ call \in [Tabs -> {NoCall} \cup Underway]
  BY DEF IndInv, TypeInv
<1>3. ASSUME NEW u \in Tabs
      PROVE  Kept(call[u], call'[u]) /\ call'[u] \in {NoCall} \cup Underway
  <2>1. CASE u \in Holders(h) /\ InterruptOnFence(call[u].op)
    <3>1. call'[u] = [call[u] EXCEPT !.stage = "stopping"]
      BY <1>1, <2>1
    <3> QED BY <2>1, <3>1, Interrupted
  <2>2. CASE ~(u \in Holders(h) /\ InterruptOnFence(call[u].op))
    BY <1>1, <1>2, <2>2 DEF Kept
  <2> QED BY <2>1, <2>2
<1>4. call' \in [Tabs -> {NoCall} \cup Underway]
  BY <1>1, <1>3
<1>5. /\ hub' \in [Tabs -> {"none", "idle", "pending"}]
      /\ \A u \in Tabs : hub'[u] = IF u \in Streaming(h) THEN "none" ELSE hub[u]
  BY <1>1, <1>2
<1> DEFINE gone == {}
<1>6. /\ gone \in SUBSET {h} /\ superseded' = superseded \cup gone
      /\ joined' = joined \ gone /\ live' = live \ gone
      /\ \A u : u \notin gone
      /\ Streaming(h) \ gone = Streaming(h) /\ Streaming(h) \cup gone = Streaming(h)
  BY <1>1
<1> HIDE DEF gone
<1>7. /\ phase[h] \in {"leading", "draining"} /\ phase' = [phase EXCEPT ![h] = "fenced"]
      /\ UNCHANGED <<tab, queue, cleanup, member, reading>>
  BY ONLY <1>1
<1>8. /\ subscribed' \in [Tabs -> Tabs \cup {None}]
      /\ \A u \in Tabs : subscribed'[u] = IF u \in gone THEN None ELSE subscribed[u]
  BY ONLY <1>1, <1>2, <1>6
<1>9. \A u \in Tabs : IF u \in gone THEN call'[u] = NoCall ELSE Kept(call[u], call'[u])
  BY ONLY <1>3, <1>6
<1>10. \A u \in Tabs : hub'[u] = IF u \in Streaming(h) \cup gone THEN "none" ELSE hub[u]
  BY ONLY <1>5, <1>6
<1>11. channel' = [channel EXCEPT ![h] =
         [u \in Tabs |-> IF u \in Streaming(h) \ gone
                         THEN Append(channel[h][u], "End") ELSE channel[h][u]]]
  BY ONLY <1>1, <1>6
<1> QED BY ONLY IndInv, h \in Tabs, <1>4, <1>5, <1>6, <1>7, <1>8, <1>9, <1>10, <1>11, TermEnds

LEMMA ReleaseStep ==
  ASSUME IndInv, NEW h \in Tabs, Release(h)
  PROVE  IndInv'
<1>1. /\ phase[h] = "fenced" /\ Holders(h) = {} /\ GiveLockBack(h)
      /\ cleanup' = [cleanup EXCEPT ![h] = "no"]
      /\ UNCHANGED <<tab, superseded, member, call, subscribed, reading, live, joined,
                     hub, channel>>
  BY DEF Release, Drained, proxyVars
<1>2. /\ TypeInv /\ LockInv /\ TermInv /\ ChannelInv /\ RetiredInv /\ AnswerInv /\ CallInv
      /\ StreamInv /\ MemoryInv
  BY DEF IndInv
<1>3. /\ LockInv' /\ queue' \in Seq(Tabs) /\ phase' \in [Tabs -> Phases]
      /\ phase'[h] = "waiting" /\ \A u \in Tabs : u # h => phase'[u] = phase[u]
  BY <1>1, <1>2, GivenBack
<1>4. /\ cleanup' \in [Tabs -> {"no", "leaving", "deleted"}]
      /\ cleanup'[h] = "no" /\ \A g \in Tabs : g # h => cleanup'[g] = cleanup[g]
  BY <1>1, <1>2 DEF TypeInv
<1>5. TypeInv'
  BY <1>1, <1>2, <1>3, <1>4 DEF TypeInv
<1>6. ChannelInv' /\ RetiredInv' /\ AnswerInv' /\ CallInv'
  BY <1>1, <1>2 DEF ChannelInv, RetiredInv, AnswerInv, CallInv
<1>7. TermInv'
  <2>1. \A u \in Tabs : Runs(u)' <=> Runs(u)
    BY <1>1 DEF Runs
  <2>2. \A u \in Tabs : Runs(u) => call[u].host # h
    BY <1>1 DEF Holders
  <2> QED BY <1>1, <1>2, <1>3, <1>4, <2>1, <2>2 DEF TermInv
\* Nobody has a stream of a term that is fenced.
<1>8. \A u \in Tabs : hub[u] # "none" => subscribed[u] # h
  BY <1>1, <1>2 DEF StreamInv, Served
<1>9. StreamInv'
  <2>1. \A u \in Tabs : Served(u)'
    BY <1>1, <1>2, <1>3, <1>8 DEF StreamInv, Served, TypeInv
  <2> QED BY <1>1, <1>2, <2>1 DEF StreamInv
<1>10. MemoryInv'
  <2>1. \A u \in Tabs : (Learns(u)' <=> Learns(u)) /\ (Fresh(u)' <=> Fresh(u))
    BY <1>1 DEF Learns, Fresh
  <2>2. ASSUME NEW u \in Tabs, Warned(u)
        PROVE  Warned(u)'
    <3>1. CASE subscribed[u] = h
      <4>1. hub[u] = "none" /\ subscribed[u] # None
        BY <1>8, <3>1
      <4>2. tab[h] = "closed" \/ Has(channel[h][u], "End")
        BY <1>2, <3>1, <4>1 DEF StreamInv
      <4> QED BY <1>1, <3>1, <4>1, <4>2 DEF Warned
    <3>2. CASE subscribed[u] # h
      BY <1>1, <1>2, <1>4, <2>2, <3>2 DEF Warned, TypeInv
    <3> QED BY <3>1, <3>2
  <2> QED BY <1>1, <1>2, <2>1, <2>2 DEF MemoryInv
<1> QED BY <1>3, <1>5, <1>6, <1>7, <1>9, <1>10 DEF IndInv

\* What the invariant needs of the retirement of a tab without a term.
LEMMA Retires ==
  ASSUME IndInv, NEW t \in Tabs, LockInv',
         queue' \in Seq(Tabs), phase' \in [Tabs -> Phases],
         \A u \in Tabs : phase[u] \in Lent => phase'[u] = phase[u],
         superseded' = superseded \cup {t},
         joined' = joined \ {t}, live' = live \ {t},
         subscribed' = [subscribed EXCEPT ![t] = None],
         call' = [call EXCEPT ![t] = NoCall],
         hub' = [hub EXCEPT ![t] = "none"],
         UNCHANGED <<tab, cleanup, member, reading, channel>>
  PROVE  IndInv'
<1>1. /\ TypeInv /\ LockInv /\ TermInv /\ ChannelInv /\ RetiredInv /\ AnswerInv /\ CallInv
      /\ StreamInv /\ MemoryInv
  BY DEF IndInv
<1>2. /\ subscribed'[t] = None /\ call'[t] = NoCall /\ hub'[t] = "none"
      /\ \A u \in Tabs : u # t =>
           subscribed'[u] = subscribed[u] /\ call'[u] = call[u] /\ hub'[u] = hub[u]
  BY <1>1 DEF TypeInv
<1>3. TypeInv'
  BY <1>1 DEF TypeInv
<1>4. /\ \A u \in Tabs : u # t => /\ Fresh(u)' <=> Fresh(u)
                                  /\ Learns(u)' <=> Learns(u)
                                  /\ Runs(u)' <=> Runs(u)
      /\ ~Fresh(t)' /\ ~Learns(t)' /\ ~Runs(t)' /\ Once(NoCall)
  BY <1>2, NoCallIsQuiet DEF Fresh, Learns, Runs
<1>5. TermInv'
  BY <1>1, <1>2, <1>4 DEF TermInv
<1>6. ChannelInv' /\ CallInv'
  BY <1>1, <1>2, <1>4 DEF ChannelInv, CallInv
<1>7. RetiredInv'
  BY <1>1, <1>2 DEF RetiredInv, TypeInv
<1>8. AnswerInv'
  BY <1>1, <1>2 DEF AnswerInv
<1>9. StreamInv'
  <2>1. ASSUME NEW u \in Tabs, hub'[u] # "none"
        PROVE  subscribed'[u] # None /\ phase'[subscribed'[u]] \in {"leading", "draining"}
    <3>1. u # t /\ hub[u] # "none" /\ subscribed'[u] = subscribed[u]
      BY <1>2, <2>1
    <3>2. subscribed[u] # None /\ phase[subscribed[u]] \in {"leading", "draining"}
      BY <1>1, <3>1 DEF StreamInv, Served
    <3>3. subscribed[u] \in Tabs
      BY <1>1, <3>2 DEF TypeInv
    <3> QED BY <3>1, <3>2, <3>3 DEF Lent
  <2>2. \A g \in Tabs : \A u \in Tabs \ superseded' : \A y \in Streams :
          Has(channel'[g][u], y) => subscribed'[u] = g /\ (y = "End" => hub'[u] = "none")
    BY <1>1, <1>2 DEF StreamInv
  <2>3. \A u \in Tabs : subscribed'[u] # None /\ hub'[u] = "none" =>
          tab'[subscribed'[u]] = "closed" \/ Has(channel'[subscribed'[u]][u], "End")
    BY <1>1, <1>2 DEF StreamInv
  <2> QED BY <2>1, <2>2, <2>3 DEF StreamInv, Served
<1>10. MemoryInv'
  <2>1. \A u \in Tabs : u # t /\ Warned(u) => Warned(u)'
    BY <1>2 DEF Warned
  <2>2. \A u \in Tabs : u \in joined' \/ Fresh(u)' \/ u \in live' \ superseded' =>
          subscribed'[u] # None
    BY <1>1, <1>2, <1>4 DEF MemoryInv
  <2>3. ~member => \A u \in Tabs : u \in joined' \/ Learns(u)' => Warned(u)'
    BY <1>1, <1>2, <1>4, <2>1 DEF MemoryInv
  <2> QED BY <2>2, <2>3 DEF MemoryInv
<1> QED BY <1>3, <1>5, <1>6, <1>7, <1>8, <1>9, <1>10 DEF IndInv

LEMMA SupersedeStep ==
  ASSUME IndInv, NEW t \in Tabs, Supersede(t)
  PROVE  IndInv'
<1>1. /\ superseded' = superseded \cup {t}
      /\ joined' = joined \ {t} /\ live' = live \ {t}
      /\ subscribed' = [subscribed EXCEPT ![t] = None]
      /\ UNCHANGED <<tab, cleanup, member, reading>>
  BY DEF Supersede, Forget, spaceVars
<1>2. /\ TypeInv /\ LockInv /\ hub \in [Tabs -> {"none", "idle", "pending"}]
      /\ subscribed \in [Tabs -> Tabs \cup {None}]
      /\ call \in [Tabs -> {NoCall} \cup Underway]
  BY DEF IndInv, TypeInv
<1>3. CASE Active(t)
  <2> DEFINE dropped == [call EXCEPT ![t] = NoCall]
             quiet == [hub EXCEPT ![t] = "none"]
  <2>1. /\ phase[t] \in {"leading", "draining"} /\ phase' = [phase EXCEPT ![t] = "fenced"]
        /\ call' = [u \in Tabs |->
             IF u \in Holders(t) \ {t} /\ InterruptOnFence(call[u].op)
             THEN [call[u] EXCEPT !.stage = "stopping"] ELSE dropped[u]]
        /\ hub' = [u \in Tabs |-> IF u \in Streaming(t) THEN "none" ELSE quiet[u]]
        /\ channel' = [channel EXCEPT ![t] =
             [u \in Tabs |-> IF u \in Streaming(t) \ {t}
                             THEN Append(channel[t][u], "End") ELSE channel[t][u]]]
        /\ UNCHANGED queue
    BY <1>2, <1>3 DEF Supersede, Active, TypeInv
  <2>2. /\ dropped[t] = NoCall /\ \A u \in Tabs : u # t => dropped[u] = call[u]
        /\ quiet \in [Tabs -> {"none", "idle", "pending"}]
        /\ quiet[t] = "none" /\ \A u \in Tabs : u # t => quiet[u] = hub[u]
    BY <1>2
  <2> HIDE DEF dropped, quiet
  <2>3. call'[t] = NoCall
    BY <2>1, <2>2
  <2>4. ASSUME NEW u \in Tabs, u # t
        PROVE  Kept(call[u], call'[u]) /\ call'[u] \in {NoCall} \cup Underway
    <3>1. CASE u \in Holders(t) /\ InterruptOnFence(call[u].op)
      <4>1. call'[u] = [call[u] EXCEPT !.stage = "stopping"]
        BY <2>1, <2>4, <3>1
      <4> QED BY <3>1, <4>1, Interrupted
    <3>2. CASE ~(u \in Holders(t) /\ InterruptOnFence(call[u].op))
      <4>1. call'[u] = call[u]
        BY <2>1, <2>2, <2>4, <3>2
      <4> QED BY <1>2, <4>1 DEF Kept
    <3> QED BY <3>1, <3>2
  <2>5. call' \in [Tabs -> {NoCall} \cup Underway]
    BY <2>1, <2>3, <2>4
  <2>6. /\ hub' \in [Tabs -> {"none", "idle", "pending"}]
        /\ \A u \in Tabs : hub'[u] = IF u \in Streaming(t) \cup {t} THEN "none" ELSE hub[u]
    BY <2>1, <2>2
  <2>7. /\ subscribed' \in [Tabs -> Tabs \cup {None}]
        /\ \A u \in Tabs : subscribed'[u] = IF u \in {t} THEN None ELSE subscribed[u]
    BY <1>1, <1>2
  <2> DEFINE gone == {t}
  <2>8. \A u \in Tabs : IF u \in gone THEN call'[u] = NoCall ELSE Kept(call[u], call'[u])
    BY <2>3, <2>4
  <2> QED BY <1>1, <2>1, <2>5, <2>6, <2>7, <2>8, TermEnds
<1>4. CASE ~Active(t)
  <2>1. /\ call' = [call EXCEPT ![t] = NoCall] /\ hub' = [hub EXCEPT ![t] = "none"]
        /\ \/ phase[t] \in {"queued", "building"} /\ GiveLockBack(t)
           \/ UNCHANGED <<phase, queue>>
        /\ UNCHANGED channel
    BY <1>4 DEF Supersede
  <2>2. /\ LockInv' /\ queue' \in Seq(Tabs) /\ phase' \in [Tabs -> Phases]
        /\ \A u \in Tabs : phase[u] \in Lent => phase'[u] = phase[u]
    <3>1. CASE phase[t] \in {"queued", "building"} /\ GiveLockBack(t)
      <4>1. /\ LockInv' /\ queue' \in Seq(Tabs) /\ phase' \in [Tabs -> Phases]
            /\ \A u \in Tabs : u # t => phase'[u] = phase[u]
        BY <1>1, <1>2, <3>1, GivenBack
      <4> QED BY <3>1, <4>1 DEF Lent
    <3>2. CASE UNCHANGED <<phase, queue>>
      BY <1>1, <1>2, <3>2 DEF LockInv, HasLock, TypeInv
    <3> QED BY <2>1, <3>1, <3>2
  <2> QED BY <1>1, <2>1, <2>2, Retires
<1> QED BY <1>3, <1>4

LEMMA CloseTabStep ==
  ASSUME IndInv, NEW t \in Tabs, CloseTab(t)
  PROVE  IndInv'
<1>1. /\ tab' = [tab EXCEPT ![t] = "closed"] /\ GiveLockBack(t)
      /\ cleanup' = [cleanup EXCEPT ![t] = "no"]
      /\ call' = [u \in Tabs |->
           CASE u = t -> NoCall
             [] u # t /\ u \in Holders(t) -> [call[u] EXCEPT !.stage = "cut"]
             [] OTHER -> call[u]]
      /\ subscribed' = [subscribed EXCEPT ![t] = None]
      /\ hub' = [u \in Tabs |-> IF u = t \/ subscribed[u] = t THEN "none" ELSE hub[u]]
      /\ joined' = joined \ {t} /\ live' = live \ {t}
      /\ channel' = [h \in Tabs |-> [channel[h] EXCEPT ![t] = <<>>]]
      /\ UNCHANGED <<superseded, member, reading>>
  BY DEF CloseTab, Forget
<1>2. /\ TypeInv /\ LockInv /\ TermInv /\ ChannelInv /\ RetiredInv /\ AnswerInv /\ CallInv
      /\ StreamInv /\ MemoryInv
  BY DEF IndInv
<1>3. /\ tab' \in [Tabs -> {"unopened", "open", "closed"}]
      /\ tab'[t] = "closed" /\ \A u \in Tabs : u # t => tab'[u] = tab[u]
      /\ cleanup' \in [Tabs -> {"no", "leaving", "deleted"}]
      /\ cleanup'[t] = "no" /\ \A u \in Tabs : u # t => cleanup'[u] = cleanup[u]
      /\ subscribed' \in [Tabs -> Tabs \cup {None}]
      /\ subscribed'[t] = None /\ \A u \in Tabs : u # t => subscribed'[u] = subscribed[u]
      /\ hub' \in [Tabs -> {"none", "idle", "pending"}]
      /\ \A u \in Tabs : hub'[u] = IF u = t \/ subscribed[u] = t THEN "none" ELSE hub[u]
  BY <1>1, <1>2 DEF TypeInv
<1>4. /\ LockInv' /\ queue' \in Seq(Tabs) /\ phase' \in [Tabs -> Phases]
      /\ phase'[t] = "waiting" /\ \A u \in Tabs : u # t => phase'[u] = phase[u]
  BY <1>1, <1>2, <1>3, GivenBack
<1>5. /\ channel' \in [Tabs -> [Tabs -> Seq(Messages)]] /\ ChannelInv'
      /\ \A g, u \in Tabs : \A y :
           Has(channel'[g][u], y) <=> Has(channel[g][u], y) /\ u # t
  BY <1>1, <1>2, ClosedHas
<1>6. call'[t] = NoCall
  BY <1>1
<1>7. ASSUME NEW u \in Tabs, u # t
      PROVE  Kept(call[u], call'[u]) /\ (u \in Holders(t) => ~Runs(u)')
  <2>1. CASE u \in Holders(t)
    <3>1. call'[u] = [call[u] EXCEPT !.stage = "cut"]
      BY <1>1, <1>7, <2>1
    <3>2. /\ call[u] \in Underway /\ call[u].stage \in {"running", "stopping"}
          /\ "cut" \in Stages
      BY <2>1, Executing DEF Holders, Runs, Stages
    <3> DEFINE d == call'[u]
    <3>3. d = [call[u] EXCEPT !.stage = "cut"]
      BY <3>1
    <3> HIDE DEF d
    <3>4. /\ d \in Underway /\ d # NoCall /\ d.stage = "cut"
          /\ d.op = call[u].op /\ d.host = call[u].host /\ d.fresh = call[u].fresh
          /\ d.id = call[u].id /\ d.recorded = call[u].recorded
          /\ d.effects = call[u].effects /\ d.done = call[u].done /\ d.lost = call[u].lost
      BY <3>2, <3>3, Restaged
    <3>5. Kept(call[u], d)
      BY <3>2, <3>4 DEF Kept
    <3> QED BY <3>4, <3>5 DEF Runs, d
  <2>2. CASE u \notin Holders(t)
    BY <1>1, <1>7, <2>2 DEF Kept
  <2> QED BY <2>1, <2>2
<1>8. \A u \in Tabs : u # t =>
        /\ call'[u] \in {NoCall} \cup Underway /\ (call[u] = NoCall => call'[u] = NoCall)
        /\ Once(call'[u])
        /\ (Fresh(u)' <=> Fresh(u)) /\ (Learns(u)' <=> Learns(u))
        /\ \A g \in Tabs : \A y \in Replies :
             Answers(call[u], g, y) => Answers(call'[u], g, y)
        /\ Runs(u)' => Runs(u) /\ call'[u].host = call[u].host
  BY <1>7, KeptFacts
<1>9. Once(call'[t]) /\ ~Fresh(t)' /\ ~Learns(t)' /\ ~Runs(t)'
  BY <1>6, NoCallIsQuiet DEF Fresh, Learns, Runs
<1>10. TypeInv'
  <2>1. call' \in [Tabs -> {NoCall} \cup Underway]
    BY <1>1, <1>6, <1>8
  <2> QED BY <1>1, <1>2, <1>3, <1>4, <1>5, <2>1 DEF TypeInv
<1>11. TermInv'
  <2>1. \A u \in Tabs : Runs(u)' => Runs(u) /\ call'[u].host = call[u].host
    BY <1>8, <1>9
  <2>2. ASSUME NEW u \in Tabs, Runs(u)'
        PROVE  call'[u].host # t
    BY <1>7, <1>9, <2>1, <2>2 DEF Holders
  <2> QED BY <1>2, <1>3, <1>4, <2>1, <2>2, TermKept
<1>12. CallInv'
  BY <1>8, <1>9 DEF CallInv
<1>13. RetiredInv'
  <2>1. \A u \in superseded : u \in Tabs
    BY <1>2 DEF TypeInv
  <2>2. ASSUME NEW u \in superseded
        PROVE  call'[u] = NoCall /\ subscribed'[u] = None /\ hub'[u] = "none" /\ u \notin joined'
    <3>1. /\ u \in Tabs /\ call[u] = NoCall /\ subscribed[u] = None /\ hub[u] = "none"
          /\ u \notin joined
      BY <1>2, <2>1 DEF RetiredInv
    <3>2. call'[u] = NoCall
      BY <1>6, <1>8, <3>1
    <3> QED BY <1>1, <1>3, <3>1, <3>2
  <2> QED BY <1>1, <2>2 DEF RetiredInv
<1>14. AnswerInv'
  BY <1>1, <1>2, <1>5, <1>8, AnswersKept
<1>15. StreamInv'
  <2>1. ASSUME NEW u \in Tabs, hub'[u] # "none"
        PROVE  subscribed'[u] # None /\ phase'[subscribed'[u]] \in {"leading", "draining"}
    <3>1. u # t /\ subscribed[u] # t /\ hub[u] # "none" /\ subscribed'[u] = subscribed[u]
      BY <1>3, <2>1
    <3>2. subscribed[u] # None /\ phase[subscribed[u]] \in {"leading", "draining"}
      BY <1>2, <3>1 DEF StreamInv, Served
    <3>3. subscribed[u] \in Tabs
      BY <1>2, <3>2 DEF TypeInv
    <3> QED BY <1>4, <3>1, <3>2, <3>3
  <2>2. ASSUME NEW g \in Tabs, NEW u \in Tabs \ superseded', NEW y \in Streams,
               Has(channel'[g][u], y)
        PROVE  subscribed'[u] = g /\ (y = "End" => hub'[u] = "none")
    <3>1. u # t /\ Has(channel[g][u], y)
      BY <1>5, <2>2
    <3>2. subscribed[u] = g /\ (y = "End" => hub[u] = "none")
      BY <1>1, <1>2, <3>1 DEF StreamInv
    <3> QED BY <1>3, <3>1, <3>2
  <2>3. ASSUME NEW u \in Tabs, subscribed'[u] # None, hub'[u] = "none"
        PROVE  tab'[subscribed'[u]] = "closed" \/ Has(channel'[subscribed'[u]][u], "End")
    <3>1. u # t /\ subscribed'[u] = subscribed[u] /\ subscribed[u] \in Tabs
      BY <1>2, <1>3, <2>3 DEF TypeInv
    <3>2. CASE subscribed[u] = t
      BY <1>3, <3>1, <3>2
    <3>3. CASE subscribed[u] # t
      <4>1. tab[subscribed[u]] = "closed" \/ Has(channel[subscribed[u]][u], "End")
        BY <1>2, <1>3, <2>3, <3>1, <3>3 DEF StreamInv
      <4>2. PICK g : g = subscribed[u]
        OBVIOUS
      <4>3. g \in Tabs /\ g # t /\ subscribed'[u] = g
        BY <3>1, <3>3, <4>2
      <4>4. CASE tab[g] = "closed"
        BY <1>3, <4>3, <4>4
      <4>5. CASE Has(channel[g][u], "End")
        <5>1. Has(channel'[g][u], "End")
          BY ONLY <1>5, <3>1, <4>3, <4>5, u \in Tabs
        <5> QED BY ONLY <4>3, <5>1
      <4> QED BY <4>1, <4>2, <4>4, <4>5
    <3> QED BY <3>2, <3>3
  <2> QED BY <2>1, <2>2, <2>3 DEF StreamInv, Served
<1>16. MemoryInv'
  <2>1. ASSUME NEW u \in Tabs, u # t, Warned(u)
        PROVE  Warned(u)'
    <3>1. CASE subscribed[u] = t
      BY <1>3, <2>1, <3>1 DEF Warned
    <3>2. CASE subscribed[u] # t
      <4>1. \A g \in Tabs : /\ Has(channel[g][u], "Keys") => Has(channel'[g][u], "Keys")
                            /\ Has(channel[g][u], "End") => Has(channel'[g][u], "End")
        BY <1>5, <2>1
      <4>2. subscribed[u] \in Tabs \cup {None}
        BY <1>2 DEF TypeInv
      <4> QED BY <1>3, <2>1, <3>2, <4>1, <4>2 DEF Warned
    <3> QED BY <3>1, <3>2
  <2>2. \A u \in Tabs : u \in joined' \/ Fresh(u)' \/ u \in live' \ superseded' =>
          subscribed'[u] # None
    <3>1. \A u \in Tabs : u \in joined' \/ Fresh(u)' \/ u \in live' \ superseded' =>
            u # t /\ (u \in joined \/ Fresh(u) \/ u \in live \ superseded)
      BY <1>1, <1>8, <1>9
    <3>2. \A u \in Tabs : u \in joined \/ Fresh(u) \/ u \in live \ superseded =>
            subscribed[u] # None
      BY <1>2 DEF MemoryInv
    <3> QED BY <1>3, <3>1, <3>2
  <2>3. ~member => \A u \in Tabs : u \in joined' \/ Learns(u)' => Warned(u)'
    BY <1>1, <1>2, <1>8, <1>9, <2>1 DEF MemoryInv
  <2> QED BY <1>1, <2>2, <2>3 DEF MemoryInv
<1> QED BY <1>4, <1>5, <1>10, <1>11, <1>12, <1>13, <1>14, <1>15, <1>16 DEF IndInv

\* The requests to a closed tab fail, and so does the stream from it.
LEMMA NoticeClosedStep ==
  ASSUME IndInv, NEW t \in Tabs, NEW h \in Tabs, NoticeClosed(t, h)
  PROVE  IndInv'
<1> DEFINE c == call[t]
           cut == [c EXCEPT !.stage = "routing", !.host = None, !.done = FALSE,
                            !.lost = c.op = "Publish"]
           lost == IF InFlightAt(t, h) THEN cut ELSE c
           d == IF subscribed[t] = h THEN Stale(lost) ELSE lost
<1>1. /\ tab[h] = "closed" /\ (subscribed[t] = h \/ InFlightAt(t, h))
      /\ channel' = [channel EXCEPT ![h][t] = <<>>]
      /\ UNCHANGED <<tab, superseded, queue, phase, cleanup, member, reading, hub>>
  BY DEF NoticeClosed, ownerVars, spaceVars
<1>2. /\ TypeInv /\ LockInv /\ TermInv /\ ChannelInv /\ RetiredInv /\ AnswerInv /\ CallInv
      /\ StreamInv /\ MemoryInv
  BY DEF IndInv
<1>3. /\ call' = [call EXCEPT ![t] = d]
      /\ IF subscribed[t] = h
         THEN /\ subscribed' = [subscribed EXCEPT ![t] = None]
              /\ joined' = joined \ {t} /\ live' = live \ {t}
         ELSE UNCHANGED <<subscribed, joined, live>>
  BY DEF NoticeClosed, Forget
<1>4. t \notin superseded
  <2>1. call[t] = NoCall => ~InFlightAt(t, h)
    BY NoCallIsQuiet DEF InFlightAt
  <2> QED BY <1>1, <1>2, <2>1 DEF RetiredInv
<1>5. InFlightAt(t, h) => c \in Underway /\ c # NoCall
  BY Executing DEF InFlightAt
\* A call that was in flight is made again; another is as it was.
<1>6. /\ lost \in {NoCall} \cup Underway /\ Once(lost)
      /\ InFlightAt(t, h) =>
           lost \in Underway /\ lost.stage = "routing" /\ lost.done = FALSE /\ lost.fresh = c.fresh
      /\ ~InFlightAt(t, h) => lost = c
  <2>1. CASE InFlightAt(t, h)
    <3>1. lost = [c EXCEPT !.stage = "routing", !.host = None, !.done = FALSE,
                           !.lost = c.op = "Publish"]
      BY <2>1
    <3>2. c \in Underway /\ Once(c)
      BY <1>2, <1>5, <2>1 DEF CallInv
    <3> HIDE DEF lost, c
    <3>3. /\ lost \in Underway /\ lost.stage = "routing" /\ lost.done = FALSE
          /\ lost.op = c.op /\ lost.fresh = c.fresh /\ lost.id = c.id
          /\ lost.recorded = c.recorded /\ lost.effects = c.effects
          /\ lost.lost <=> c.op = "Publish"
      BY <3>1, <3>2 DEF Underway, Stages
    <3>4. Once(lost)
      BY <3>2, <3>3 DEF Once
    <3> QED BY <2>1, <3>3, <3>4
  <2>2. CASE ~InFlightAt(t, h)
    BY <1>2, <2>2 DEF TypeInv, CallInv
  <2> QED BY <2>1, <2>2
<1> HIDE DEF lost
<1>7. /\ d \in {NoCall} \cup Underway /\ Once(d)
      /\ d # NoCall /\ d.fresh => Fresh(t) /\ subscribed[t] # h
      /\ d # NoCall /\ d.fresh /\ d.op = "Space" /\ d.done /\ d.effects = 1 => Learns(t)
      /\ d.op # None /\ d.stage \in {"running", "stopping"} => Runs(t) /\ d.host = c.host
      /\ ~InFlightAt(t, h) =>
           \A g \in Tabs : \A m \in Replies : Answers(c, g, m) => Answers(d, g, m)
  <2>1. CASE lost = NoCall
    <3>1. d = NoCall
      BY <2>1, NoCallIsQuiet
    <3>2. ~InFlightAt(t, h) => c = NoCall
      BY <1>6, <2>1
    <3> QED BY <3>1, <3>2, NoCallIsQuiet DEF Answers
  <2>2. CASE lost # NoCall /\ subscribed[t] = h
    <3>1. d = Stale(lost) /\ lost \in Underway
      BY <1>6, <2>2
    <3> HIDE DEF d
    <3>2. /\ d \in Underway /\ d # NoCall /\ ~d.fresh
          /\ d.op = lost.op /\ d.host = lost.host /\ d.stage = lost.stage
          /\ d.id = lost.id /\ d.recorded = lost.recorded /\ d.effects = lost.effects
          /\ d.done = lost.done /\ d.lost = lost.lost
      BY <3>1, Staled
    <3>3. Once(d)
      BY <1>6, <3>2 DEF Once
    <3>4. \A g \in Tabs : \A m \in Replies : Answers(lost, g, m) => Answers(d, g, m)
      BY <3>2 DEF Answers
    <3>5. d.op # None /\ d.stage \in {"running", "stopping"} => Runs(t) /\ d.host = c.host
      BY <1>6, <3>2 DEF Runs
    <3> QED BY <1>6, <3>2, <3>3, <3>4, <3>5
  <2>3. CASE lost # NoCall /\ subscribed[t] # h
    <3>1. d = lost /\ lost \in Underway
      BY <1>6, <2>3
    <3>2. CASE InFlightAt(t, h)
      BY <1>5, <1>6, <2>3, <3>1, <3>2 DEF Fresh
    <3>3. CASE ~InFlightAt(t, h)
      BY <1>6, <2>3, <3>1, <3>3 DEF Fresh, Learns, Runs
    <3> QED BY <3>2, <3>3
  <2> QED BY <2>1, <2>2, <2>3
<1> HIDE DEF d
<1>8. call'[t] = d /\ \A u \in Tabs : u # t => call'[u] = call[u]
  <2>1. call \in [Tabs -> {NoCall} \cup Underway] /\ call' = [call EXCEPT ![t] = d]
    BY <1>2, <1>3 DEF TypeInv
  <2> QED BY ONLY <2>1, t \in Tabs
<1>9. /\ subscribed' \in [Tabs -> Tabs \cup {None}]
      /\ \A u \in Tabs : u # t => subscribed'[u] = subscribed[u]
      /\ subscribed'[t] = IF subscribed[t] = h THEN None ELSE subscribed[t]
  BY <1>2, <1>3 DEF TypeInv
<1>10. /\ channel' \in [Tabs -> [Tabs -> Seq(Messages)]] /\ ChannelInv'
       /\ \A g, u \in Tabs : \A y :
            Has(channel'[g][u], y) <=> Has(channel[g][u], y) /\ ~(g = h /\ u = t)
  BY <1>1, <1>2, ClearHas
<1>11. /\ \A u \in Tabs : u # t => /\ Fresh(u)' <=> Fresh(u)
                                   /\ Learns(u)' <=> Learns(u)
                                   /\ Runs(u)' <=> Runs(u)
       /\ Fresh(t)' => Fresh(t) /\ subscribed[t] # h
       /\ Learns(t)' => Learns(t) /\ subscribed[t] # h
       /\ Runs(t)' => Runs(t) /\ call'[t].host = call[t].host
  BY <1>7, <1>8 DEF Fresh, Learns, Runs
<1>12. /\ joined' \subseteq joined /\ live' \subseteq live
       /\ subscribed[t] = h => t \notin joined' /\ t \notin live'
  BY <1>3
<1>13. TypeInv'
  BY <1>1, <1>2, <1>3, <1>7, <1>9, <1>10, <1>12 DEF TypeInv
<1>14. LockInv'
  BY <1>1, <1>2 DEF LockInv, HasLock
<1>15. TermInv'
  <2>1. \A u \in Tabs : Runs(u)' => Runs(u) /\ call'[u].host = call[u].host
    BY <1>8, <1>11
  <2> QED BY <1>1, <1>2, <2>1, TermKept
<1>16. CallInv'
  BY <1>2, <1>7, <1>8 DEF CallInv
<1>17. RetiredInv'
  BY <1>1, <1>2, <1>4, <1>8, <1>9, <1>12 DEF RetiredInv, TypeInv
<1>18. AnswerInv'
  <2>1. ASSUME NEW g \in Tabs, NEW u \in Tabs \ superseded, NEW y \in Replies,
               Has(channel'[g][u], y)
        PROVE  Answers(call'[u], g, y)
    <3>1. Has(channel[g][u], y) /\ ~(g = h /\ u = t)
      BY <1>10, <2>1
    <3>2. Answers(call[u], g, y)
      BY <1>2, <3>1 DEF AnswerInv
    <3>3. CASE u # t
      BY <1>8, <3>2, <3>3
    <3>4. CASE u = t
      <4>1. ~InFlightAt(t, h)
        BY <3>1, <3>2, <3>4 DEF Answers, InFlightAt
      <4> QED BY <1>7, <1>8, <3>2, <3>4, <4>1
    <3> QED BY <3>3, <3>4
  <2> QED BY <1>1, <2>1 DEF AnswerInv
\* A closed tab serves no stream.
<1>19. \A u \in Tabs : hub[u] # "none" => subscribed[u] # h
  <2>1. phase[h] = "waiting"
    BY <1>1, <1>2 DEF LockInv
  <2>2. \A u \in Tabs : Served(u)
    BY <1>2 DEF StreamInv
  <2> QED BY <2>1, <2>2 DEF Served
<1>20. StreamInv'
  <2>1. \A u \in Tabs : Served(u)'
    BY <1>1, <1>2, <1>9, <1>19 DEF StreamInv, Served
  <2>2. ASSUME NEW g \in Tabs, NEW u \in Tabs \ superseded, NEW y \in Streams,
               Has(channel'[g][u], y)
        PROVE  subscribed'[u] = g /\ (y = "End" => hub'[u] = "none")
    <3>1. Has(channel[g][u], y) /\ ~(g = h /\ u = t)
      BY <1>10, <2>2
    <3>2. subscribed[u] = g /\ (y = "End" => hub[u] = "none")
      BY <1>2, <3>1 DEF StreamInv
    <3> QED BY <1>1, <1>9, <3>1, <3>2
  <2>3. ASSUME NEW u \in Tabs, subscribed'[u] # None, hub'[u] = "none"
        PROVE  tab'[subscribed'[u]] = "closed" \/ Has(channel'[subscribed'[u]][u], "End")
    <3>1. /\ subscribed'[u] = subscribed[u] /\ subscribed[u] \in Tabs
          /\ ~(u = t /\ subscribed[u] = h)
      BY <1>2, <1>9, <2>3 DEF TypeInv
    <3>2. tab[subscribed[u]] = "closed" \/ Has(channel[subscribed[u]][u], "End")
      BY <1>1, <1>2, <2>3, <3>1 DEF StreamInv
    <3> QED BY <1>1, <1>10, <3>1, <3>2
  <2> QED BY <1>1, <2>1, <2>2, <2>3 DEF StreamInv
<1>21. MemoryInv'
  <2>1. ASSUME NEW u \in Tabs, u \in joined' \/ Fresh(u)' \/ u \in live' \ superseded'
        PROVE  subscribed'[u] # None
    <3>1. u \in joined \/ Fresh(u) \/ u \in live \ superseded
      BY <1>1, <1>11, <1>12, <2>1
    <3>2. subscribed[u] # None /\ ~(u = t /\ subscribed[t] = h)
      BY <1>2, <1>11, <1>12, <2>1, <3>1 DEF MemoryInv
    <3> QED BY <1>9, <3>2
  <2>2. ASSUME ~member, NEW u \in Tabs, u \in joined' \/ Learns(u)'
        PROVE  Warned(u)'
    <3>1. (u \in joined \/ Learns(u)) /\ ~(u = t /\ subscribed[t] = h)
      BY <1>11, <1>12, <2>2
    <3>2. Warned(u) /\ subscribed'[u] = subscribed[u]
      BY <1>2, <1>9, <2>2, <3>1 DEF MemoryInv
    <3>3. \A g \in Tabs : \A y \in {"Keys", "End"} :
            Has(channel[g][u], y) => Has(channel'[g][u], y)
      <4>1. ASSUME NEW g \in Tabs, NEW y \in {"Keys", "End"}, Has(channel[g][u], y)
            PROVE  ~(g = h /\ u = t)
        BY <1>2, <1>4, <3>1, <4>1 DEF StreamInv, Streams
      <4> QED BY <1>10, <4>1
    <3> QED BY <1>1, <3>2, <3>3 DEF Warned
  <2> QED BY <1>1, <2>1, <2>2 DEF MemoryInv
<1> QED BY <1>10, <1>13, <1>14, <1>15, <1>16, <1>17, <1>18, <1>20, <1>21 DEF IndInv

-----------------------------------------------------------------------------
(***************************************************************************)
(* The invariant holds at first, and every step keeps it.                  *)
(***************************************************************************)
LEMMA InitInv == Init => IndInv
<1> SUFFICES ASSUME Init PROVE IndInv
  OBVIOUS
<1> USE DEF Init
<1>1. TypeInv
  BY DEF TypeInv, Phases
<1>2. LockInv
  BY DEF LockInv, Distinct, Has, Working
<1>3. TermInv
  BY NoCallIsQuiet DEF TermInv, Runs
<1>4. ChannelInv
  BY Empty DEF ChannelInv
<1>5. RetiredInv
  BY DEF RetiredInv
<1>6. AnswerInv
  BY Empty DEF AnswerInv
<1>7. CallInv
  BY NoCallIsQuiet DEF CallInv
<1>8. StreamInv
  BY Empty DEF StreamInv, Served
<1>9. MemoryInv
  BY DEF MemoryInv, Fresh
<1> QED BY <1>1, <1>2, <1>3, <1>4, <1>5, <1>6, <1>7, <1>8, <1>9 DEF IndInv

LEMMA StutterStep ==
  ASSUME IndInv, UNCHANGED vars
  PROVE  IndInv'
<1>1. UNCHANGED <<tab, superseded, queue, phase, spaceVars, proxyVars, hub, channel>>
  BY DEF vars, ownerVars
<1>2. LockInv' /\ TypeInv
  BY <1>1 DEF IndInv, LockInv, HasLock
<1> QED BY <1>1, <1>2, OwnersMove DEF TypeInv

LEMMA NextInv == IndInv /\ [Next]_vars => IndInv'
<1> SUFFICES ASSUME IndInv, [Next]_vars PROVE IndInv'
  OBVIOUS
<1>1. CASE UNCHANGED vars
  BY <1>1, StutterStep
<1>2. ASSUME NEW t \in Tabs, OpenTab(t)
      PROVE  IndInv'
  BY <1>2, OpenTabStep
<1>3. ASSUME NEW t \in Tabs, Owner(t)
      PROVE  IndInv'
  BY <1>3, CandidateStep, AcquireStep, LeadStep, CompareStep, FenceStep, ReleaseStep,
     MarkerStep, SupersedeStep, DeleteRowsStep, AnnounceLeaveStep DEF Owner
<1>4. ASSUME NEW t \in Tabs, Handler(t)
      PROVE  IndInv'
  BY <1>4, TakeBatchStep, CommitStep, DeliverStep, LookUpStep, LeaveSpaceStep, ReplyStep
     DEF Handler
<1>5. ASSUME NEW t \in Tabs, Application(t)
      PROVE  IndInv'
  <2>1. PICK op \in Operations[t] : Start(t, op)
    BY <1>5 DEF Application
  <2>2. op \in Calls
    BY <2>1
  <2> QED BY <2>1, <2>2, StartStep
<1>6. ASSUME NEW t \in Tabs, Disturbance(t)
      PROVE  IndInv'
  BY <1>6, BuildFailsStep, MarkerStep, CloseTabStep DEF Disturbance
<1>7. ASSUME NEW t \in Tabs, NEW h \in Tabs, Inbox(t, h)
      PROVE  IndInv'
  BY <1>7, NoticeClosedStep, ReceiveStreamStep, ReceiveAnswerStep, ReceiveInterruptStep
     DEF Inbox
<1>8. ASSUME NEW t \in Tabs, NEW h \in Tabs, Subscribe(t, h) \/ Serve(t, h)
      PROVE  IndInv'
  BY <1>8, SubscribeStep, ServeStep
<1> QED BY <1>1, <1>2, <1>3, <1>4, <1>5, <1>6, <1>7, <1>8 DEF Next

(* Always, whatever tabs open, close, show, hide and call: one order of    *)
(* the leader lock, handlers only on lent replicas, one answer to a call,  *)
(* effects as recorded, streams from where they are expected and nothing   *)
(* remembered without a warning.                                           *)
THEOREM Invariance == Spec => []IndInv
<1>1. Init => IndInv
  BY InitInv
<1>2. IndInv /\ [Next]_vars => IndInv'
  BY NextInv
<1> QED BY <1>1, <1>2, PTL DEF Spec

(***************************************************************************)
(* The properties.                                                         *)
(***************************************************************************)
(* Every variable the properties depend on keeps to its values             *)
(* (replicaOwner.ts, replicaHost.ts, replicaProxy.ts).                     *)
THEOREM TypeCorrect == Spec => []TypeInv
<1>1. IndInv => TypeInv
  BY DEF IndInv
<1> QED BY <1>1, Invariance, PTL

(* A handler of a tab that is open and a leave that is cleaning up work    *)
(* while that tab is first in the queue of the leader lock                 *)
(* (makeFencedHandlers, drainingLease, lead).                              *)
THEOREM Exclusion == Spec => []OnlyTheLeaderWrites
<1>1. IndInv => OnlyTheLeaderWrites
  BY DEF IndInv, TermInv, LockInv, Lent, Working, OnlyTheLeaderWrites
<1> QED BY <1>1, Invariance, PTL

(* Nobody else works on the database: two handlers that run, or a handler  *)
(* and a cleanup, are on the replica of one tab.                           *)
OneReplica ==
  /\ \A t, u \in Tabs : Runs(t) /\ Runs(u) => call[t].host = call[u].host
  /\ \A t, h \in Tabs : Runs(t) /\ cleanup[h] # "no" => call[t].host = h

THEOREM ReplicaIsOne == Spec => []OneReplica
<1>1. IndInv => OneReplica
  BY DEF IndInv, TermInv, LockInv, Lent, Working, HasLock, OneReplica
<1> QED BY <1>1, Invariance, PTL

(* A call has its effect once through any number of handovers; an event is *)
(* published again only if the tab that was publishing it closed           *)
(* (retryHandover, drainingLease).                                         *)
THEOREM EffectOnce == Spec => []OncePerCall
<1>1. ASSUME IndInv, NEW t \in Tabs, call[t].op \in {"Mutate", "Publish"}
      PROVE  /\ call[t].effects <= 1 \/ (call[t].op = "Publish" /\ call[t].lost)
             /\ call[t].done => call[t].effects >= 1
  <2>1. Once(call[t])
    BY <1>1 DEF IndInv, CallInv
  <2> QED BY <1>1, <2>1 DEF Once
<1>2. IndInv => OncePerCall
  BY <1>1 DEF OncePerCall
<1> QED BY <1>2, Invariance, PTL

(* A tab that remembers a space it is no longer a member of is about to be *)
(* told (rememberJoined, forgetInvalidatedMemberships, dropMemberships).   *)
THEOREM MemoryIsWarned == Spec => []CacheIsWarned
<1>1. ASSUME IndInv, NEW t \in joined, ~member
      PROVE  LET h == subscribed[t] IN
               \/ h # None /\ tab[h] = "closed"
               \/ h # None /\ (cleanup[h] = "deleted" \/ hub[t] = "pending")
               \/ \E u \in Tabs : \E i \in DOMAIN channel[u][t] :
                    channel[u][t][i] \in {"Keys", "End"}
  <2>1. t \in Tabs
    BY <1>1 DEF IndInv, TypeInv
  <2>2. Warned(t)
    BY <1>1, <2>1 DEF IndInv, MemoryInv
  <2>3. ASSUME NEW u \in Tabs, Has(channel[u][t], "Keys") \/ Has(channel[u][t], "End")
        PROVE  \E i \in DOMAIN channel[u][t] : channel[u][t][i] \in {"Keys", "End"}
    <3>1. channel[u][t] \in Seq(Messages)
      BY <1>1, <2>1 DEF IndInv, TypeInv
    <3>2. DOMAIN channel[u][t] = 1 .. Len(channel[u][t])
      BY <3>1
    <3> QED BY <2>3, <3>2 DEF Has
  <2> QED BY <2>2, <2>3 DEF Warned
<1>2. IndInv => CacheIsWarned
  BY <1>1 DEF CacheIsWarned
<1> QED BY <1>2, Invariance, PTL
=============================================================================
