-------------------------- MODULE ServerStoreProofs --------------------------
(***************************************************************************)
(* Proofs about ServerStore for every number of callers, clients,          *)
(* envelopes and every retention option.                                   *)
(***************************************************************************)
EXTENDS ServerStore, WellFoundedInduction, FiniteSetTheorems, TLAPS

USE EnvelopesAssumption, OptionsAssumption, PassesAssumption

Below == {ss \in Nat \X Nat : ss[1] < ss[2]}

LEMMA BelowIsWellFounded == IsWellFoundedOn(Below, Nat)
  BY NatLessThanWellFounded DEF OpToRel, Below

(* A bounded, inhabited set of naturals has a largest element; the model's *)
(* MAX(local_sequence) is therefore well defined.                          *)
LEMMA MaxExists ==
  ASSUME NEW S \in SUBSET Nat, NEW b \in Nat, S # {}, \A x \in S : x <= b
  PROVE  \E m \in S : \A x \in S : x <= m
<1> DEFINE T == {b - x : x \in S}
<1>1. T \subseteq Nat
  OBVIOUS
<1>2. T # {}
  <2>1. PICK x \in S : TRUE
    OBVIOUS
  <2>2. b - x \in T
    OBVIOUS
  <2>3. QED
    BY <2>2
<1>3. PICK y \in T : \A z \in T : ~ (<<z, y>> \in Below)
  <2> HIDE DEF T
  <2> QED BY <1>1, <1>2, BelowIsWellFounded, WFMin
<1>4. \A z \in T : ~ (z < y)
  <2> HIDE DEF T
  <2> QED BY <1>1, <1>3 DEF Below
<1>5. PICK m \in S : y = b - m
  BY <1>3
<1>6. \A x \in S : ~ (b - x < b - m)
  BY <1>4, <1>5
<1>7. QED
  BY <1>6

(***************************************************************************)
(* Type correctness.                                                       *)
(***************************************************************************)
LEMMA ReceiptType ==
  ASSUME NEW e \in Envelopes, NEW tag \in Tags, NEW at \in Nat, NEW through \in Nat
  PROVE  Receipt(e, tag, at, through) \in Receipts
BY DEF Receipt, Receipts

LEMMA CallType ==
  ASSUME TypeOK, NEW c \in Callers
  PROVE  /\ calls[c].pc \in {"lookup", "transact"} =>
              /\ calls[c].env \in Envelopes
              /\ calls[c].kind \in {"submit", "discard"}
              /\ calls[c] = [pc |-> calls[c].pc, kind |-> calls[c].kind,
                             env |-> calls[c].env]
         /\ calls[c].pc = "compact" => calls[c].receipt \in Receipts
BY DEF TypeOK, Calls, Idle

(* Decided and answered receipts, and the caller's next state, are typed   *)
(* after any admission.                                                    *)
LEMMA StoreType ==
  ASSUME TypeOK, NEW c \in Callers, NEW r \in Receipts, Store(c, r)
  PROVE  /\ receipts' \subseteq Receipts
         /\ nextTerminal' \in Nat
         /\ last' \in [Lineages -> Nat]
         /\ decided' \in Seq(Receipts)
         /\ calls' \in [Callers -> Calls]
         /\ reply' \in Receipts \cup {NoReply}
<1>1. r.env \in Envelopes /\ r.env.lineage \in Lineages /\ r.env.seq \in Nat
  BY DEF Receipts
<1>2. [pc |-> "compact", receipt |-> r] \in Calls /\ Idle \in Calls
  BY DEF Calls
<1>3. /\ receipts' \subseteq Receipts
      /\ nextTerminal' \in Nat
      /\ last' \in [Lineages -> Nat]
      /\ decided' \in Seq(Receipts)
  BY <1>1 DEF Store, TypeOK
<1>4. calls' \in [Callers -> Calls] /\ reply' \in Receipts \cup {NoReply}
  BY <1>2 DEF Store, TypeOK, Answer, Finish, Silent
<1>5. QED
  BY <1>3, <1>4

LEMMA AcceptType ==
  ASSUME TypeOK, NEW c \in Callers, NEW e \in Envelopes, Accept(c, e),
         UNCHANGED <<floorVars, passes, missed, failures>>
  PROVE  TypeOK'
<1>1. Receipt(e, "Accepted", nextServer, nextTerminal) \in Receipts
  BY ReceiptType DEF TypeOK, Tags
<1>2. entities' \in Contents
  BY DEF Accept, TypeOK, Contents
<1>3. /\ DOMAIN log' \subseteq Nat
      /\ \A s \in DOMAIN log' : log'[s] \in Envelopes
      /\ nextServer' \in Nat
  BY DEF Accept, TypeOK
<1>4. QED
  BY <1>1, <1>2, <1>3, StoreType DEF Accept, TypeOK, floorVars

LEMMA RejectType ==
  ASSUME TypeOK, NEW c \in Callers, NEW e \in Envelopes, Reject(c, e),
         UNCHANGED <<floorVars, passes, missed, failures>>
  PROVE  TypeOK'
<1>1. Receipt(e, "Rejected", 0, nextTerminal) \in Receipts
  BY ReceiptType DEF TypeOK, Tags
<1>2. QED
  BY <1>1, StoreType DEF Reject, TypeOK, floorVars

LEMMA AnswerStoredType ==
  ASSUME TypeOK, NEW c \in Callers, NEW e \in Envelopes, AnswerStored(c, e)
  PROVE  calls' \in [Callers -> Calls] /\ reply' \in Receipts \cup {NoReply}
<1>1. Idle \in Calls
  BY DEF Calls
<1>2. PICK r \in receipts :
         \/ SameDigest(r, e) /\ Answer(c, [r EXCEPT !.env = e])
         \/ ~ SameDigest(r, e) /\ Finish(c) /\ Silent
  BY DEF AnswerStored, StoredFor
<1>3. [r EXCEPT !.env = e] \in Receipts
  BY DEF TypeOK, Receipts
<1>4. QED
  BY <1>1, <1>2, <1>3 DEF Answer, Finish, Silent, TypeOK

(* current.sequence - RetainedHistory never takes a floor below zero, and  *)
(* the watermark a prune writes is one of the sequences it saw.            *)
LEMMA FloorType ==
  ASSUME TypeOK, current # NoSnapshot
  PROVE  HistoryFloor \in Nat /\ ReceiptFloor \in Nat
BY DEF HistoryFloor, ReceiptFloor, Larger, TypeOK, Snapshots

(***************************************************************************)
(* The inductive invariant, about what is persisted.                       *)
(***************************************************************************)

(* Terminal sequences number the decisions; only two kinds are decided.    *)
Numbering ==
  /\ nextTerminal = Len(decided) + 1
  /\ nextServer >= 1 /\ nextServer <= nextTerminal
  /\ \A t \in DOMAIN decided :
       /\ decided[t].through = t
       /\ \/ decided[t].tag = "Accepted" /\ decided[t].at \in 1 .. nextServer - 1
          \/ decided[t].tag = "Rejected" /\ decided[t].at = 0
  /\ \A n \in 1 .. nextServer - 1 :
       \E t \in DOMAIN decided : decided[t].tag = "Accepted" /\ decided[t].at = n

(* Within a lineage, later decisions have higher sequences, without gaps.  *)
Ordering ==
  \A t \in DOMAIN decided :
    /\ \A u \in 1 .. t - 1 : decided[u].env.lineage = decided[t].env.lineage
                              => decided[u].env.seq < decided[t].env.seq
    /\ \/ decided[t].env.seq = 1
       \/ \E u \in 1 .. t - 1 : /\ decided[u].env.lineage = decided[t].env.lineage
                                 /\ decided[u].env.seq = decided[t].env.seq - 1

(* A lineage's watermark is the highest sequence decided for it.           *)
Watermarks ==
  /\ \A t \in DOMAIN decided : decided[t].env.seq <= last[decided[t].env.lineage]
  /\ \A l \in Lineages : \A n \in 1 .. last[l] :
       \E t \in DOMAIN decided : decided[t].env.lineage = l /\ decided[t].env.seq = n

(* Every receipt is a decision, and above a lineage's expired watermark    *)
(* every decided sequence still has its receipt.                           *)
Retained ==
  /\ receipts \subseteq Decisions
  /\ \A l \in Lineages : expired[l] <= last[l]
  /\ \A l \in Lineages : \A n \in expired[l] + 1 .. last[l] :
       \E r \in receipts : r.env.lineage = l /\ r.env.seq = n

(* What has expired lies behind the receipt floor.                         *)
Fenced ==
  \A t \in DOMAIN decided :
    decided[t].env.seq <= expired[decided[t].env.lineage] => t <= receiptFloor

(* The floors lie behind the current snapshot, the newest of those kept.   *)
Covered ==
  /\ current = NoSnapshot => snapshots = {} /\ historyFloor = 0 /\ receiptFloor = 0
  /\ current # NoSnapshot =>
       /\ current \in snapshots
       /\ current.sequence < nextServer /\ current.terminal < nextTerminal
       /\ historyFloor <= current.sequence /\ receiptFloor <= current.terminal
       /\ \A s \in snapshots : ~ Newer(s, current)

(* A pass about to publish holds a candidate; a call about to compact      *)
(* holds a decision; the last answer is truthful.                          *)
Candidates == \A m \in Passes : passes[m].phase = "publish" => passes[m].candidate # NoSnapshot

Committed == \A c \in Callers : calls[c].pc = "compact" => calls[c].receipt \in Decisions

Outcome == reply = NoReply \/ Ledger!Truthful(reply)

Persisted ==
  /\ Numbering /\ Ordering /\ Watermarks /\ Retained /\ Fenced /\ Covered
  /\ LogAboveFloor

IndInv == TypeOK /\ Persisted /\ Candidates /\ Committed /\ Outcome

LEMMA InitInv == Init => IndInv
<1> SUFFICES ASSUME Init PROVE IndInv
  OBVIOUS
<1>1. TypeOK
  <2>1. AtRest \in PassStates /\ Idle \in Calls
    BY DEF AtRest, PassStates, PassPhases, NoCandidate, Calls
  <2>2. entities \in Contents
    BY DEF Init, Contents
  <2>3. decided \in Seq(Receipts)
    BY DEF Init
  <2>4. /\ DOMAIN log \subseteq Nat
        /\ \A s \in DOMAIN log : log[s] \in Envelopes
    BY DEF Init
  <2>5. QED
    BY <2>1, <2>2, <2>3, <2>4 DEF Init, TypeOK
<1>2. Persisted
  BY DEF Init, Persisted, Numbering, Ordering, Watermarks, Retained, Fenced, Covered,
         LogAboveFloor, Decisions
<1>3. Candidates /\ Committed
  BY DEF Init, Candidates, Committed, Idle, AtRest
<1>4. Outcome
  BY DEF Init, Outcome
<1>5. QED
  BY <1>1, <1>2, <1>3, <1>4 DEF IndInv

(***************************************************************************)
(* Admissions.                                                             *)
(***************************************************************************)
LEMMA DecisionType ==
  ASSUME TypeOK
  PROVE  /\ Len(decided) \in Nat
         /\ DOMAIN decided = 1 .. Len(decided)
         /\ \A t \in 1 .. Len(decided) :
              /\ decided[t] \in Receipts
              /\ decided[t].env \in Envelopes
              /\ decided[t].env.lineage \in Lineages
              /\ decided[t].env.seq \in Nat \ {0}
              /\ decided[t].at \in Nat /\ decided[t].through \in Nat
<1>1. \A r \in Receipts : /\ r.env \in Envelopes
                          /\ r.env.lineage \in Lineages
                          /\ r.env.seq \in Nat \ {0}
                          /\ r.at \in Nat /\ r.through \in Nat
  BY DEF Receipts
<1>2. decided \in Seq(Receipts)
  BY DEF TypeOK
<1>3. /\ Len(decided) \in Nat
      /\ DOMAIN decided = 1 .. Len(decided)
      /\ \A t \in 1 .. Len(decided) : decided[t] \in Receipts
  BY <1>2
<1>4. QED
  BY <1>1, <1>3

LEMMA AppendFacts ==
  ASSUME decided \in Seq(Receipts), NEW r \in Receipts, decided' = Append(decided, r)
  PROVE  /\ Len(decided') = Len(decided) + 1
         /\ DOMAIN decided = 1 .. Len(decided)
         /\ DOMAIN decided' = 1 .. Len(decided) + 1
         /\ \A t \in DOMAIN decided : decided'[t] = decided[t]
         /\ decided'[Len(decided) + 1] = r
         /\ Decisions' = Decisions \cup {r}
<1>1. /\ Len(decided') = Len(decided) + 1
      /\ DOMAIN decided = 1 .. Len(decided)
      /\ DOMAIN decided' = 1 .. Len(decided) + 1
      /\ \A t \in DOMAIN decided : decided'[t] = decided[t]
      /\ decided'[Len(decided) + 1] = r
  OBVIOUS
<1>2. Decisions' = Decisions \cup {r}
  <2>1. \A t \in 1 .. Len(decided) + 1 : decided'[t] \in Decisions \cup {r}
    BY <1>1 DEF Decisions
  <2>2. \A d \in Decisions \cup {r} : \E t \in 1 .. Len(decided) + 1 : decided'[t] = d
    BY <1>1 DEF Decisions
  <2>3. Decisions' = {decided'[t] : t \in 1 .. Len(decided) + 1}
    BY <1>1 DEF Decisions
  <2>4. QED
    BY <2>1, <2>2, <2>3
<1>3. QED
  BY <1>1, <1>2

(* What an admission does to one lineage: the decision is the next of its  *)
(* lineage, and its receipt is retained.                                   *)
LEMMA StorePersisted ==
  ASSUME TypeOK, Persisted, NEW c \in Callers, NEW r \in Receipts, Store(c, r),
         r.env.seq = last[r.env.lineage] + 1, r.through = nextTerminal,
         UNCHANGED floorVars
  PROVE  Ordering' /\ Watermarks' /\ Retained' /\ Fenced'
<1> DEFINE n == Len(decided)
           l0 == r.env.lineage
           s0 == r.env.seq
           line(t) == decided[t].env.lineage
           seq(t) == decided[t].env.seq
<1>1. /\ l0 \in Lineages /\ s0 \in Nat
      /\ last \in [Lineages -> Nat] /\ expired \in [Lineages -> Nat]
      /\ receiptFloor \in Nat
  BY DEF TypeOK, Receipts
<1>2. /\ n \in Nat /\ DOMAIN decided = 1 .. n
      /\ \A t \in 1 .. n : line(t) \in Lineages /\ seq(t) \in Nat \ {0}
  BY DecisionType
<1>3. /\ DOMAIN decided' = 1 .. n + 1
      /\ \A t \in 1 .. n : decided'[t] = decided[t]
      /\ decided'[n + 1] = r
      /\ Decisions' = Decisions \cup {r}
  BY AppendFacts DEF Store, TypeOK
<1>4. /\ receipts' = receipts \cup {r}
      /\ \A l \in Lineages : last'[l] = IF l = l0 THEN s0 ELSE last[l]
      /\ expired' = expired /\ receiptFloor' = receiptFloor
      /\ s0 = last[l0] + 1
  BY <1>1 DEF Store, floorVars
<1>5. /\ \A t \in 1 .. n : seq(t) <= last[line(t)]
      /\ \A l \in Lineages : \A k \in 1 .. last[l] : \E t \in 1 .. n : line(t) = l /\ seq(t) = k
  BY <1>2 DEF Persisted, Watermarks
<1>6. \A t \in 1 .. n :
        /\ \A u \in 1 .. t - 1 : line(u) = line(t) => seq(u) < seq(t)
        /\ seq(t) = 1 \/ \E u \in 1 .. t - 1 : line(u) = line(t) /\ seq(u) = seq(t) - 1
  BY <1>2 DEF Persisted, Ordering
<1>7. Ordering'
  <2>1. \A u \in 1 .. n : line(u) = l0 => seq(u) < s0
    BY <1>1, <1>2, <1>4, <1>5
  <2>2. s0 = 1 \/ \E u \in 1 .. n : line(u) = l0 /\ seq(u) = s0 - 1
    <3>1. last[l0] \in Nat /\ s0 - 1 = last[l0]
      BY <1>1, <1>4
    <3>2. s0 = 1 \/ last[l0] \in 1 .. last[l0]
      BY <3>1, <1>4
    <3>3. \A k \in 1 .. last[l0] : \E u \in 1 .. n : line(u) = l0 /\ seq(u) = k
      BY <1>1, <1>5
    <3>4. CASE last[l0] \in 1 .. last[l0]
      <4>1. PICK u \in 1 .. n : line(u) = l0 /\ seq(u) = last[l0]
        BY <3>3, <3>4
      <4>2. QED
        BY <3>1, <4>1
    <3>5. QED
      BY <3>2, <3>4
  <2>3. SUFFICES ASSUME NEW t \in 1 .. n + 1
        PROVE  /\ \A u \in 1 .. t - 1 : decided'[u].env.lineage = decided'[t].env.lineage
                                        => decided'[u].env.seq < decided'[t].env.seq
               /\ \/ decided'[t].env.seq = 1
                  \/ \E u \in 1 .. t - 1 :
                       /\ decided'[u].env.lineage = decided'[t].env.lineage
                       /\ decided'[u].env.seq = decided'[t].env.seq - 1
    BY <1>3 DEF Ordering
  <2>4. CASE t \in 1 .. n
    <3>1. \A u \in 1 .. t - 1 : u \in 1 .. n /\ decided'[u] = decided[u]
      BY <1>2, <1>3, <2>4
    <3>2. QED
      BY <1>3, <1>6, <2>4, <3>1
  <2>5. CASE t = n + 1
    <3>1. 1 .. t - 1 = 1 .. n
      BY <1>2, <2>5
    <3>2. QED
      BY <1>3, <2>1, <2>2, <2>5, <3>1
  <2>6. QED
    BY <1>2, <2>4, <2>5
<1>8. Watermarks'
  <2>1. \A t \in 1 .. n + 1 : decided'[t].env.seq <= last'[decided'[t].env.lineage]
    <3>1. \A t \in 1 .. n : last[line(t)] <= last'[line(t)]
      BY <1>1, <1>2, <1>4
    <3>2. \A t \in 1 .. n : last[line(t)] \in Nat /\ last'[line(t)] \in Nat
      BY <1>1, <1>2, <1>4
    <3>3. \A t \in 1 .. n : seq(t) <= last'[line(t)]
      BY <1>2, <1>5, <3>1, <3>2
    <3>4. decided'[n + 1].env.seq <= last'[decided'[n + 1].env.lineage]
      BY <1>1, <1>3, <1>4
    <3>5. QED
      BY <1>2, <1>3, <3>3, <3>4
  <2>2. \A l \in Lineages : \A k \in 1 .. last'[l] :
          \E t \in 1 .. n + 1 : decided'[t].env.lineage = l /\ decided'[t].env.seq = k
    <3> SUFFICES ASSUME NEW l \in Lineages, NEW k \in 1 .. last'[l]
                 PROVE  \E t \in 1 .. n + 1 : decided'[t].env.lineage = l /\ decided'[t].env.seq = k
      OBVIOUS
    <3>1. CASE k \in 1 .. last[l]
      BY <1>2, <1>3, <1>5, <3>1
    <3>2. CASE l = l0 /\ k = s0
      BY <1>2, <1>3, <3>2
    <3>3. QED
      BY <1>1, <1>4, <3>1, <3>2
  <2>3. \A t \in DOMAIN decided' : decided'[t].env.seq <= last'[decided'[t].env.lineage]
    BY <1>3, <2>1
  <2>4. \A l \in Lineages : \A k \in 1 .. last'[l] :
          \E t \in DOMAIN decided' : decided'[t].env.lineage = l /\ decided'[t].env.seq = k
    BY <1>3, <2>2
  <2>5. QED
    BY <2>3, <2>4 DEF Watermarks
<1>9. Retained'
  <2>1. receipts' \subseteq Decisions'
    BY <1>3, <1>4 DEF Persisted, Retained
  <2>2. \A l \in Lineages : expired'[l] <= last'[l]
    BY <1>1, <1>4 DEF Persisted, Retained
  <2>3. \A l \in Lineages : \A s \in expired'[l] + 1 .. last'[l] :
          \E q \in receipts' : q.env.lineage = l /\ q.env.seq = s
    <3> SUFFICES ASSUME NEW l \in Lineages, NEW s \in expired'[l] + 1 .. last'[l]
                 PROVE  \E q \in receipts' : q.env.lineage = l /\ q.env.seq = s
      OBVIOUS
    <3>1. CASE l = l0 /\ s = s0
      BY <1>4, <3>1
    <3>2. CASE ~ (l = l0 /\ s = s0)
      <4>1. s \in expired[l] + 1 .. last[l]
        BY <1>1, <1>4, <3>2
      <4>2. QED
        BY <1>4, <4>1 DEF Persisted, Retained
    <3>3. QED
      BY <3>1, <3>2
  <2>4. QED
    BY <2>1, <2>2, <2>3 DEF Retained
<1>10. Fenced'
  <2>1. expired[l0] < s0
    BY <1>1, <1>4 DEF Persisted, Retained
  <2>2. \A t \in 1 .. n : seq(t) <= expired[line(t)] => t <= receiptFloor
    BY <1>2 DEF Persisted, Fenced
  <2>3. \A t \in 1 .. n + 1 :
          decided'[t].env.seq <= expired'[decided'[t].env.lineage] => t <= receiptFloor'
    <3>1. ~ (decided'[n + 1].env.seq <= expired'[decided'[n + 1].env.lineage])
      BY <1>1, <1>3, <1>4, <2>1
    <3>2. QED
      BY <1>2, <1>3, <1>4, <2>2, <3>1
  <2>4. QED
    BY <1>3, <2>3 DEF Fenced
<1>11. QED
  BY <1>7, <1>8, <1>9, <1>10

LEMMA AcceptPersisted ==
  ASSUME TypeOK, Persisted, NEW c \in Callers, NEW e \in Envelopes, Accept(c, e),
         e.seq = last[e.lineage] + 1, UNCHANGED floorVars
  PROVE  Persisted'
<1> DEFINE r == Receipt(e, "Accepted", nextServer, nextTerminal)
           n == Len(decided)
<1>1. r \in Receipts /\ Store(c, r) /\ nextServer' = nextServer + 1 /\ nextServer \in Nat
  BY ReceiptType DEF TypeOK, Tags, Accept
<1>2. /\ r.env = e /\ r.tag = "Accepted" /\ r.at = nextServer /\ r.through = nextTerminal
  BY DEF Receipt
<1> HIDE DEF r
<1>3. Ordering' /\ Watermarks' /\ Retained' /\ Fenced'
  BY <1>1, <1>2, StorePersisted
<1>4. /\ n \in Nat /\ DOMAIN decided = 1 .. n /\ DOMAIN decided' = 1 .. n + 1
      /\ Len(decided') = n + 1
      /\ \A t \in 1 .. n : decided'[t] = decided[t]
      /\ decided'[n + 1] = r
      /\ Decisions' = Decisions \cup {r}
  BY <1>1, AppendFacts DEF Store, TypeOK
<1> HIDE DEF n
<1>5. Numbering'
  <2>1. nextTerminal' = n + 2 /\ nextTerminal = n + 1
    BY <1>1 DEF Store, Persisted, Numbering, n
  <2>2. \A t \in 1 .. n + 1 :
           /\ decided'[t].through = t
           /\ \/ decided'[t].tag = "Accepted" /\ decided'[t].at \in 1 .. nextServer' - 1
              \/ decided'[t].tag = "Rejected" /\ decided'[t].at = 0
    BY <1>1, <1>2, <1>4, <2>1 DEF Persisted, Numbering
  <2>3. \A s \in 1 .. nextServer' - 1 :
          \E t \in 1 .. n + 1 : decided'[t].tag = "Accepted" /\ decided'[t].at = s
    <3> SUFFICES ASSUME NEW s \in 1 .. nextServer' - 1
                 PROVE  \E t \in 1 .. n + 1 : decided'[t].tag = "Accepted" /\ decided'[t].at = s
      OBVIOUS
    <3>1. CASE s = nextServer
      BY <3>1, <1>2, <1>4
    <3>2. CASE s # nextServer
      <4>1. s \in 1 .. nextServer - 1
        BY <1>1, <3>2
      <4>2. PICK t \in DOMAIN decided : decided[t].tag = "Accepted" /\ decided[t].at = s
        BY <4>1 DEF Persisted, Numbering
      <4>3. QED
        BY <1>4, <4>2
    <3>3. QED
      BY <3>1, <3>2
  <2>4. nextServer' >= 1 /\ nextServer' <= nextTerminal'
    <3>1. nextServer >= 1 /\ nextServer <= n + 1
      BY <2>1 DEF Numbering, Persisted
    <3>2. QED
      BY <1>1, <1>4, <2>1, <3>1
  <2>5. nextTerminal' = Len(decided') + 1
    BY <1>4, <2>1
  <2>6. QED
    BY <1>4, <2>2, <2>3, <2>4, <2>5 DEF Numbering
<1>6. Covered'
  BY <1>1 DEF Persisted, Covered, TypeOK, Snapshots, Store, floorVars, Newer
<1>7. LogAboveFloor'
  <2>1. /\ log' = [s \in DOMAIN log \cup {nextServer} |->
                     IF s = nextServer THEN e ELSE log[s]]
        /\ historyFloor' = historyFloor
    BY DEF Accept, floorVars
  <2>2. SUFFICES ASSUME NEW s \in historyFloor + 1 .. nextServer
                 PROVE  s \in DOMAIN log' /\
                        \E d \in Decisions' : d.tag = "Accepted" /\ d.at = s /\ d.env = log'[s]
    <3>1. nextServer' - 1 = nextServer
      BY <1>1
    <3>2. QED
      BY <2>1, <3>1 DEF LogAboveFloor
  <2>3. CASE s = nextServer
    BY <2>1, <2>3, <1>2, <1>4
  <2>4. CASE s # nextServer
    <3>1. s \in historyFloor + 1 .. nextServer - 1
      BY <2>4, <1>1 DEF TypeOK
    <3>2. s \in DOMAIN log /\ \E d \in Decisions : d.tag = "Accepted" /\ d.at = s /\ d.env = log[s]
      BY <3>1 DEF Persisted, LogAboveFloor
    <3>3. QED
      BY <3>2, <2>1, <2>4, <1>4
  <2>5. QED
    BY <2>3, <2>4
<1>8. QED
  BY <1>3, <1>5, <1>6, <1>7 DEF Persisted

LEMMA RejectPersisted ==
  ASSUME TypeOK, Persisted, NEW c \in Callers, NEW e \in Envelopes, Reject(c, e),
         e.seq = last[e.lineage] + 1, UNCHANGED floorVars
  PROVE  Persisted'
<1> DEFINE r == Receipt(e, "Rejected", 0, nextTerminal)
           n == Len(decided)
<1>1. r \in Receipts /\ Store(c, r) /\ nextServer' = nextServer /\ log' = log
  BY ReceiptType DEF TypeOK, Tags, Reject
<1>2. r.env = e /\ r.tag = "Rejected" /\ r.at = 0 /\ r.through = nextTerminal
  BY DEF Receipt
<1> HIDE DEF r
<1>3. Ordering' /\ Watermarks' /\ Retained' /\ Fenced'
  BY <1>1, <1>2, StorePersisted
<1>4. /\ n \in Nat /\ DOMAIN decided = 1 .. n /\ DOMAIN decided' = 1 .. n + 1
      /\ Len(decided') = n + 1
      /\ \A t \in 1 .. n : decided'[t] = decided[t]
      /\ decided'[n + 1] = r
      /\ Decisions' = Decisions \cup {r}
  BY <1>1, AppendFacts DEF Store, TypeOK
<1> HIDE DEF n
<1>5. Numbering'
  <2>1. nextTerminal' = n + 2 /\ nextTerminal = n + 1
    BY <1>1 DEF Store, Persisted, Numbering, n
  <2>2. \A s \in 1 .. nextServer - 1 :
          \E t \in 1 .. n + 1 : decided'[t].tag = "Accepted" /\ decided'[t].at = s
    BY <1>4 DEF Persisted, Numbering
  <2>3. nextServer' >= 1 /\ nextServer' <= nextTerminal'
    <3>1. nextServer >= 1 /\ nextServer <= n + 1 /\ nextServer \in Nat
      BY <2>1 DEF Numbering, Persisted, TypeOK
    <3>2. QED
      BY <1>1, <1>4, <2>1, <3>1
  <2>4. ASSUME NEW t \in 1 .. n
        PROVE  /\ decided[t].through = t
               /\ \/ decided[t].tag = "Accepted" /\ decided[t].at \in 1 .. nextServer - 1
                  \/ decided[t].tag = "Rejected" /\ decided[t].at = 0
    BY <1>4 DEF Numbering, Persisted
  <2>5. ASSUME NEW t \in 1 .. n + 1
        PROVE  /\ decided'[t].through = t
               /\ \/ decided'[t].tag = "Accepted" /\ decided'[t].at \in 1 .. nextServer' - 1
                  \/ decided'[t].tag = "Rejected" /\ decided'[t].at = 0
    <3>1. CASE t \in 1 .. n
      BY <1>1, <1>4, <2>4, <3>1
    <3>2. CASE t = n + 1
      BY <1>2, <1>4, <2>1, <3>2
    <3>3. QED
      BY <1>4, <3>1, <3>2
  <2>6. nextTerminal' = Len(decided') + 1
    BY <1>4, <2>1
  <2>7. \A s \in 1 .. nextServer' - 1 :
          \E t \in DOMAIN decided' : decided'[t].tag = "Accepted" /\ decided'[t].at = s
    BY <1>1, <1>4, <2>2
  <2>8. QED
    BY <1>4, <2>3, <2>5, <2>6, <2>7 DEF Numbering
<1>6. Covered'
  BY <1>1 DEF Persisted, Covered, TypeOK, Snapshots, Store, floorVars, Newer
<1>7. LogAboveFloor'
  BY <1>1, <1>4 DEF Persisted, LogAboveFloor, floorVars
<1>8. QED
  BY <1>3, <1>5, <1>6, <1>7 DEF Persisted

(***************************************************************************)
(* Maintenance.                                                            *)
(***************************************************************************)

(* The new watermark: one of the pruned sequences or the old watermark,    *)
(* and none of them is above it.                                           *)
LEMMA PrunedThroughFacts ==
  ASSUME TypeOK, Persisted, NEW pruned \in SUBSET receipts, NEW l \in Lineages
  PROVE  /\ PrunedThrough(pruned, l) \in expired[l] .. last[l]
         /\ \/ PrunedThrough(pruned, l) = expired[l]
            \/ \E r \in pruned : r.env.lineage = l /\ r.env.seq = PrunedThrough(pruned, l)
         /\ \A r \in pruned : r.env.lineage = l => r.env.seq <= PrunedThrough(pruned, l)
<1> DEFINE seqs == {r.env.seq : r \in {q \in pruned : q.env.lineage = l}} \cup {expired[l]}
<1>1. expired[l] \in Nat /\ last[l] \in Nat /\ expired[l] <= last[l]
  BY DEF TypeOK, Persisted, Retained
<1>2. \A r \in pruned : /\ r.env.seq \in Nat
                        /\ r.env.lineage = l => r.env.seq <= last[l]
  <2>1. SUFFICES ASSUME NEW r \in pruned
                 PROVE  r.env.seq \in Nat /\ (r.env.lineage = l => r.env.seq <= last[l])
    OBVIOUS
  <2>2. PICK t \in DOMAIN decided : decided[t] = r
    BY DEF Persisted, Retained, Decisions
  <2>3. QED
    BY <2>2, DecisionType DEF Persisted, Watermarks
<1>3. seqs \in SUBSET Nat /\ seqs # {} /\ \A x \in seqs : x <= last[l]
  BY <1>1, <1>2
<1>4. \E n \in seqs : \A m \in seqs : m <= n
  <2> HIDE DEF seqs
  <2> QED BY <1>1, <1>3, MaxExists
<1>5. PrunedThrough(pruned, l) = CHOOSE n \in seqs : \A m \in seqs : m <= n
  BY DEF PrunedThrough
<1>6. PrunedThrough(pruned, l) \in seqs /\ \A m \in seqs : m <= PrunedThrough(pruned, l)
  <2> HIDE DEF seqs
  <2> QED BY <1>4, <1>5
<1>7. QED
  BY <1>1, <1>2, <1>3, <1>6

LEMMA PruneBatchPersisted ==
  ASSUME TypeOK, Persisted, NEW m \in Passes, PruneBatch(m)
  PROVE  Persisted'
<1> DEFINE pruned == PrunableReceipts(ReceiptFloor)
           history == PrunableHistory(HistoryFloor)
<1>1. /\ current # NoSnapshot /\ current \in Snapshots
      /\ historyFloor' = HistoryFloor /\ receiptFloor' = ReceiptFloor
      /\ log' = [s \in DOMAIN log \ history |-> log[s]]
      /\ receipts' = receipts \ pruned
      /\ expired' = [l \in Lineages |-> PrunedThrough(pruned, l)]
      /\ UNCHANGED <<nextServer, nextTerminal, last, entities, snapshots, current, decided>>
  BY DEF PruneBatch, TypeOK
<1>2. /\ HistoryFloor \in Nat /\ ReceiptFloor \in Nat
      /\ historyFloor <= HistoryFloor /\ HistoryFloor <= current.sequence
      /\ receiptFloor <= ReceiptFloor /\ ReceiptFloor <= current.terminal
  BY <1>1 DEF HistoryFloor, ReceiptFloor, Larger, TypeOK, Snapshots, Persisted, Covered
<1>3. pruned \subseteq receipts /\ \A r \in pruned : r.through <= ReceiptFloor
  <2>1. \A r \in pruned : \E q \in receipts : q.through <= ReceiptFloor /\ q.through = r.through
    BY DEF PrunableReceipts, Lowest
  <2>2. pruned \subseteq receipts
    BY DEF PrunableReceipts
  <2>3. QED
    BY <2>1, <2>2
<1>4. \A s \in history : s <= HistoryFloor
  BY DEF PrunableHistory, Lowest
<1> HIDE DEF pruned, history
<1>5. \A l \in Lineages :
        /\ PrunedThrough(pruned, l) \in expired[l] .. last[l]
        /\ \/ PrunedThrough(pruned, l) = expired[l]
           \/ \E r \in pruned : r.env.lineage = l /\ r.env.seq = PrunedThrough(pruned, l)
        /\ \A r \in pruned : r.env.lineage = l => r.env.seq <= PrunedThrough(pruned, l)
  BY <1>3, PrunedThroughFacts
<1>6. Decisions' = Decisions
  BY <1>1 DEF Decisions
<1>7. Numbering' /\ Ordering' /\ Watermarks'
  BY <1>1 DEF Persisted, Numbering, Ordering, Watermarks
<1>8. Retained'
  <2>1. receipts' \subseteq Decisions'
    BY <1>1, <1>6 DEF Persisted, Retained
  <2>2. \A l \in Lineages : expired'[l] <= last'[l]
    BY <1>1, <1>5 DEF TypeOK
  <2>3. ASSUME NEW l \in Lineages, NEW k \in expired'[l] + 1 .. last'[l]
        PROVE  \E r \in receipts' : r.env.lineage = l /\ r.env.seq = k
    <3>1. /\ expired'[l] = PrunedThrough(pruned, l) /\ last'[l] = last[l]
          /\ expired[l] \in Nat /\ last[l] \in Nat
      BY <1>1 DEF TypeOK
    <3>2. k \in expired[l] + 1 .. last[l] /\ k > PrunedThrough(pruned, l)
      BY <1>5, <3>1
    <3>3. PICK r \in receipts : r.env.lineage = l /\ r.env.seq = k
      BY <3>2 DEF Persisted, Retained
    <3>4. r \notin pruned
      BY <1>5, <3>1, <3>2, <3>3
    <3>5. QED
      BY <1>1, <3>3, <3>4
  <2>4. QED
    BY <2>1, <2>2, <2>3 DEF Retained
<1>9. Fenced'
  <2>1. SUFFICES ASSUME NEW t \in DOMAIN decided,
                        decided[t].env.seq <= expired'[decided[t].env.lineage]
                 PROVE  t <= ReceiptFloor
    BY <1>1 DEF Fenced
  <2> DEFINE l == decided[t].env.lineage
             k == decided[t].env.seq
  <2>2. /\ t \in 1 .. Len(decided) /\ Len(decided) \in Nat /\ l \in Lineages /\ k \in Nat
        /\ DOMAIN decided = 1 .. Len(decided)
    BY DecisionType
  <2>3. expired'[l] = PrunedThrough(pruned, l) /\ receiptFloor \in Nat
    BY <1>1, <2>2 DEF TypeOK
  <2>4. CASE PrunedThrough(pruned, l) = expired[l]
    <3>1. t <= receiptFloor
      BY <2>1, <2>3, <2>4 DEF Persisted, Fenced
    <3>2. QED
      BY <1>2, <2>2, <2>3, <3>1
  <2>5. CASE \E r \in pruned : r.env.lineage = l /\ r.env.seq = PrunedThrough(pruned, l)
    <3>1. PICK r \in pruned : r.env.lineage = l /\ r.env.seq = PrunedThrough(pruned, l)
      BY <2>5
    <3>2. PICK u \in DOMAIN decided : decided[u] = r
      BY <1>3 DEF Persisted, Retained, Decisions
    <3>3. u <= ReceiptFloor
      BY <1>3, <3>2 DEF Persisted, Numbering
    <3>4. k <= decided[u].env.seq /\ decided[u].env.lineage = l
      BY <2>1, <2>3, <3>1, <3>2
    <3>5. ~ (u < t)
      <4> SUFFICES ASSUME u < t PROVE FALSE
        OBVIOUS
      <4>1. u \in 1 .. t - 1 /\ decided[u].env.seq \in Nat
        BY <2>2, <3>2, DecisionType
      <4>2. decided[u].env.seq < k
        BY <3>4, <4>1 DEF Persisted, Ordering
      <4>3. QED
        BY <2>2, <3>4, <4>1, <4>2
    <3>6. QED
      BY <1>2, <2>2, <3>2, <3>3, <3>5
  <2>6. QED
    BY <1>5, <2>2, <2>4, <2>5
<1>10. Covered'
  BY <1>1, <1>2 DEF Persisted, Covered, Newer
<1>11. LogAboveFloor'
  <2>1. ASSUME NEW s \in historyFloor' + 1 .. nextServer' - 1
        PROVE  s \in DOMAIN log' /\
               \E d \in Decisions' : d.tag = "Accepted" /\ d.at = s /\ d.env = log'[s]
    <3>1. s \in historyFloor + 1 .. nextServer - 1 /\ ~ (s <= HistoryFloor)
      BY <1>1, <1>2 DEF TypeOK
    <3>2. s \in DOMAIN log /\ \E d \in Decisions : d.tag = "Accepted" /\ d.at = s /\ d.env = log[s]
      BY <3>1 DEF Persisted, LogAboveFloor
    <3>3. s \notin history
      BY <1>4, <3>1
    <3>4. QED
      BY <1>1, <1>6, <3>2, <3>3
  <2>2. QED
    BY <2>1 DEF LogAboveFloor
<1>12. QED
  BY <1>7, <1>8, <1>9, <1>10, <1>11 DEF Persisted

(* The snapshot a pass installs is the newest of those retained.           *)
LEMMA InstallPersisted ==
  ASSUME TypeOK, Persisted, NEW s \in Snapshots, HeadsUnmoved(s), InstallSnapshot(s),
         UNCHANGED <<spaceVars, expired, historyFloor, receiptFloor, decided>>
  PROVE  Persisted' /\ current' \in Snapshots /\ snapshots' \subseteq Snapshots
<1> DEFINE kept == IF SnapshotCurrent THEN current ELSE s
           all == snapshots \cup {kept}
<1>1. /\ nextServer \in Nat /\ nextTerminal \in Nat
      /\ historyFloor \in Nat /\ receiptFloor \in Nat
      /\ snapshots \subseteq Snapshots /\ current \in Snapshots \cup {NoSnapshot}
      /\ nextServer >= 1 /\ nextTerminal >= 1
  BY DecisionType DEF TypeOK, Persisted, Numbering
<1>2. /\ kept \in Snapshots /\ kept.sequence = nextServer - 1
      /\ kept.terminal = nextTerminal - 1
  BY <1>1 DEF SnapshotCurrent, HeadsUnmoved
<1>3. current' = kept /\ snapshots' = Newest(all, RetainedSnapshots)
  BY DEF InstallSnapshot
<1> HIDE DEF kept
<1>4. \A t \in all : ~ Newer(t, kept)
  <2>1. ~ Newer(kept, kept)
    BY <1>2 DEF Newer, Snapshots
  <2>2. ASSUME NEW t \in snapshots PROVE ~ Newer(t, kept)
    <3>1. /\ current \in Snapshots /\ current.sequence < nextServer
          /\ current.terminal < nextTerminal /\ ~ Newer(t, current)
      BY <1>1 DEF Persisted, Covered
    <3>2. t \in Snapshots
      BY <1>1
    <3>3. QED
      BY <1>1, <1>2, <3>1, <3>2 DEF Newer, Snapshots
  <2>3. QED
    BY <2>1, <2>2
<1>5. kept \in snapshots'
  <2>1. {t \in all : Newer(t, kept)} = {}
    BY <1>4
  <2>2. Cardinality({t \in all : Newer(t, kept)}) < RetainedSnapshots
    <3>1. Cardinality({}) = 0
      BY FS_EmptySet
    <3>2. QED
      BY <2>1, <3>1
  <2>3. QED
    BY <1>3, <2>2 DEF Newest
<1>6. snapshots' \subseteq all
  BY <1>3 DEF Newest
<1>7. historyFloor <= kept.sequence /\ receiptFloor <= kept.terminal
  BY <1>1, <1>2 DEF Persisted, Covered, Snapshots
<1>8. Covered'
  <2>1. \A t \in snapshots' : ~ Newer(t, current')
    BY <1>3, <1>4, <1>6
  <2>2. current' # NoSnapshot
    BY <1>2, <1>3 DEF Snapshots, Contents
  <2>3. /\ current'.sequence < nextServer' /\ current'.terminal < nextTerminal'
        /\ historyFloor' <= current'.sequence /\ receiptFloor' <= current'.terminal
    BY <1>1, <1>2, <1>3, <1>7 DEF spaceVars
  <2>4. QED
    BY <1>3, <1>5, <2>1, <2>2, <2>3 DEF Covered, Newer
<1>9. Numbering' /\ Ordering' /\ Watermarks' /\ Retained' /\ Fenced' /\ LogAboveFloor'
  BY DEF Persisted, Numbering, Ordering, Watermarks, Retained, Fenced, LogAboveFloor,
         Decisions, spaceVars
<1>10. Persisted'
  BY <1>8, <1>9 DEF Persisted
<1>11. current' \in Snapshots
  BY <1>2, <1>3
<1>12. snapshots' \subseteq Snapshots
  <2>1. all \subseteq Snapshots
    BY <1>1, <1>2
  <2>2. QED
    BY <1>6, <2>1
<1>13. QED
  BY <1>10, <1>11, <1>12

(***************************************************************************)
(* Steps of requests that leave the space alone.                           *)
(***************************************************************************)
LEMMA SamePersisted ==
  ASSUME Persisted, UNCHANGED <<spaceVars, floorVars, decided>>
  PROVE  Persisted' /\ Decisions' = Decisions
BY DEF Persisted, Numbering, Ordering, Watermarks, Retained, Fenced, Covered,
       LogAboveFloor, Decisions, spaceVars, floorVars, Newer

(* A stored receipt is the decision for the very envelope retried.         *)
LEMMA StoredIsTruthful ==
  ASSUME TypeOK, Persisted, NEW c \in Callers, NEW e \in Envelopes, AnswerStored(c, e),
         decided' = decided
  PROVE  Finish(c) /\ Outcome'
<1>1. PICK r \in receipts :
         \/ SameDigest(r, e) /\ Answer(c, [r EXCEPT !.env = e])
         \/ ~ SameDigest(r, e) /\ Finish(c) /\ Silent
  BY DEF AnswerStored, StoredFor
<1>2. CASE SameDigest(r, e) /\ Answer(c, [r EXCEPT !.env = e])
  <2>1. [r EXCEPT !.env = e] = r
    BY <1>2 DEF SameDigest, TypeOK, Receipts
  <2>2. r \in Ledger!Decisions'
    BY DEF Persisted, Retained, Decisions, Ledger!Decisions
  <2>3. QED
    BY <1>2, <2>1, <2>2 DEF Answer, Outcome, Ledger!Truthful
<1>3. CASE ~ SameDigest(r, e) /\ Finish(c) /\ Silent
  BY <1>3 DEF Silent, Outcome, NoReply
<1>4. QED
  BY <1>1, <1>2, <1>3

(* Below the expired watermark there is a snapshot, and it covers the      *)
(* decision.                                                               *)
LEMMA ExpiredIsTruthful ==
  ASSUME TypeOK, Persisted, NEW c \in Callers, NEW e \in Envelopes, AnswerExpired(c, e),
         decided' = decided
  PROVE  Finish(c) /\ Outcome' /\ reply' \in Receipts
<1>1. /\ e.lineage \in Lineages /\ e.seq \in Nat \ {0} /\ e.seq <= expired[e.lineage]
      /\ expired[e.lineage] \in Nat /\ last[e.lineage] \in Nat
      /\ expired[e.lineage] <= last[e.lineage]
  BY DEF AnswerExpired, TypeOK, Persisted, Retained
<1>2. PICK t \in DOMAIN decided : decided[t].env.lineage = e.lineage /\ decided[t].env.seq = e.seq
  BY <1>1 DEF Persisted, Watermarks
<1>3. t \in 1 .. Len(decided) /\ t <= receiptFloor /\ decided[t].through = t
  BY <1>1, <1>2, DecisionType DEF Persisted, Fenced, Numbering
<1>4. current # NoSnapshot /\ current \in snapshots /\ receiptFloor <= current.terminal
  BY <1>3 DEF Persisted, Covered
<1>5. /\ current \in Snapshots /\ receiptFloor \in Nat
      /\ t <= current.terminal
  BY <1>3, <1>4, DecisionType DEF TypeOK, Snapshots
<1>6. reply' = Receipt(e, "Expired", current.sequence, current.terminal) /\ Finish(c)
  BY <1>4 DEF AnswerExpired, Answer, ExpiredReceipt
<1>7. reply' \in Receipts
  BY <1>5, <1>6, ReceiptType DEF Snapshots, Tags
<1>8. decided[t] \in Ledger!DecisionsFor(e)'
  BY <1>2 DEF Ledger!DecisionsFor, Ledger!Decisions
<1>9. Ledger!Truthful(reply)'
  BY <1>3, <1>5, <1>6, <1>8 DEF Receipt, Ledger!Truthful
<1>10. QED
  BY <1>6, <1>7, <1>9 DEF Outcome

(* Above the expired watermark a decided sequence still has its receipt,   *)
(* so only a different mutation under that sequence finds it missing.      *)
LEMMA MissingIsTruthful ==
  ASSUME TypeOK, Persisted, NEW c \in Callers, NEW e \in Envelopes, AnswerMissing(c, e),
         StoredFor(e) = {}, decided' = decided
  PROVE  Finish(c) /\ Outcome' /\ reply' \in Receipts
<1>1. /\ e.lineage \in Lineages /\ e.seq \in Nat
      /\ expired[e.lineage] \in Nat /\ last[e.lineage] \in Nat
      /\ e.seq \in expired[e.lineage] + 1 .. last[e.lineage]
  BY DEF AnswerMissing, TypeOK
<1>2. PICK r \in receipts : r.env.lineage = e.lineage /\ r.env.seq = e.seq
  BY <1>1 DEF Persisted, Retained
<1>3. r.env # e
  BY <1>2 DEF StoredFor
<1>4. r \in Ledger!DecisionsFor(e)'
  BY <1>2 DEF Persisted, Retained, Decisions, Ledger!DecisionsFor, Ledger!Decisions
<1>5. reply' = Receipt(e, "Corrupt", 0, 0) /\ Finish(c)
  BY DEF AnswerMissing, Answer
<1>6. reply' \in Receipts
  BY <1>5, ReceiptType DEF Tags
<1>7. Ledger!Truthful(reply)'
  BY <1>3, <1>4, <1>5 DEF Receipt, Ledger!Truthful
<1>8. QED
  BY <1>5, <1>6, <1>7 DEF Outcome

LEMMA FinishInv ==
  ASSUME IndInv, NEW c \in Callers, Finish(c), Outcome', reply' \in Receipts \cup {NoReply},
         UNCHANGED <<spaceVars, floorVars, passes, decided, missed>>, failures' \in Nat
  PROVE  IndInv'
<1>1. Idle \in Calls /\ Idle.pc # "compact"
  BY DEF Calls, Idle
<1>2. TypeOK'
  BY <1>1 DEF IndInv, TypeOK, Finish, spaceVars, floorVars
<1>3. Persisted' /\ Decisions' = Decisions
  BY SamePersisted DEF IndInv
<1>4. Candidates' /\ Committed'
  BY <1>1, <1>3 DEF IndInv, TypeOK, Candidates, Committed, Finish
<1>5. QED
  BY <1>2, <1>3, <1>4 DEF IndInv

LEMMA SilentOutcome == Silent => Outcome' /\ reply' \in Receipts \cup {NoReply}
BY DEF Silent, Outcome, NoReply

LEMMA RequestInv ==
  ASSUME IndInv, NEW c \in Callers, Request(c)
  PROVE  IndInv'
<1>1. PICK e \in Envelopes, kind \in {"submit", "discard"} :
         calls' = [calls EXCEPT ![c] = [pc |-> "lookup", kind |-> kind, env |-> e]]
  BY DEF Request
<1>2. [pc |-> "lookup", kind |-> kind, env |-> e] \in Calls
  BY DEF Calls
<1>3. TypeOK'
  BY <1>1, <1>2 DEF Request, Silent, IndInv, TypeOK, spaceVars, floorVars
<1>4. Persisted' /\ Decisions' = Decisions
  BY SamePersisted DEF IndInv, Request
<1>5. Candidates' /\ Committed'
  BY <1>1, <1>4 DEF IndInv, TypeOK, Candidates, Committed, Request
<1>6. QED
  BY <1>3, <1>4, <1>5, SilentOutcome DEF IndInv, Request

LEMMA LookupInv ==
  ASSUME IndInv, NEW c \in Callers, Lookup(c)
  PROVE  IndInv'
<1>1. /\ calls[c].env \in Envelopes /\ calls[c].kind \in {"submit", "discard"}
      /\ calls[c] = [pc |-> calls[c].pc, kind |-> calls[c].kind, env |-> calls[c].env]
      /\ TypeOK /\ Persisted
  BY CallType DEF Lookup, IndInv
<1>2. UNCHANGED <<spaceVars, floorVars, passes, decided, missed>> /\ failures' \in Nat
      /\ decided' = decided
  BY <1>1 DEF Lookup, TypeOK
<1>3. CASE Finish(c) /\ Silent
  BY <1>2, <1>3, FinishInv, SilentOutcome
<1>4. CASE AnswerStored(c, calls[c].env)
  BY <1>1, <1>2, <1>4, StoredIsTruthful, AnswerStoredType, FinishInv
<1>5. CASE Silent /\ calls' = [calls EXCEPT ![c].pc = "transact"]
  <2>1. [calls[c] EXCEPT !.pc = "transact"] =
           [pc |-> "transact", kind |-> calls[c].kind, env |-> calls[c].env]
    BY <1>1
  <2>2. [pc |-> "transact", kind |-> calls[c].kind, env |-> calls[c].env] \in Calls
    BY <1>1 DEF Calls
  <2>3. calls' = [calls EXCEPT ![c] = [pc |-> "transact", kind |-> calls[c].kind,
                                       env |-> calls[c].env]]
    BY <1>5, <2>1
  <2>4. TypeOK'
    BY <1>1, <1>2, <1>5, <2>2, <2>3 DEF Silent, TypeOK, spaceVars, floorVars
  <2>5. Persisted' /\ Decisions' = Decisions
    BY <1>1, <1>2, SamePersisted
  <2>6. Candidates' /\ Committed'
    BY <1>2, <2>3, <2>5 DEF IndInv, TypeOK, Candidates, Committed
  <2>7. QED
    BY <1>5, <2>4, <2>5, <2>6, SilentOutcome DEF IndInv
<1>6. QED
  BY <1>3, <1>4, <1>5 DEF Lookup

LEMMA TransactReadOnlyInv ==
  ASSUME IndInv, NEW c \in Callers, TransactReadOnly(c)
  PROVE  IndInv'
<1> DEFINE e == calls[c].env
           kind == calls[c].kind
<1>1. e \in Envelopes /\ TypeOK /\ Persisted
  BY CallType DEF TransactReadOnly, IndInv
<1>2. UNCHANGED <<spaceVars, floorVars, passes, decided, missed>> /\ failures' \in Nat
      /\ decided' = decided
  BY <1>1 DEF TransactReadOnly, TypeOK
<1>3. \/ AnswerStored(c, e)
      \/ StoredFor(e) = {} /\ (AnswerExpired(c, e) \/ AnswerMissing(c, e))
      \/ Finish(c) /\ Silent
  BY DEF TransactReadOnly, Undecided
<1> HIDE DEF e, kind
<1>4. CASE AnswerStored(c, e)
  BY <1>1, <1>2, <1>4, StoredIsTruthful, AnswerStoredType, FinishInv
<1>5. CASE AnswerExpired(c, e)
  BY <1>1, <1>2, <1>5, ExpiredIsTruthful, FinishInv
<1>6. CASE StoredFor(e) = {} /\ AnswerMissing(c, e)
  BY <1>1, <1>2, <1>6, MissingIsTruthful, FinishInv
<1>7. CASE Finish(c) /\ Silent
  BY <1>2, <1>7, FinishInv, SilentOutcome
<1>8. QED
  BY <1>3, <1>4, <1>5, <1>6, <1>7

(***************************************************************************)
(* Admitting steps: each is a decision of the ledger.                      *)
(***************************************************************************)
LEMMA StoreStep ==
  ASSUME IndInv, NEW c \in Callers, NEW r \in Receipts, Store(c, r), Persisted',
         UNCHANGED <<floorVars, passes, missed, failures>>
  PROVE  Candidates' /\ Committed' /\ Outcome'
<1>1. /\ Decisions' = Decisions \cup {r} /\ TypeOK
  BY AppendFacts DEF Store, IndInv, TypeOK
<1>2. Candidates'
  BY DEF IndInv, Candidates
<1>3. Committed'
  <2>1. \/ calls' = [calls EXCEPT ![c] = [pc |-> "compact", receipt |-> r]]
        \/ calls' = [calls EXCEPT ![c] = Idle]
    BY DEF Store, Answer, Finish
  <2>2. calls \in [Callers -> Calls] /\ Idle.pc # "compact"
    BY <1>1 DEF TypeOK, Idle
  <2>3. \A x \in Callers : x # c => calls'[x] = calls[x]
    BY <2>1, <2>2
  <2>4. calls'[c] \in {[pc |-> "compact", receipt |-> r], Idle}
    BY <2>1, <2>2
  <2>5. calls'[c].pc = "compact" => calls'[c].receipt = r
    BY <2>2, <2>4
  <2>6. QED
    BY <1>1, <2>3, <2>5 DEF IndInv, Committed
<1>4. Outcome'
  <2>1. reply' = NoReply \/ reply' = r
    BY DEF Store, Answer, Silent
  <2>2. r \in Ledger!Decisions'
    BY <1>1 DEF Decisions, Ledger!Decisions
  <2>3. QED
    BY <2>1, <2>2 DEF Outcome, Ledger!Truthful
<1>5. QED
  BY <1>2, <1>3, <1>4

(* The next local sequence of its lineage, numbered after the accepted.    *)
LEMMA StoreDecides ==
  ASSUME IndInv, NEW c \in Callers, NEW r \in Receipts, Store(c, r),
         r.env.seq = last[r.env.lineage] + 1, r.through = nextTerminal,
         \/ r.tag = "Accepted" /\ r.at = nextServer
         \/ r.tag = "Rejected" /\ r.at = 0
  PROVE  Ledger!Decide(r.env)
<1> DEFINE e == r.env
           n == Len(decided)
           mine == {x \in Ledger!Decisions : x.env.lineage = e.lineage}
           accepted == {x \in Ledger!Decisions : x.tag = "Accepted"}
<1>1. /\ TypeOK /\ Persisted /\ e \in Envelopes /\ e.lineage \in Lineages
      /\ last[e.lineage] \in Nat /\ nextServer \in Nat
  BY DEF IndInv, TypeOK, Receipts
<1>2. /\ n \in Nat /\ DOMAIN decided = 1 .. n /\ nextTerminal = n + 1
      /\ \A t \in 1 .. n : decided[t].env.seq \in Nat \ {0} /\ decided[t].at \in Nat
  BY <1>1, DecisionType DEF Persisted, Numbering
<1>3. Ledger!InTurn(e)
  <2>1. \A d \in mine : d.env.seq < e.seq
    BY <1>1, <1>2 DEF Persisted, Watermarks, Ledger!Decisions
  <2>2. e.seq = 1 \/ \E d \in mine : d.env.seq = e.seq - 1
    <3>1. last[e.lineage] = 0 \/ last[e.lineage] \in 1 .. last[e.lineage]
      BY <1>1
    <3>2. CASE last[e.lineage] \in 1 .. last[e.lineage]
      <4>1. PICK t \in DOMAIN decided : /\ decided[t].env.lineage = e.lineage
                                        /\ decided[t].env.seq = last[e.lineage]
        BY <1>1, <3>2 DEF Persisted, Watermarks
      <4>2. decided[t] \in mine
        BY <4>1 DEF Ledger!Decisions
      <4>3. QED
        BY <1>1, <4>1, <4>2
    <3>3. QED
      BY <1>1, <3>1, <3>2
  <2>3. QED
    BY <2>1, <2>2 DEF Ledger!InTurn, Ledger!Follows
<1>4. Ledger!Numbered(r.tag, r.at)
  <2>1. CASE r.tag = "Rejected" /\ r.at = 0
    BY <2>1 DEF Ledger!Numbered
  <2>2. CASE r.tag = "Accepted" /\ r.at = nextServer
    <3>1. \A d \in accepted : d.at < nextServer
      BY <1>1, <1>2 DEF Persisted, Numbering, Ledger!Decisions
    <3>2. nextServer = 1 \/ \E d \in accepted : d.at = nextServer - 1
      <4>1. nextServer = 1 \/ nextServer - 1 \in 1 .. nextServer - 1
        BY <1>1 DEF Persisted, Numbering
      <4>2. CASE nextServer - 1 \in 1 .. nextServer - 1
        BY <1>1, <4>2 DEF Persisted, Numbering, Ledger!Decisions
      <4>3. QED
        BY <4>1, <4>2
    <3>3. QED
      BY <2>2, <3>1, <3>2 DEF Ledger!Numbered, Ledger!Follows
  <2>3. QED
    BY <2>1, <2>2
<1>5. r.at \in 0 .. n + 1
  <2>1. CASE r.tag = "Accepted" /\ r.at = nextServer
    <3>1. nextServer <= n + 1
      BY <1>1, <1>2 DEF Persisted, Numbering
    <3>2. QED
      BY <1>1, <1>2, <2>1, <3>1
  <2>2. QED
    BY <1>2, <2>1
<1>6. r = [env |-> e, tag |-> r.tag, at |-> r.at, through |-> n + 1]
  BY <1>2 DEF Receipts
<1>7. decided' = Append(decided, r) /\ reply' \in {NoReply, r}
  BY DEF Store, Answer, Silent
<1>8. NoReply = Ledger!NoReply
  BY DEF NoReply, Ledger!NoReply
<1>9. QED
  BY <1>3, <1>4, <1>5, <1>6, <1>7, <1>8 DEF Ledger!Decide

(* Every admission keeps the invariant and is a decision of the ledger.    *)
LEMMA AdmitStep ==
  ASSUME IndInv, NEW c \in Callers, Admit(c) \/ Discard(c)
  PROVE  IndInv' /\ \E e \in Envelopes : Ledger!Decide(e)
<1> DEFINE e == calls[c].env
           a == Receipt(e, "Accepted", nextServer, nextTerminal)
           r == Receipt(e, "Rejected", 0, nextTerminal)
<1>1. /\ TypeOK /\ Persisted /\ e \in Envelopes
      /\ e.seq = last[e.lineage] + 1
      /\ UNCHANGED <<floorVars, passes, missed, failures>>
      /\ Accept(c, e) \/ Reject(c, e)
  BY CallType DEF Admit, Discard, Admissible, IndInv
<1> HIDE DEF e
<1>2. CASE Accept(c, e)
  <2>1. TypeOK' /\ Persisted'
    BY <1>1, <1>2, AcceptType, AcceptPersisted
  <2>2. a \in Receipts /\ Store(c, a)
    BY <1>1, <1>2, ReceiptType DEF TypeOK, Tags, Accept
  <2>3. a.env = e /\ a.tag = "Accepted" /\ a.at = nextServer /\ a.through = nextTerminal
    BY DEF Receipt
  <2> HIDE DEF a
  <2>4. Candidates' /\ Committed' /\ Outcome'
    BY <1>1, <2>1, <2>2, StoreStep
  <2>5. Ledger!Decide(a.env)
    BY <1>1, <2>2, <2>3, StoreDecides
  <2>6. QED
    BY <1>1, <2>1, <2>3, <2>4, <2>5 DEF IndInv
<1>3. CASE Reject(c, e)
  <2>1. TypeOK' /\ Persisted'
    BY <1>1, <1>3, RejectType, RejectPersisted
  <2>2. r \in Receipts /\ Store(c, r)
    BY <1>1, <1>3, ReceiptType DEF TypeOK, Tags, Reject
  <2>3. r.env = e /\ r.tag = "Rejected" /\ r.at = 0 /\ r.through = nextTerminal
    BY DEF Receipt
  <2> HIDE DEF r
  <2>4. Candidates' /\ Committed' /\ Outcome'
    BY <1>1, <2>1, <2>2, StoreStep
  <2>5. Ledger!Decide(r.env)
    BY <1>1, <2>2, <2>3, StoreDecides
  <2>6. QED
    BY <1>1, <2>1, <2>3, <2>4, <2>5 DEF IndInv
<1>4. QED
  BY <1>1, <1>2, <1>3

(***************************************************************************)
(* The remaining steps.                                                    *)
(***************************************************************************)
LEMMA PassType ==
  /\ AtRest \in PassStates /\ Started \in PassStates /\ Ending \in PassStates
  /\ AtRest.phase = "idle" /\ Started.phase = "check" /\ Ending.phase = "ending"
BY DEF AtRest, Started, Ending, PassStates, PassPhases, NoCandidate

LEMMA RequestCompactionInv ==
  ASSUME IndInv, NEW c \in Callers, RequestCompaction(c)
  PROVE  IndInv'
<1> DEFINE state == passes[Compactor]
           next == IF state = AtRest THEN Started ELSE [state EXCEPT !.rerun = TRUE]
<1>1. TypeOK /\ Compactor \in Passes /\ calls[c].receipt \in Receipts /\ state \in PassStates
  BY CallType DEF RequestCompaction, IndInv, Passes, TypeOK
<1>2. passes' = [passes EXCEPT ![Compactor] = next] /\ reply' = calls[c].receipt /\ Finish(c)
  BY DEF RequestCompaction, Answer
<1>3. /\ next \in PassStates
      /\ next.phase = "publish" => state.phase = "publish" /\ next.candidate = state.candidate
  BY <1>1, PassType DEF PassStates
<1> HIDE DEF next
<1>4. Persisted' /\ Decisions' = Decisions
  BY SamePersisted DEF IndInv, RequestCompaction
<1>5. Idle \in Calls /\ Idle.pc # "compact"
  BY DEF Calls, Idle
<1>6. TypeOK'
  BY <1>1, <1>2, <1>3, <1>5 DEF TypeOK, RequestCompaction, Finish, spaceVars, floorVars
<1>7. Candidates'
  BY <1>1, <1>2, <1>3 DEF IndInv, Candidates, TypeOK
<1>8. Committed'
  BY <1>2, <1>4, <1>5 DEF IndInv, Committed, TypeOK, Finish
<1>9. Outcome'
  <2>1. reply' \in Decisions'
    BY <1>2, <1>4 DEF IndInv, Committed, RequestCompaction
  <2>2. QED
    BY <2>1 DEF Outcome, Ledger!Truthful, Ledger!Decisions, Decisions
<1>10. QED
  BY <1>4, <1>6, <1>7, <1>8, <1>9 DEF IndInv

(* A pass that only moves on: the space and the calls stay as they are.    *)
LEMMA PassMoves ==
  ASSUME IndInv, NEW m \in Passes, NEW next \in PassStates,
         next.phase = "publish" => next.candidate # NoSnapshot,
         passes' = [passes EXCEPT ![m] = next], Silent,
         Persisted', Decisions' = Decisions, UNCHANGED <<calls, missed>>,
         failures' \in Nat, UNCHANGED <<nextServer, nextTerminal, last, entities, decided>>,
         DOMAIN log' \subseteq Nat, \A s \in DOMAIN log' : log'[s] \in Envelopes,
         receipts' \subseteq Receipts, expired' \in [Lineages -> Nat],
         historyFloor' \in Nat, receiptFloor' \in Nat,
         snapshots' \subseteq Snapshots, current' \in Snapshots \cup {NoSnapshot}
  PROVE  IndInv'
<1>1. TypeOK'
  BY SilentOutcome DEF IndInv, TypeOK
<1>2. Candidates' /\ Committed'
  BY DEF IndInv, TypeOK, Candidates, Committed
<1>3. QED
  BY <1>1, <1>2, SilentOutcome DEF IndInv

LEMMA IdlePassMoves ==
  ASSUME IndInv, NEW m \in Passes, NEW next \in PassStates,
         next.phase = "publish" => next.candidate # NoSnapshot,
         passes' = [passes EXCEPT ![m] = next], Silent,
         UNCHANGED <<spaceVars, floorVars, calls, decided, missed>>, failures' \in Nat
  PROVE  IndInv'
<1>1. Persisted' /\ Decisions' = Decisions
  BY SamePersisted DEF IndInv
<1>2. QED
  BY <1>1, PassMoves DEF IndInv, TypeOK, spaceVars, floorVars

LEMMA AdvanceFacts ==
  ASSUME TypeOK, NEW m \in Passes, NEW phase \in PassPhases,
         NEW candidate \in Snapshots \cup {NoSnapshot}, Advance(m, phase, candidate)
  PROVE  \E next \in PassStates : /\ passes' = [passes EXCEPT ![m] = next]
                                  /\ next.phase = phase /\ next.candidate = candidate
<1> DEFINE next == [passes[m] EXCEPT !.phase = phase, !.candidate = candidate]
<1>1. passes[m] \in PassStates
  BY DEF TypeOK
<1>2. next \in PassStates /\ next.phase = phase /\ next.candidate = candidate
  BY <1>1 DEF PassStates
<1>3. passes' = [passes EXCEPT ![m] = next]
  BY DEF Advance
<1>4. QED
  BY <1>2, <1>3

LEMMA CheckOrPrepareInv ==
  ASSUME IndInv, NEW m \in Passes, CheckSnapshot(m) \/ PrepareSnapshot(m)
  PROVE  IndInv'
<1>1. TypeOK /\ UNCHANGED <<spaceVars, floorVars, calls, decided, missed>> /\ Silent
      /\ failures' \in Nat
  BY DEF IndInv, TypeOK, CheckSnapshot, PrepareSnapshot
<1>2. CASE CheckSnapshot(m)
  <2>1. PICK phase \in {"prune", "prepare"} : Advance(m, phase, NoSnapshot)
    BY <1>2 DEF CheckSnapshot, NoCandidate
  <2>2. QED
    BY <1>1, <2>1, AdvanceFacts, IdlePassMoves DEF PassPhases
<1>3. CASE PrepareSnapshot(m)
  <2>1. Advance(m, "publish", Heads)
    BY <1>3 DEF PrepareSnapshot
  <2>2. Heads \in Snapshots
    BY <1>1, DecisionType DEF IndInv, Heads, Snapshots, TypeOK, Persisted, Numbering
  <2>3. Heads # NoSnapshot
    BY <2>2 DEF Snapshots, Contents
  <2>4. QED
    BY <1>1, <2>1, <2>2, <2>3, AdvanceFacts, IdlePassMoves DEF PassPhases
<1>4. QED
  BY <1>2, <1>3

LEMMA PublishInv ==
  ASSUME IndInv, NEW m \in Passes, PublishSnapshot(m)
  PROVE  IndInv'
<1>1. /\ TypeOK /\ Persisted /\ Silent /\ Advance(m, "prune", NoSnapshot)
      /\ UNCHANGED <<spaceVars, expired, historyFloor, receiptFloor, calls, decided,
                     missed, failures>>
      /\ Decisions' = Decisions
  BY DEF IndInv, PublishSnapshot, NoCandidate, Decisions
<1>2. Persisted' /\ snapshots' \subseteq Snapshots /\ current' \in Snapshots \cup {NoSnapshot}
  <2> DEFINE s == passes[m].candidate
  <2>1. CASE HeadsUnmoved(s) /\ InstallSnapshot(s)
    <3>1. s \in Snapshots
      BY <1>1 DEF IndInv, Candidates, PublishSnapshot, TypeOK, PassStates
    <3> HIDE DEF s
    <3>2. QED
      BY <1>1, <2>1, <3>1, InstallPersisted
  <2>2. CASE UNCHANGED <<current, snapshots>>
    BY <1>1, <2>2, SamePersisted DEF TypeOK, floorVars
  <2>3. QED
    BY <2>1, <2>2 DEF PublishSnapshot
<1>3. PICK next \in PassStates : /\ passes' = [passes EXCEPT ![m] = next]
                                /\ next.phase = "prune"
  BY <1>1, AdvanceFacts DEF PassPhases
<1>4. QED
  BY <1>1, <1>2, <1>3, PassMoves DEF TypeOK, spaceVars

LEMMA AfterPassType ==
  ASSUME NEW m \in Passes
  PROVE  AfterPass(m) \in PassStates /\ AfterPass(m).phase # "publish"
BY PassType DEF AfterPass

LEMMA PruneBatchInv ==
  ASSUME IndInv, NEW m \in Passes, PruneBatch(m)
  PROVE  IndInv'
<1> DEFINE pruned == PrunableReceipts(ReceiptFloor)
<1>1. /\ TypeOK /\ Persisted /\ Silent /\ current # NoSnapshot
      /\ UNCHANGED <<nextServer, nextTerminal, last, entities, snapshots, current, calls,
                     decided, missed, failures>>
      /\ Decisions' = Decisions
  BY DEF IndInv, PruneBatch, Decisions
<1>2. Persisted'
  BY <1>1, PruneBatchPersisted
<1>3. historyFloor' \in Nat /\ receiptFloor' \in Nat
  BY <1>1, FloorType DEF PruneBatch
<1>4. /\ DOMAIN log' \subseteq Nat /\ \A s \in DOMAIN log' : log'[s] \in Envelopes
      /\ receipts' \subseteq Receipts
  BY <1>1 DEF PruneBatch, TypeOK
<1>5. expired' \in [Lineages -> Nat]
  <2>1. expired' = [l \in Lineages |-> PrunedThrough(pruned, l)] /\ pruned \subseteq receipts
    BY DEF PruneBatch, PrunableReceipts
  <2> HIDE DEF pruned
  <2>2. \A l \in Lineages : /\ PrunedThrough(pruned, l) \in expired[l] .. last[l]
                            /\ expired[l] \in Nat
    BY <1>1, <2>1, PrunedThroughFacts DEF TypeOK
  <2>3. QED
    BY <2>1, <2>2
<1>6. PICK next \in PassStates : /\ passes' = [passes EXCEPT ![m] = next]
                                /\ next.phase # "publish"
  <2>1. PICK next \in {AfterPass(m), passes[m]} : passes' = [passes EXCEPT ![m] = next]
    BY DEF PruneBatch
  <2>2. passes[m] \in PassStates /\ passes[m].phase = "prune"
    BY <1>1 DEF PruneBatch, TypeOK
  <2>3. QED
    BY <2>1, <2>2, AfterPassType
<1>7. QED
  BY <1>1, <1>2, <1>3, <1>4, <1>5, <1>6, PassMoves DEF TypeOK

LEMMA OtherPassInv ==
  ASSUME IndInv, NEW m \in Passes, PruneNothing(m) \/ EndPass(m) \/ FailPass(m)
  PROVE  IndInv'
<1>1. /\ UNCHANGED <<spaceVars, floorVars, calls, decided, missed>> /\ Silent
      /\ failures' \in Nat
      /\ \/ passes' = [passes EXCEPT ![m] = AfterPass(m)]
         \/ passes' = [passes EXCEPT ![m] = AtRest]
  BY DEF PruneNothing, EndPass, FailPass, IndInv, TypeOK
<1>2. QED
  BY <1>1, IdlePassMoves, AfterPassType, PassType

LEMMA SweepInv == IndInv /\ Sweep => IndInv'
<1> SUFFICES ASSUME IndInv, Sweep PROVE IndInv'
  OBVIOUS
<1>1. Sweeper \in Passes /\ failures' \in Nat
  BY DEF Passes, Sweep, IndInv, TypeOK
<1>2. QED
  BY <1>1, IdlePassMoves, PassType DEF Sweep

LEMMA CrashInv == IndInv /\ Crash => IndInv'
<1> SUFFICES ASSUME IndInv, Crash PROVE IndInv'
  OBVIOUS
<1>1. Idle \in Calls /\ Idle.pc # "compact"
  BY DEF Calls, Idle
<1>2. Persisted' /\ Decisions' = Decisions
  BY SamePersisted DEF IndInv, Crash
<1>3. TypeOK'
  BY <1>1, PassType, SilentOutcome DEF IndInv, Crash, TypeOK, spaceVars, floorVars
<1>4. Candidates' /\ Committed'
  BY <1>1, PassType DEF Crash, Candidates, Committed
<1>5. QED
  BY <1>2, <1>3, <1>4, SilentOutcome DEF IndInv, Crash

(***************************************************************************)
(* The theorems.                                                           *)
(***************************************************************************)
LEMMA NextInv == IndInv /\ [Next]_vars => IndInv'
<1> SUFFICES ASSUME IndInv, [Next]_vars PROVE IndInv'
  OBVIOUS
<1>1. ASSUME NEW c \in Callers, Request(c) PROVE IndInv'
  BY <1>1, RequestInv
<1>2. ASSUME NEW c \in Callers, CallStep(c) PROVE IndInv'
  BY <1>2, LookupInv, TransactReadOnlyInv, AdmitStep, RequestCompactionInv DEF CallStep
<1>3. ASSUME NEW c \in Callers, Interrupt(c) PROVE IndInv'
  <2>1. UNCHANGED <<spaceVars, floorVars, passes, decided, missed>> /\ failures' \in Nat
    BY <1>3 DEF Interrupt, IndInv, TypeOK
  <2>2. QED
    BY <1>3, <2>1, FinishInv, SilentOutcome DEF Interrupt
<1>4. ASSUME NEW m \in Passes, PassStep(m) \/ FailPass(m) PROVE IndInv'
  BY <1>4, CheckOrPrepareInv, PublishInv, PruneBatchInv, OtherPassInv DEF PassStep
<1>5. CASE UNCHANGED vars
  <2>1. UNCHANGED <<spaceVars, floorVars, decided>> /\ UNCHANGED <<calls, passes, reply, missed, failures>>
    BY <1>5 DEF vars
  <2>2. Persisted' /\ Decisions' = Decisions
    BY <2>1, SamePersisted DEF IndInv
  <2>3. TypeOK' /\ Candidates' /\ Committed'
    BY <2>1, <2>2 DEF IndInv, TypeOK, Candidates, Committed, spaceVars, floorVars
  <2>4. Outcome'
    BY <2>1 DEF IndInv, Outcome, Ledger!Truthful, Ledger!Decisions, Ledger!DecisionsFor
  <2>5. QED
    BY <2>2, <2>3, <2>4 DEF IndInv
<1>6. QED
  BY <1>1, <1>2, <1>3, <1>4, <1>5, SweepInv, CrashInv DEF Next

(* The invariant above holds in every reachable state, for any number of   *)
(* clients, callers and passes in flight and any retention options.        *)
THEOREM Invariance == Spec => []IndInv
<1>1. Init => IndInv
  BY InitInv
<1>2. IndInv /\ [Next]_vars => IndInv'
  BY NextInv
<1>3. QED
  BY <1>1, <1>2, PTL DEF Spec

(* Type correctness; in particular no floor and no watermark is ever       *)
(* negative.                                                               *)
THEOREM TypeCorrect == Spec => []TypeOK
<1>1. IndInv => TypeOK
  BY DEF IndInv
<1>2. QED
  BY <1>1, Invariance, PTL

(* Each lineage's mutations are decided in local order, each exactly once. *)
THEOREM OrderCorrect == Spec => []DecidedInOrder
<1>1. IndInv => DecidedInOrder
  <2> SUFFICES ASSUME IndInv, NEW t \in DOMAIN decided
               PROVE  LET e == decided[t].env
                          earlier == {u \in 1 .. t - 1 : decided[u].env.lineage = e.lineage}
                      IN /\ decided[t].through = t
                         /\ Ledger!Follows(e.seq, {decided[u].env.seq : u \in earlier})
    BY DEF DecidedInOrder
  <2>1. decided[t].through = t
    BY DEF IndInv, Persisted, Numbering
  <2>2. QED
    BY <2>1 DEF IndInv, Persisted, Ordering, Ledger!Follows
<1>2. QED
  BY <1>1, Invariance, PTL

(* Every answer is a decision, an Expired answer behind a covering         *)
(* snapshot, or a complaint about a sequence consumed by another mutation. *)
LEMMA OutcomeIsTruthful ==
  IndInv => AnswersAreDecisions /\ ExpiredIsCovered /\ NeverCorrupt
<1> SUFFICES ASSUME IndInv PROVE AnswersAreDecisions /\ ExpiredIsCovered /\ NeverCorrupt
  OBVIOUS
<1>1. \A d \in Decisions : d.tag \in {"Accepted", "Rejected"}
  BY DEF IndInv, Persisted, Numbering, Decisions
<1>2. CASE reply = NoReply
  BY <1>2 DEF NoReply, AnswersAreDecisions, ExpiredIsCovered, NeverCorrupt
<1>3. CASE reply \in Decisions
  BY <1>1, <1>3 DEF AnswersAreDecisions, ExpiredIsCovered, NeverCorrupt
<1>4. CASE /\ reply.tag = "Expired"
           /\ \E d \in DecisionsAt(reply.env.lineage, reply.env.seq) : d.through <= reply.through
  BY <1>4 DEF AnswersAreDecisions, ExpiredIsCovered, NeverCorrupt
<1>5. CASE /\ reply.tag = "Corrupt"
           /\ \E d \in DecisionsAt(reply.env.lineage, reply.env.seq) : d.env # reply.env
  BY <1>5 DEF AnswersAreDecisions, ExpiredIsCovered, NeverCorrupt
<1>6. QED
  BY <1>2, <1>3, <1>4, <1>5
     DEF IndInv, Outcome, Ledger!Truthful, Ledger!DecisionsFor, Ledger!Decisions,
         Decisions, DecisionsAt

(* Retries, races, pruning and crashes never change a mutation's outcome.  *)
THEOREM AnswersCorrect == Spec => []AnswersAreDecisions
<1>1. IndInv => AnswersAreDecisions
  BY OutcomeIsTruthful
<1>2. QED
  BY <1>1, Invariance, PTL

(* A receipt is only ever reclaimed behind a snapshot that contains its    *)
(* decision, and Expired names such a snapshot.                            *)
THEOREM ExpiredCorrect == Spec => []ExpiredIsCovered
<1>1. IndInv => ExpiredIsCovered
  BY OutcomeIsTruthful
<1>2. QED
  BY <1>1, Invariance, PTL

(* Bounded batches of two interleaved maintenance passes never let a       *)
(* receipt disappear before its lineage's expired watermark covers it.     *)
THEOREM NoCorruption == Spec => []NeverCorrupt
<1>1. IndInv => NeverCorrupt
  BY OutcomeIsTruthful
<1>2. QED
  BY <1>1, Invariance, PTL

(* The floors never pass the published snapshot.                           *)
THEOREM FloorsCorrect == Spec => []FloorsBehindSnapshot
<1>1. IndInv => FloorsBehindSnapshot
  BY DEF IndInv, TypeOK, Persisted, Covered, FloorsBehindSnapshot
<1>2. QED
  BY <1>1, Invariance, PTL

(* Above the history floor the accepted log has no hole.                   *)
THEOREM LogCorrect == Spec => []LogAboveFloor
<1>1. IndInv => LogAboveFloor
  BY DEF IndInv, Persisted
<1>2. QED
  BY <1>1, Invariance, PTL

(***************************************************************************)
(* The store implements the ledger: an admission is a Decide, every other  *)
(* step an Answer or, when it answers nothing, a stutter.                  *)
(***************************************************************************)
LEMMA StepRefines == IndInv /\ IndInv' /\ [Next]_vars => [Ledger!Next]_(Ledger!ledgerVars)
<1> SUFFICES ASSUME IndInv, IndInv', [Next]_vars
             PROVE  [Ledger!Next]_(Ledger!ledgerVars)
  OBVIOUS
<1>1. CASE \E c \in Callers : Admit(c) \/ Discard(c)
  BY <1>1, AdmitStep DEF Ledger!Next
<1>2. CASE decided' = decided
  <2>1. reply' = Ledger!NoReply \/ Ledger!Truthful(reply')
    BY <1>2 DEF IndInv, Outcome, NoReply, Ledger!NoReply, Ledger!Truthful,
                Ledger!Decisions, Ledger!DecisionsFor
  <2>2. QED
    BY <1>2, <2>1 DEF Ledger!Next, Ledger!Answer
<1>3. QED
  BY <1>1, <1>2 DEF Next, CallStep, PassStep, Request, Lookup, TransactReadOnly,
     RequestCompaction, Interrupt, Sweep, Crash, CheckSnapshot, PrepareSnapshot,
     PublishSnapshot, PruneBatch, PruneNothing, EndPass, FailPass, vars

THEOREM Refinement == Spec => LedgerSpec
<1>1. Init => Ledger!Init
  BY DEF Init, Ledger!Init, NoReply, Ledger!NoReply
<1>2. IndInv /\ IndInv' /\ [Next]_vars => [Ledger!Next]_(Ledger!ledgerVars)
  BY StepRefines
<1>3. QED
  BY <1>1, <1>2, Invariance, PTL DEF Spec, LedgerSpec, Ledger!Spec

(***************************************************************************)
(* The state is the replay of the accepted mutations.                      *)
(***************************************************************************)
Last(S) == CHOOSE t \in S : \A u \in S : u <= t

(* What the decisions d say of entity k up to server sequence n.           *)
Writes(d, k, n) ==
  {t \in {u \in DOMAIN d : d[u].tag = "Accepted" /\ d[u].at <= n} : d[t].env.key = k}

Replayed(d, k, n) ==
  IF Writes(d, k, n) = {} THEN Absent ELSE d[Last(Writes(d, k, n))].env.value

(* A snapshot, or one about to be published, holds what was accepted up to *)
(* its sequence.                                                           *)
Faithful(s) ==
  /\ s.sequence < nextServer
  /\ \A k \in Keys : s.content[k] = Replayed(decided, k, s.sequence)

ReplayInv ==
  /\ \A k \in Keys : entities[k] = Replayed(decided, k, nextServer - 1)
  /\ \A s \in snapshots : Faithful(s)
  /\ \A m \in Passes : passes[m].phase = "publish" => Faithful(passes[m].candidate)

LEMMA LargestIsLast ==
  ASSUME NEW S \in SUBSET Nat, NEW m \in S, \A u \in S : u <= m
  PROVE  Last(S) = m
<1>1. \A t \in S : (\A u \in S : u <= t) => t = m
  BY SMT
<1>2. QED
  BY <1>1 DEF Last

LEMMA LastIsMember ==
  ASSUME NEW b \in Nat, NEW S \in SUBSET (1 .. b), S # {}
  PROVE  Last(S) \in S
<1>1. S \in SUBSET Nat /\ \A x \in S : x <= b
  OBVIOUS
<1>2. PICK m \in S : \A x \in S : x <= m
  BY <1>1, MaxExists
<1>3. QED
  BY <1>1, <1>2, LargestIsLast

LEMMA AppendIs ==
  ASSUME NEW d \in Seq(Receipts), NEW r \in Receipts
  PROVE  /\ Len(d) \in Nat
         /\ DOMAIN d = 1 .. Len(d)
         /\ DOMAIN Append(d, r) = 1 .. Len(d) + 1
         /\ \A t \in 1 .. Len(d) : Append(d, r)[t] = d[t] /\ d[t].at \in Nat
         /\ Append(d, r)[Len(d) + 1] = r
         /\ r.at \in Nat
<1>1. \A q \in Receipts : q.at \in Nat
  BY DEF Receipts
<1>2. \A t \in 1 .. Len(d) : d[t] \in Receipts
  OBVIOUS
<1>3. QED
  BY <1>1, <1>2

(* What lies at or before n reads as it did when a decision is appended    *)
(* that is no accepted mutation at or before n.                            *)
LEMMA PastUnchanged ==
  ASSUME NEW d \in Seq(Receipts), NEW r \in Receipts, NEW k \in Keys, NEW n \in Nat,
         r.tag # "Accepted" \/ r.at > n
  PROVE  Replayed(Append(d, r), k, n) = Replayed(d, k, n)
<1> DEFINE e == Append(d, r)
<1>1. /\ Len(d) \in Nat
      /\ DOMAIN d = 1 .. Len(d) /\ DOMAIN e = 1 .. Len(d) + 1
      /\ \A t \in 1 .. Len(d) : e[t] = d[t]
      /\ e[Len(d) + 1] = r /\ r.at \in Nat
  BY AppendIs
<1> HIDE DEF e
<1>2. Writes(e, k, n) = Writes(d, k, n) /\ Writes(d, k, n) \in SUBSET (1 .. Len(d))
  BY <1>1 DEF Writes
<1>3. ASSUME Writes(d, k, n) # {} PROVE Last(Writes(d, k, n)) \in 1 .. Len(d)
  <2>1. Last(Writes(d, k, n)) \in Writes(d, k, n)
    BY <1>1, <1>2, <1>3, LastIsMember
  <2>2. QED
    BY <1>2, <2>1
<1>4. Replayed(e, k, n) = Replayed(d, k, n)
  BY <1>1, <1>2, <1>3 DEF Replayed
<1>5. QED
  BY <1>4 DEF e

(* Once a mutation is accepted at n, its entity reads as it wrote it and   *)
(* every other one as before.                                              *)
LEMMA AcceptedIsLast ==
  ASSUME NEW d \in Seq(Receipts), NEW r \in Receipts, NEW k \in Keys,
         NEW n \in Nat \ {0}, r.tag = "Accepted", r.at = n,
         \A t \in DOMAIN d : d[t].tag = "Accepted" => d[t].at < n
  PROVE  Replayed(Append(d, r), k, n) =
           IF k = r.env.key THEN r.env.value ELSE Replayed(d, k, n - 1)
<1> DEFINE e == Append(d, r)
           top == Len(d) + 1
<1>1. /\ Len(d) \in Nat /\ top \in Nat /\ n - 1 \in Nat
      /\ DOMAIN d = 1 .. Len(d) /\ DOMAIN e = 1 .. top
      /\ \A t \in 1 .. Len(d) : e[t] = d[t] /\ d[t].at \in Nat
      /\ e[top] = r
  BY AppendIs
<1> HIDE DEF e
<1>2. \A t \in 1 .. Len(d) : t \in Writes(e, k, n) <=> t \in Writes(d, k, n - 1)
  BY <1>1 DEF Writes
<1>3. /\ top \in Writes(e, k, n) <=> k = r.env.key
      /\ Writes(e, k, n) \in SUBSET (1 .. top)
      /\ Writes(d, k, n - 1) \in SUBSET (1 .. Len(d))
  BY <1>1 DEF Writes
<1>4. CASE k = r.env.key
  <2>1. Last(Writes(e, k, n)) = top
    <3>1. Writes(e, k, n) \in SUBSET Nat /\ \A u \in Writes(e, k, n) : u <= top
      BY <1>1, <1>3
    <3>2. QED
      BY <1>3, <1>4, <3>1, LargestIsLast
  <2>2. QED
    BY <1>1, <1>3, <1>4, <2>1 DEF Replayed, e
<1>5. CASE k # r.env.key
  <2>1. Writes(e, k, n) = Writes(d, k, n - 1)
    <3>1. \A t \in 1 .. top : t = top \/ t \in 1 .. Len(d)
      BY <1>1
    <3>2. QED
      BY <1>2, <1>3, <1>5, <3>1
  <2>2. ASSUME Writes(d, k, n - 1) # {} PROVE Last(Writes(d, k, n - 1)) \in 1 .. Len(d)
    <3>1. Last(Writes(d, k, n - 1)) \in Writes(d, k, n - 1)
      BY <1>1, <1>3, <2>2, LastIsMember
    <3>2. QED
      BY <1>3, <3>1
  <2>3. Replayed(e, k, n) = Replayed(d, k, n - 1)
    BY <1>1, <2>1, <2>2 DEF Replayed
  <2>4. QED
    BY <1>5, <2>3 DEF e
<1>6. QED
  BY <1>4, <1>5

(* A step that decides nothing keeps the replay if what it publishes, or   *)
(* is about to, is faithful.                                               *)
LEMMA ReplayKept ==
  ASSUME ReplayInv, UNCHANGED <<decided, entities, nextServer>>,
         \A s \in snapshots' : s \in snapshots \/ Faithful(s),
         \A m \in Passes : passes'[m].phase = "publish" =>
           \/ passes[m].phase = "publish" /\ passes'[m].candidate = passes[m].candidate
           \/ Faithful(passes'[m].candidate)
  PROVE  ReplayInv'
BY DEF ReplayInv, Faithful

(* An admission moves neither snapshots nor passes; what they hold lies    *)
(* before the decision it appends.                                         *)
LEMMA FaithfulKept ==
  ASSUME TypeOK, NEW r \in Receipts, decided' = Append(decided, r),
         r.tag # "Accepted" \/ r.at = nextServer, nextServer' \in {nextServer, nextServer + 1},
         NEW s \in Snapshots, Faithful(s)
  PROVE  Faithful(s)'
<1>1. s.sequence \in Nat /\ nextServer \in Nat
  BY DEF Snapshots, TypeOK
<1>2. s.sequence < nextServer'
  BY <1>1 DEF Faithful
<1>3. ASSUME NEW k \in Keys PROVE s.content[k] = Replayed(decided', k, s.sequence)
  <2>1. r.tag # "Accepted" \/ r.at > s.sequence
    BY <1>1 DEF Faithful
  <2>2. QED
    BY <1>1, <2>1, PastUnchanged DEF Faithful, TypeOK
<1>4. QED
  BY <1>2, <1>3 DEF Faithful

LEMMA AdmissionReplays ==
  ASSUME TypeOK, Persisted, Candidates, ReplayInv, NEW c \in Callers, NEW e \in Envelopes,
         Accept(c, e) \/ Reject(c, e), UNCHANGED <<floorVars, passes>>
  PROVE  ReplayInv'
<1> DEFINE kept(r) == /\ r \in Receipts /\ decided' = Append(decided, r)
                      /\ r.tag # "Accepted" \/ r.at = nextServer
                      /\ nextServer' \in {nextServer, nextServer + 1}
<1>1. PICK r : /\ kept(r) /\ r.env = e
               /\ \/ Accept(c, e) /\ r.tag = "Accepted" /\ r.at = nextServer
                  \/ Reject(c, e) /\ r.tag = "Rejected"
  <2>1. CASE Accept(c, e)
    <3>1. Receipt(e, "Accepted", nextServer, nextTerminal) \in Receipts
      BY ReceiptType DEF TypeOK, Tags
    <3>2. QED
      BY <2>1, <3>1 DEF Accept, Store, Receipt
  <2>2. CASE Reject(c, e)
    <3>1. Receipt(e, "Rejected", 0, nextTerminal) \in Receipts
      BY ReceiptType DEF TypeOK, Tags
    <3>2. QED
      BY <2>2, <3>1 DEF Reject, Store, Receipt
  <2>3. QED
    BY <2>1, <2>2
<1>2. \A s \in Snapshots : Faithful(s) => Faithful(s)'
  BY <1>1, FaithfulKept
<1>3. \A s \in snapshots' : Faithful(s)'
  BY <1>2 DEF ReplayInv, TypeOK, floorVars
<1>4. ASSUME NEW m \in Passes, passes'[m].phase = "publish"
      PROVE  (Faithful(passes[m].candidate))'
  <2>1. PICK s \in Snapshots : s = passes[m].candidate
    BY <1>4 DEF TypeOK, Candidates, PassStates
  <2>2. Faithful(s)'
    BY <1>2, <1>4, <2>1 DEF ReplayInv
  <2>3. s = passes'[m].candidate
    BY <2>1
  <2>4. QED
    BY <2>2, <2>3 DEF Faithful
<1>5. ASSUME NEW k \in Keys PROVE entities'[k] = Replayed(decided', k, nextServer' - 1)
  <2>1. /\ nextServer \in Nat \ {0} /\ decided \in Seq(Receipts)
        /\ \A t \in DOMAIN decided : decided[t].tag = "Accepted" => decided[t].at < nextServer
    BY DEF TypeOK, Persisted, Numbering
  <2>2. CASE Accept(c, e) /\ r.tag = "Accepted" /\ r.at = nextServer
    <3>1. /\ entities'[k] = IF k = e.key THEN e.value ELSE entities[k]
          /\ nextServer' - 1 = nextServer
      BY <2>1, <2>2 DEF Accept, TypeOK, Contents
    <3>2. Replayed(Append(decided, r), k, nextServer) =
            IF k = r.env.key THEN r.env.value ELSE Replayed(decided, k, nextServer - 1)
      BY <1>1, <2>1, <2>2, AcceptedIsLast
    <3>3. QED
      BY <1>1, <3>1, <3>2 DEF ReplayInv
  <2>3. CASE Reject(c, e) /\ r.tag = "Rejected"
    <3>1. entities' = entities /\ nextServer' = nextServer /\ nextServer - 1 \in Nat
      BY <2>1, <2>3 DEF Reject
    <3>2. QED
      BY <1>1, <2>1, <2>3, <3>1, PastUnchanged DEF ReplayInv
  <2>4. QED
    BY <1>1, <2>2, <2>3
<1>6. QED
  BY <1>3, <1>4, <1>5 DEF ReplayInv

LEMMA NextReplays == IndInv /\ ReplayInv /\ [Next]_vars => ReplayInv'
<1> SUFFICES ASSUME IndInv, ReplayInv, [Next]_vars PROVE ReplayInv'
  OBVIOUS
<1>1. /\ TypeOK /\ Persisted /\ Candidates
      /\ passes \in [Passes -> PassStates]
  BY DEF IndInv, TypeOK
<1>2. AtRest.phase # "publish" /\ Started.phase # "publish" /\ Ending.phase # "publish"
  BY DEF AtRest, Started, Ending
<1>3. ASSUME NEW c \in Callers, Admit(c) \/ Discard(c) PROVE ReplayInv'
  BY <1>1, <1>3, CallType, AdmissionReplays DEF Admit, Discard
<1>4. ASSUME NEW c \in Callers, Request(c) \/ Lookup(c) \/ TransactReadOnly(c) \/ Interrupt(c)
      PROVE ReplayInv'
  BY <1>4, ReplayKept DEF Request, Lookup, TransactReadOnly, Interrupt, spaceVars, floorVars
<1>5. ASSUME NEW c \in Callers, RequestCompaction(c) PROVE ReplayInv'
  <2>1. \A m \in Passes : passes'[m].phase = "publish" =>
          passes[m].phase = "publish" /\ passes'[m].candidate = passes[m].candidate
    BY <1>1, <1>2, <1>5 DEF RequestCompaction, PassStates
  <2>2. QED
    BY <1>5, <2>1, ReplayKept DEF RequestCompaction, spaceVars, floorVars
<1>6. CASE Sweep \/ Crash
  BY <1>1, <1>2, <1>6, ReplayKept DEF Sweep, Crash, spaceVars, floorVars
<1>7. ASSUME NEW m \in Passes, CheckSnapshot(m) PROVE ReplayInv'
  BY <1>1, <1>7, ReplayKept DEF CheckSnapshot, Advance, spaceVars, floorVars, PassStates
<1>8. ASSUME NEW m \in Passes, PrepareSnapshot(m) PROVE ReplayInv'
  <2>1. Faithful(Heads)
    BY <1>1 DEF Faithful, Heads, ReplayInv, TypeOK
  <2>2. \A p \in Passes : passes'[p].candidate = Heads \/ passes'[p] = passes[p]
    BY <1>1, <1>8 DEF PrepareSnapshot, Advance, PassStates
  <2>3. QED
    BY <1>8, <2>1, <2>2, ReplayKept DEF PrepareSnapshot, spaceVars, floorVars
<1>9. ASSUME NEW m \in Passes, PublishSnapshot(m) PROVE ReplayInv'
  <2>1. snapshots' \subseteq snapshots \cup {current, passes[m].candidate}
    BY <1>9 DEF PublishSnapshot, InstallSnapshot, Newest
  <2>2. current \in snapshots' => current \in snapshots \/ current = passes[m].candidate
    BY <1>9 DEF PublishSnapshot, InstallSnapshot, Newest, SnapshotCurrent
  <2>3. Faithful(passes[m].candidate)
    BY <1>9 DEF ReplayInv, PublishSnapshot
  <2>4. \A p \in Passes : passes'[p].phase = "publish" => passes'[p] = passes[p]
    BY <1>1, <1>9 DEF PublishSnapshot, Advance, PassStates
  <2>5. QED
    BY <1>9, <2>1, <2>2, <2>3, <2>4, ReplayKept DEF PublishSnapshot, spaceVars
<1>10. ASSUME NEW m \in Passes, PruneBatch(m) \/ PruneNothing(m) \/ EndPass(m) \/ FailPass(m)
       PROVE ReplayInv'
  <2>1. \A p \in Passes : passes'[p].phase = "publish" => passes'[p] = passes[p]
    BY <1>1, <1>2, <1>10 DEF PruneBatch, PruneNothing, EndPass, FailPass, AfterPass
  <2>2. UNCHANGED <<decided, entities, nextServer, snapshots>>
    BY <1>10 DEF PruneBatch, PruneNothing, EndPass, FailPass, spaceVars, floorVars
  <2>3. QED
    BY <2>1, <2>2, ReplayKept
<1>11. CASE UNCHANGED vars
  BY <1>11, ReplayKept DEF vars, spaceVars, floorVars
<1>12. QED
  BY <1>3, <1>4, <1>5, <1>6, <1>7, <1>8, <1>9, <1>10, <1>11 DEF Next, CallStep, PassStep

(* Whatever is retried, rejected, pruned or crashed, and whenever a        *)
(* snapshot was read, the entities and every snapshot are the state after  *)
(* exactly the accepted mutations up to their sequence.                    *)
THEOREM ReplayCorrect == Spec => []StateIsReplayOfLog
<1>1. Init => ReplayInv
  BY DEF Init, ReplayInv, Replayed, Writes, AtRest
<1>2. IndInv /\ ReplayInv /\ [Next]_vars => ReplayInv'
  BY NextReplays
<1>3. ReplayInv => StateIsReplayOfLog
  <2>1. \A k, n : LastWrite(k, n) = Replayed(decided, k, n)
    BY DEF LastWrite, AcceptedThrough, Replayed, Writes, Last
  <2>2. QED
    BY <2>1 DEF ReplayInv, Faithful, StateIsReplayOfLog
<1>4. QED
  BY <1>1, <1>2, <1>3, Invariance, PTL DEF Spec

(***************************************************************************)
(* Maintenance, while nothing fails.  RestInv says that a space above its  *)
(* high-water mark is being compacted, or will be.                         *)
(***************************************************************************)
FullReceipts == Cardinality(receipts) >= HighWater(RetainedReceipts, MaximumReceipts)
FullHistory == Cardinality(DOMAIN log) >= HighWater(RetainedHistory, MaximumHistory)

(* A snapshot of the space as it is now                                    *)
AtHeads(s) == s # NoSnapshot /\ s.sequence = nextServer - 1 /\ s.terminal = nextTerminal - 1

(* The pass will prune behind such a snapshot, or has been asked to repeat *)
WillPrune(p) ==
  \/ p.rerun
  \/ p.phase \in {"check", "prepare"}
  \/ p.phase = "publish" /\ AtHeads(p.candidate)
  \/ p.phase = "prune" /\ AtHeads(current)

(* A pass that is over                                                     *)
Stopped(p) == p.phase \in {"idle", "ending"}

(* Either a call that filled the space has yet to ask for a compaction, or *)
(* the compaction will see what filled it                                  *)
Pursued ==
  /\ Stopped(passes[Compactor]) => passes[Compactor] \in {AtRest, Ending}
  /\ FullReceipts \/ FullHistory =>
       \/ \E c \in Callers : calls[c].pc = "compact"
       \/ WillPrune(passes[Compactor])

(* The log has no entry that was not accepted                              *)
LogEnds == \A s \in DOMAIN log : s < nextServer

RestInv == LogEnds /\ (failures = 0 /\ ~ missed => Pursued)

(***************************************************************************)
(* A batch that comes back short has taken everything.                     *)
(***************************************************************************)
LEMMA LowestIsAll ==
  ASSUME NEW S \in SUBSET Nat, IsFiniteSet(S), NEW n \in Nat, Cardinality(Lowest(S, n)) < n
  PROVE  Lowest(S, n) = S
<1>1. PICK T : T = S \ Lowest(S, n)
  OBVIOUS
<1>2. SUFFICES ASSUME T # {} PROVE FALSE
  BY <1>1 DEF Lowest
<1>3. T \in SUBSET Nat
  BY <1>1
<1>4. PICK x \in T : \A y \in T : ~ (<<y, x>> \in Below)
  BY <1>2, <1>3, BelowIsWellFounded, WFMin
<1>5. \A y \in T : ~ (y < x)
  BY <1>3, <1>4 DEF Below
<1>6. {y \in S : y < x} \subseteq Lowest(S, n)
  BY <1>1, <1>5
<1>7. IsFiniteSet(Lowest(S, n))
  BY FS_Subset DEF Lowest
<1>8. /\ Cardinality({y \in S : y < x}) <= Cardinality(Lowest(S, n))
      /\ Cardinality({y \in S : y < x}) \in Nat /\ Cardinality(Lowest(S, n)) \in Nat
  BY <1>6, <1>7, FS_Subset, FS_CardinalityType
<1>9. x \in Lowest(S, n)
  <2>1. Cardinality({y \in S : y < x}) < n
    BY <1>8
  <2> QED BY <1>1, <2>1 DEF Lowest
<1> QED BY <1>1, <1>9

(* Receipts have their terminal sequences to themselves.                   *)
LEMMA ReceiptsBehind ==
  ASSUME IndInv, NEW R \in SUBSET receipts, NEW f \in Nat, \A r \in R : r.through > f
  PROVE  /\ IsFiniteSet(R) /\ Cardinality(R) \in Nat
         /\ f < nextTerminal => Cardinality(R) <= nextTerminal - 1 - f
         /\ f >= nextTerminal => R = {}
<1>1. /\ nextTerminal = Len(decided) + 1 /\ Len(decided) \in Nat /\ nextTerminal \in Nat
      /\ DOMAIN decided = 1 .. Len(decided)
      /\ \A t \in 1 .. Len(decided) : decided[t].through = t
      /\ receipts \subseteq Decisions
  BY DecisionType DEF IndInv, TypeOK, Persisted, Numbering, Retained
<1>2. \A r \in R : r.through \in f + 1 .. nextTerminal - 1 /\ r = decided[r.through]
  <2>1. SUFFICES ASSUME NEW r \in R
                 PROVE  r.through \in f + 1 .. nextTerminal - 1 /\ r = decided[r.through]
    OBVIOUS
  <2>2. PICK t \in 1 .. Len(decided) : r = decided[t]
    BY <1>1 DEF Decisions
  <2>3. r.through = t /\ t > f
    BY <1>1, <2>2
  <2>4. t \in f + 1 .. nextTerminal - 1
    BY ONLY <1>1, <2>3, f \in Nat, t \in 1 .. Len(decided)
  <2> QED BY <2>2, <2>3, <2>4
<1>3. PICK g : g = [r \in R |-> r.through]
  OBVIOUS
<1>4. g \in Injection(R, f + 1 .. nextTerminal - 1)
  BY <1>2, <1>3 DEF Injection, IsInjective
<1>5. /\ IsFiniteSet(f + 1 .. nextTerminal - 1)
      /\ Cardinality(f + 1 .. nextTerminal - 1) = IF f + 1 > nextTerminal - 1 THEN 0
                                                  ELSE nextTerminal - 1 - (f + 1) + 1
  <2>1. f + 1 \in Int /\ nextTerminal - 1 \in Int
    BY <1>1
  <2> QED BY <2>1, FS_Interval
<1>6. /\ IsFiniteSet(R) /\ Cardinality(R) <= Cardinality(f + 1 .. nextTerminal - 1)
  BY <1>4, <1>5, FS_Injection
<1>7. Cardinality(R) \in Nat
  BY <1>6, FS_CardinalityType
<1>8. f < nextTerminal => Cardinality(R) <= nextTerminal - 1 - f
  BY ONLY <1>1, <1>5, <1>6, <1>7, f \in Nat
<1>9. f >= nextTerminal => R = {}
  <2>1. f >= nextTerminal => f + 1 .. nextTerminal - 1 = {}
    BY ONLY <1>1, f \in Nat
  <2> QED BY <1>2, <2>1
<1> QED BY <1>6, <1>7, <1>8, <1>9

LEMMA LogBehind ==
  ASSUME IndInv, LogEnds, NEW D \in SUBSET DOMAIN log, NEW f \in Nat, \A s \in D : s > f
  PROVE  /\ IsFiniteSet(D) /\ Cardinality(D) \in Nat
         /\ f < nextServer => Cardinality(D) <= nextServer - 1 - f
<1>1. nextServer \in Nat /\ D \subseteq Nat /\ \A s \in D : s < nextServer
  BY DEF IndInv, TypeOK, LogEnds
<1>2. D \in SUBSET (f + 1 .. nextServer - 1)
  BY <1>1
<1>3. /\ IsFiniteSet(f + 1 .. nextServer - 1)
      /\ Cardinality(f + 1 .. nextServer - 1) = IF f + 1 > nextServer - 1 THEN 0
                                                ELSE nextServer - 1 - (f + 1) + 1
  <2>1. f + 1 \in Int /\ nextServer - 1 \in Int
    BY <1>1
  <2> QED BY <2>1, FS_Interval
<1>4. IsFiniteSet(D) /\ Cardinality(D) <= Cardinality(f + 1 .. nextServer - 1)
  BY <1>2, <1>3, FS_Subset
<1>5. Cardinality(D) \in Nat
  BY <1>4, FS_CardinalityType
<1>6. f < nextServer => Cardinality(D) <= nextServer - 1 - f
  BY ONLY <1>1, <1>3, <1>4, <1>5, f \in Nat
<1> QED BY <1>4, <1>5, <1>6

LEMMA SpaceIsFinite ==
  ASSUME IndInv, LogEnds
  PROVE  /\ IsFiniteSet(receipts) /\ Cardinality(receipts) \in Nat
         /\ IsFiniteSet(DOMAIN log) /\ Cardinality(DOMAIN log) \in Nat
<1>1. \A s \in DOMAIN log : s \in Nat
  BY DEF IndInv, TypeOK
<1>2. receipts \subseteq Decisions /\ \A r \in receipts : r.through > 0
  <2>1. \A t \in DOMAIN decided : decided[t].through > 0
    BY DecisionType DEF IndInv, Persisted, Numbering
  <2> QED BY <2>1 DEF IndInv, Persisted, Retained, Decisions
<1>3. IsFiniteSet(receipts) /\ Cardinality(receipts) \in Nat
  BY <1>2, ReceiptsBehind
<1>4. DOMAIN log \in SUBSET (0 .. nextServer) /\ nextServer \in Nat
  BY <1>1 DEF LogEnds, IndInv, TypeOK
<1>5. IsFiniteSet(0 .. nextServer)
  BY <1>4, FS_Interval
<1> QED BY <1>3, <1>4, <1>5, FS_Subset, FS_CardinalityType

LEMMA HighWaterAbove ==
  ASSUME NEW r \in Nat, NEW m \in Nat, r < m
  PROVE  HighWater(r, m) \in Nat /\ HighWater(r, m) >= r + 1
<1>1. PICK q : q = (m - r + 1) \div 2
  OBVIOUS
<1>2. q \in Nat /\ q >= 1
  <2>1. m - r + 1 \in Nat /\ m - r + 1 >= 2
    OBVIOUS
  <2> QED BY <1>1, <2>1
<1> QED BY <1>1, <1>2 DEF HighWater

(* The last batch behind a snapshot of the heads leaves no more than is    *)
(* retained.                                                               *)
LEMMA ShortHistoryBatch ==
  ASSUME IndInv, LogEnds, NEW m \in Passes, PruneBatch(m), AtHeads(current),
         Cardinality(PrunableHistory(HistoryFloor)) < PruneBatchSize
  PROVE  ~ FullHistory'
<1>1. PICK f \in Nat : f = HistoryFloor
  BY FloorType DEF IndInv, PruneBatch
<1>2. /\ current.sequence = nextServer - 1 /\ current.sequence - RetainedHistory <= f
      /\ nextServer \in Nat /\ nextServer >= 1 /\ f < nextServer
  <2>1. nextServer \in Nat /\ nextServer >= 1 /\ historyFloor \in Nat
    BY DEF IndInv, TypeOK, Persisted, Numbering
  <2>2. current.sequence = nextServer - 1 /\ historyFloor <= current.sequence
    BY DEF AtHeads, IndInv, Persisted, Covered
  <2>3. current.sequence - RetainedHistory <= f /\ f < nextServer
    BY <1>1, <2>1, <2>2 DEF HistoryFloor, Larger
  <2> QED BY <2>1, <2>2, <2>3
<1>3. PICK S : S = {s \in DOMAIN log : s <= f}
  OBVIOUS
<1>4. S \in SUBSET Nat /\ IsFiniteSet(S)
  <2>1. S \in SUBSET DOMAIN log /\ DOMAIN log \subseteq Nat
    BY <1>3 DEF IndInv, TypeOK
  <2> QED BY <2>1, SpaceIsFinite, FS_Subset
<1>5. PrunableHistory(f) = S
  <2>1. PrunableHistory(f) = Lowest(S, PruneBatchSize)
    BY <1>3 DEF PrunableHistory
  <2> QED BY <1>1, <1>4, <2>1, LowestIsAll
<1>6. DOMAIN log' = DOMAIN log \ S
  BY <1>1, <1>5 DEF PruneBatch
<1>7. PICK D : D = DOMAIN log \ S
  OBVIOUS
<1>8. D \in SUBSET DOMAIN log /\ \A s \in D : s > f
  BY <1>1, <1>3, <1>7 DEF IndInv, TypeOK
<1>9. Cardinality(D) \in Nat /\ Cardinality(D) <= nextServer - 1 - f
  BY <1>2, <1>8, LogBehind
<1>10. /\ HighWater(RetainedHistory, MaximumHistory) \in Nat
       /\ HighWater(RetainedHistory, MaximumHistory) >= RetainedHistory + 1
  BY HighWaterAbove
<1>11. Cardinality(D) < HighWater(RetainedHistory, MaximumHistory)
  <2>1. RetainedHistory \in Nat
    OBVIOUS
  <2> QED BY ONLY <1>2, <1>9, <1>10, <2>1, f \in Nat
<1>12. ~ (Cardinality(D) >= HighWater(RetainedHistory, MaximumHistory))
  BY ONLY <1>9, <1>10, <1>11
<1> QED BY <1>6, <1>7, <1>12 DEF FullHistory

LEMMA ShortReceiptBatch ==
  ASSUME IndInv, LogEnds, NEW m \in Passes, PruneBatch(m), AtHeads(current),
         Cardinality(PrunableReceipts(ReceiptFloor)) < PruneBatchSize
  PROVE  ~ FullReceipts'
<1>1. PICK f \in Nat : f = ReceiptFloor
  BY FloorType DEF IndInv, PruneBatch
<1>2. /\ current.terminal = nextTerminal - 1 /\ current.terminal - RetainedReceipts <= f
      /\ nextTerminal \in Nat /\ nextTerminal >= 1 /\ f < nextTerminal
  <2>1. nextTerminal \in Nat /\ nextTerminal >= 1 /\ receiptFloor \in Nat
    BY DEF IndInv, TypeOK, Persisted, Numbering
  <2>2. current.terminal = nextTerminal - 1 /\ receiptFloor <= current.terminal
    BY DEF AtHeads, IndInv, Persisted, Covered
  <2>3. current.terminal - RetainedReceipts <= f /\ f < nextTerminal
    BY <1>1, <2>1, <2>2 DEF ReceiptFloor, Larger
  <2> QED BY <2>1, <2>2, <2>3
<1>3. PICK old, S, pruned :
        /\ old = {r \in receipts : r.through <= f} /\ S = {r.through : r \in old}
        /\ pruned = PrunableReceipts(f)
  OBVIOUS
<1>4. /\ \A r \in receipts : r.through \in Nat
      /\ old \subseteq receipts /\ IsFiniteSet(receipts)
  BY <1>3, SpaceIsFinite DEF IndInv, TypeOK, Receipts
<1>5. pruned = {r \in receipts : r.through \in Lowest(S, PruneBatchSize)}
  BY <1>3 DEF PrunableReceipts
<1>6. S \in SUBSET Nat /\ IsFiniteSet(S)
  <2>1. S \in SUBSET (0 .. f)
    BY <1>3, <1>4
  <2>2. IsFiniteSet(0 .. f) /\ 0 .. f \subseteq Nat
    BY FS_Interval
  <2>3. IsFiniteSet(S)
    BY <2>1, <2>2, FS_Subset
  <2> QED BY <2>1, <2>2, <2>3
<1>7. Lowest(S, PruneBatchSize) = S
  <2>1. PICK T : T = Lowest(S, PruneBatchSize)
    OBVIOUS
  <2>2. \A x \in T : \E r \in pruned : r.through = x
    BY <1>3, <1>5, <2>1 DEF Lowest
  <2>3. PICK g : g = [r \in pruned |-> r.through]
    OBVIOUS
  <2>4. g \in Surjection(pruned, T)
    BY <1>5, <2>1, <2>2, <2>3 DEF Surjection
  <2>5. IsFiniteSet(pruned)
    BY <1>4, <1>5, FS_Subset
  <2>6. IsFiniteSet(T) /\ Cardinality(T) <= Cardinality(pruned)
    BY <2>4, <2>5, FS_Surjection
  <2>7. Cardinality(T) \in Nat /\ Cardinality(pruned) \in Nat
    BY <2>5, <2>6, FS_CardinalityType
  <2>8. Cardinality(pruned) < PruneBatchSize
    BY <1>1, <1>3
  <2>9. Cardinality(T) < PruneBatchSize
    BY <2>6, <2>7, <2>8
  <2> QED BY <1>6, <2>1, <2>9, LowestIsAll
<1>8. PICK R : R = receipts \ pruned
  OBVIOUS
<1>9. receipts' = R
  BY <1>1, <1>3, <1>8 DEF PruneBatch
<1>10. R \in SUBSET receipts /\ \A r \in R : r.through > f
  <2>1. \A r \in R : r \notin old
    BY <1>3, <1>5, <1>7, <1>8
  <2> QED BY <1>3, <1>4, <1>8, <2>1
<1>11. Cardinality(R) \in Nat /\ Cardinality(R) <= nextTerminal - 1 - f
  BY <1>2, <1>10, ReceiptsBehind
<1>12. /\ HighWater(RetainedReceipts, MaximumReceipts) \in Nat
       /\ HighWater(RetainedReceipts, MaximumReceipts) >= RetainedReceipts + 1
  BY HighWaterAbove
<1>13. ~ (Cardinality(R) >= HighWater(RetainedReceipts, MaximumReceipts))
  <2>1. RetainedReceipts \in Nat
    OBVIOUS
  <2> QED BY ONLY <1>2, <1>11, <1>12, <2>1, f \in Nat
<1> QED BY <1>9, <1>13 DEF FullReceipts

(* Pruning makes nothing fuller.                                           *)
LEMMA PruningEmpties ==
  ASSUME IndInv, LogEnds, NEW m \in Passes, PruneBatch(m)
  PROVE  (FullReceipts' => FullReceipts) /\ (FullHistory' => FullHistory)
<1>1. receipts' \subseteq receipts /\ DOMAIN log' \subseteq DOMAIN log
  BY DEF PruneBatch
<1>2. /\ Cardinality(receipts') <= Cardinality(receipts) /\ Cardinality(receipts) \in Nat
      /\ Cardinality(DOMAIN log') <= Cardinality(DOMAIN log) /\ Cardinality(DOMAIN log) \in Nat
      /\ Cardinality(receipts') \in Nat /\ Cardinality(DOMAIN log') \in Nat
  BY <1>1, SpaceIsFinite, FS_Subset, FS_CardinalityType
<1>3. /\ HighWater(RetainedReceipts, MaximumReceipts) \in Nat
      /\ HighWater(RetainedHistory, MaximumHistory) \in Nat
  BY HighWaterAbove
<1> QED BY <1>2, <1>3 DEF FullReceipts, FullHistory

(* An admission that fills the space asks for a compaction.                *)
LEMMA FillingAsks ==
  ASSUME IndInv, LogEnds, NEW c \in Callers, NEW r, Store(c, r),
         DOMAIN log' \subseteq DOMAIN log \cup {nextServer}
  PROVE  FullReceipts' \/ FullHistory' => calls'[c].pc = "compact"
<1>1. /\ IsFiniteSet(receipts) /\ Cardinality(receipts) \in Nat
      /\ IsFiniteSet(DOMAIN log) /\ Cardinality(DOMAIN log) \in Nat
  BY SpaceIsFinite
<1>2. /\ Cardinality(receipts') \in Nat /\ Cardinality(receipts') <= Cardinality(receipts) + 1
  <2>1. receipts' = receipts \cup {r}
    BY DEF Store
  <2>2. /\ IsFiniteSet(receipts')
        /\ Cardinality(receipts') \in {Cardinality(receipts), Cardinality(receipts) + 1}
    BY <1>1, <2>1, FS_AddElement
  <2> QED BY <1>1, <2>2
<1>3. Cardinality(DOMAIN log') \in Nat /\ Cardinality(DOMAIN log') <= Cardinality(DOMAIN log) + 1
  <2>1. PICK D : D = DOMAIN log \cup {nextServer}
    OBVIOUS
  <2>2. /\ IsFiniteSet(D)
        /\ Cardinality(D) \in {Cardinality(DOMAIN log), Cardinality(DOMAIN log) + 1}
    BY <1>1, <2>1, FS_AddElement
  <2>3. IsFiniteSet(DOMAIN log') /\ Cardinality(DOMAIN log') <= Cardinality(D)
    BY <2>1, <2>2, FS_Subset
  <2>4. Cardinality(DOMAIN log') \in Nat
    BY <2>3, FS_CardinalityType
  <2> QED BY <1>1, <2>2, <2>3, <2>4
<1>4. /\ HighWater(RetainedReceipts, MaximumReceipts) \in Nat
      /\ HighWater(RetainedHistory, MaximumHistory) \in Nat
  BY HighWaterAbove
<1>5. FullReceipts' \/ FullHistory' => CrossesHighWater
  BY <1>1, <1>2, <1>3, <1>4 DEF FullReceipts, FullHistory, CrossesHighWater
<1>6. CrossesHighWater => calls'[c] = [pc |-> "compact", receipt |-> r]
  BY DEF Store, IndInv, TypeOK
<1> QED BY <1>5, <1>6

(***************************************************************************)
(* No step lets a full space rest.                                         *)
(***************************************************************************)
Full == FullReceipts \/ FullHistory

LEMMA SameSpace ==
  ASSUME UNCHANGED <<spaceVars, floorVars>>
  PROVE  /\ Full' <=> Full
         /\ LogEnds => LogEnds'
         /\ \A s : AtHeads(s)' <=> AtHeads(s)
         /\ AtHeads(current)' <=> AtHeads(current)
BY DEF spaceVars, floorVars, Full, FullReceipts, FullHistory, LogEnds, AtHeads

LEMMA CallMoves ==
  ASSUME IndInv, Pursued, NEW c \in Callers, calls[c].pc # "compact",
         \A x \in Callers : x # c => calls'[x] = calls[x],
         UNCHANGED <<spaceVars, floorVars, passes>>
  PROVE  Pursued'
<1>1. WillPrune(passes[Compactor])' <=> WillPrune(passes[Compactor])
  BY SameSpace DEF WillPrune, AtHeads
<1>2. \A x \in Callers : calls[x].pc = "compact" => calls'[x].pc = "compact"
  OBVIOUS
<1> QED BY <1>1, <1>2, SameSpace DEF Pursued, Stopped, Full

LEMMA CompactorMoves ==
  ASSUME Pursued, UNCHANGED calls, Full' => Full,
         Stopped(passes'[Compactor]) => passes'[Compactor] \in {AtRest, Ending},
         Full' /\ WillPrune(passes[Compactor]) => WillPrune(passes[Compactor])'
  PROVE  Pursued'
<1>1. Stopped(passes[Compactor])' => passes'[Compactor] \in {AtRest, Ending}
  BY DEF Stopped
<1>2. AtRest' = AtRest /\ Ending' = Ending
  BY DEF AtRest, Ending
<1> QED BY <1>1, <1>2 DEF Pursued, Full, Stopped

LEMMA OtherMoves ==
  ASSUME IndInv, Pursued, UNCHANGED calls, Full' => Full, passes'[Compactor] = passes[Compactor],
         UNCHANGED <<nextServer, nextTerminal>>,
         AtHeads(current) => AtHeads(current)'
  PROVE  Pursued'
<1>1. WillPrune(passes[Compactor]) => WillPrune(passes[Compactor])'
  BY DEF WillPrune, AtHeads
<1> QED BY <1>1, CompactorMoves DEF Pursued

LEMMA RequestCompactionRests ==
  ASSUME IndInv, Pursued, NEW c \in Callers, RequestCompaction(c), ~ missed'
  PROVE  Pursued'
<1>1. passes[Compactor] \in PassStates /\ Compactor \in DOMAIN passes
      /\ passes[Compactor].phase # "ending"
  BY DEF IndInv, TypeOK, Passes, RequestCompaction
<1>2. PICK p : p = passes[Compactor]
  OBVIOUS
<1>3. passes'[Compactor] = IF p = AtRest THEN Started ELSE [p EXCEPT !.rerun = TRUE]
  BY <1>1, <1>2 DEF RequestCompaction
<1>4. CASE p = AtRest
  BY <1>3, <1>4 DEF Pursued, Stopped, WillPrune, Started, AtRest
<1>5. CASE p # AtRest
  <2>1. /\ passes'[Compactor].rerun /\ passes'[Compactor].phase = p.phase
    BY <1>1, <1>2, <1>3, <1>5 DEF PassStates
  <2>2. p.phase \notin {"idle", "ending"}
    BY <1>1, <1>2, <1>5 DEF Pursued, Stopped, Ending, AtRest
  <2> QED BY <2>1, <2>2 DEF Pursued, Stopped, WillPrune
<1> QED BY <1>4, <1>5

LEMMA AdvancePass ==
  ASSUME IndInv, NEW m \in Passes, NEW phase, NEW s, Advance(m, phase, s)
  PROVE  /\ m # Compactor => passes'[Compactor] = passes[Compactor]
         /\ m = Compactor => /\ passes'[Compactor].phase = phase
                              /\ passes'[Compactor].candidate = s
                              /\ passes'[Compactor].rerun = passes[Compactor].rerun
<1>1. passes \in [Passes -> PassStates] /\ Compactor \in Passes
  BY DEF IndInv, TypeOK, Passes
<1> QED BY <1>1 DEF Advance, PassStates

LEMMA SnapshotRests ==
  ASSUME IndInv, Pursued, NEW m \in Passes, CheckSnapshot(m) \/ PrepareSnapshot(m)
  PROVE  Pursued'
<1>1. UNCHANGED <<spaceVars, floorVars, calls>>
  BY DEF CheckSnapshot, PrepareSnapshot
<1>2. /\ Full' <=> Full
      /\ UNCHANGED <<nextServer, nextTerminal>>
      /\ AtHeads(current)' <=> AtHeads(current)
  BY <1>1, SameSpace DEF spaceVars
<1>3. CASE m # Compactor
  <2>1. passes'[Compactor] = passes[Compactor]
    BY <1>3, AdvancePass DEF CheckSnapshot, PrepareSnapshot
  <2> QED BY <1>1, <1>2, <2>1, OtherMoves
<1>4. CASE m = Compactor /\ CheckSnapshot(m)
  <2>1. PICK phase : /\ phase = IF SnapshotCurrent THEN "prune" ELSE "prepare"
                     /\ Advance(m, phase, NoCandidate)
    BY <1>4 DEF CheckSnapshot
  <2>2. passes'[Compactor].phase = phase
    BY <1>4, <2>1, AdvancePass
  <2>3. SnapshotCurrent => AtHeads(current)
    BY DEF SnapshotCurrent, AtHeads
  <2>4. WillPrune(passes[Compactor])'
    BY <1>2, <2>1, <2>2, <2>3 DEF WillPrune
  <2>5. ~ Stopped(passes'[Compactor])
    BY <2>1, <2>2 DEF Stopped
  <2> QED BY <1>1, <1>2, <2>4, <2>5, CompactorMoves
<1>5. CASE m = Compactor /\ PrepareSnapshot(m)
  <2>1. /\ passes'[Compactor].phase = "publish" /\ passes'[Compactor].candidate = Heads
    BY <1>5, AdvancePass DEF PrepareSnapshot
  <2>2. Heads # NoSnapshot
    <3>1. Heads \in Snapshots
      BY DecisionType DEF IndInv, Heads, Snapshots, TypeOK, Persisted, Numbering
    <3> QED BY <3>1 DEF Snapshots, Contents
  <2>3. AtHeads(Heads)
    BY <2>2 DEF AtHeads, Heads
  <2>4. WillPrune(passes[Compactor])'
    BY <1>2, <2>1, <2>3 DEF WillPrune, AtHeads
  <2>5. ~ Stopped(passes'[Compactor])
    BY <2>1 DEF Stopped
  <2> QED BY <1>1, <1>2, <2>4, <2>5, CompactorMoves
<1> QED BY <1>3, <1>4, <1>5

LEMMA PublishRests ==
  ASSUME IndInv, Pursued, NEW m \in Passes, PublishSnapshot(m)
  PROVE  Pursued'
<1>1. PICK s : s = passes[m].candidate
  OBVIOUS
<1>2. /\ UNCHANGED <<nextServer, nextTerminal, receipts, log, calls>>
      /\ Advance(m, "prune", NoCandidate)
      /\ \/ HeadsUnmoved(s) /\ InstallSnapshot(s)
         \/ ~ HeadsUnmoved(s) /\ UNCHANGED current
  BY <1>1 DEF PublishSnapshot, spaceVars
<1>3. s # NoSnapshot
  BY <1>1 DEF IndInv, Candidates, PublishSnapshot
<1>4. Full' <=> Full
  BY <1>2 DEF Full, FullReceipts, FullHistory
<1>5. HeadsUnmoved(s) => AtHeads(current)'
  <2>1. HeadsUnmoved(s) => current' = s \/ (SnapshotCurrent /\ current' = current)
    BY <1>2 DEF InstallSnapshot
  <2>2. HeadsUnmoved(s) => AtHeads(s)
    BY <1>3 DEF HeadsUnmoved, AtHeads
  <2>3. SnapshotCurrent => AtHeads(current)
    BY DEF SnapshotCurrent, AtHeads
  <2> QED BY <1>2, <2>1, <2>2, <2>3 DEF AtHeads
<1>6. AtHeads(current) => AtHeads(current)'
  BY <1>2, <1>5 DEF AtHeads
<1>7. CASE m # Compactor
  <2>1. passes'[Compactor] = passes[Compactor]
    BY <1>2, <1>7, AdvancePass
  <2> QED BY <1>2, <1>4, <1>6, <2>1, OtherMoves
<1>8. CASE m = Compactor
  <2>1. /\ passes'[Compactor].phase = "prune"
        /\ passes'[Compactor].rerun = passes[Compactor].rerun
    BY <1>2, <1>8, AdvancePass
  <2>2. passes[Compactor].phase = "publish"
    BY <1>8 DEF PublishSnapshot
  <2>3. WillPrune(passes[Compactor]) => passes[Compactor].rerun \/ HeadsUnmoved(s)
    BY <1>1, <1>8, <2>2 DEF WillPrune, AtHeads, HeadsUnmoved
  <2>4. WillPrune(passes[Compactor]) => WillPrune(passes[Compactor])'
    BY <1>5, <2>1, <2>3 DEF WillPrune
  <2>5. ~ Stopped(passes'[Compactor])
    BY <2>1 DEF Stopped
  <2> QED BY <1>2, <1>4, <2>4, <2>5, CompactorMoves
<1> QED BY <1>7, <1>8

LEMMA PruneRests ==
  ASSUME IndInv, LogEnds, Pursued, NEW m \in Passes, PruneBatch(m)
  PROVE  Pursued'
<1>1. UNCHANGED <<nextServer, nextTerminal, current, calls>>
  BY DEF PruneBatch
<1>2. Full' => Full
  BY PruningEmpties DEF Full
<1>3. AtHeads(current)' <=> AtHeads(current)
  BY <1>1 DEF AtHeads
<1>4. passes \in [Passes -> PassStates] /\ Compactor \in Passes
  BY DEF IndInv, TypeOK, Passes
<1>5. CASE m # Compactor
  <2>1. passes'[Compactor] = passes[Compactor]
    BY <1>4, <1>5 DEF PruneBatch
  <2> QED BY <1>1, <1>2, <1>3, <2>1, OtherMoves
<1>6. CASE m = Compactor
  <2>1. PICK short : short = (/\ Cardinality(PrunableHistory(HistoryFloor)) < PruneBatchSize
                              /\ Cardinality(PrunableReceipts(ReceiptFloor)) < PruneBatchSize)
    OBVIOUS
  <2>2. passes'[Compactor] = IF short THEN AfterPass(Compactor) ELSE passes[Compactor]
    BY <1>4, <1>6, <2>1 DEF PruneBatch
  <2>3. passes[Compactor].phase = "prune"
    BY <1>6 DEF PruneBatch
  <2>4. CASE ~ short
    <3>1. passes'[Compactor] = passes[Compactor]
      BY <2>2, <2>4
    <3> QED BY <1>1, <1>2, <1>3, <3>1, OtherMoves
  <2>5. CASE short /\ passes[Compactor].rerun
    <3>1. passes'[Compactor] = Started
      BY <2>2, <2>5 DEF AfterPass
    <3>2. WillPrune(passes[Compactor])' /\ ~ Stopped(passes'[Compactor])
      BY <3>1, PassType DEF WillPrune, Stopped
    <3> QED BY <1>1, <1>2, <3>2, CompactorMoves
  <2>6. CASE short /\ ~ passes[Compactor].rerun
    <3>1. passes'[Compactor] = Ending
      BY <2>2, <2>6 DEF AfterPass
    <3>2. WillPrune(passes[Compactor]) => AtHeads(current)
      BY <2>3, <2>6 DEF WillPrune
    <3>3. AtHeads(current) => ~ Full'
      BY <2>1, <2>6, ShortHistoryBatch, ShortReceiptBatch DEF Full
    <3> QED BY <1>1, <1>2, <3>1, <3>2, <3>3, CompactorMoves
  <2> QED BY <2>4, <2>5, <2>6
<1> QED BY <1>5, <1>6

LEMMA OtherPassRests ==
  ASSUME IndInv, Pursued, NEW m \in Passes, PruneNothing(m) \/ EndPass(m)
  PROVE  Pursued'
<1>1. UNCHANGED <<spaceVars, floorVars, calls>>
  BY DEF PruneNothing, EndPass
<1>2. /\ Full' <=> Full
      /\ UNCHANGED <<nextServer, nextTerminal>>
      /\ AtHeads(current)' <=> AtHeads(current)
  BY <1>1, SameSpace DEF spaceVars
<1>3. passes \in [Passes -> PassStates] /\ Compactor \in Passes
  BY DEF IndInv, TypeOK, Passes
<1>4. CASE m # Compactor
  <2>1. passes'[Compactor] = passes[Compactor]
    BY <1>3, <1>4 DEF PruneNothing, EndPass
  <2> QED BY <1>1, <1>2, <2>1, OtherMoves
<1>5. CASE m = Compactor /\ PruneNothing(m)
  <2>1. /\ passes[Compactor].phase = "prune" /\ current = NoSnapshot
        /\ passes'[Compactor] = IF passes[Compactor].rerun THEN Started ELSE Ending
    BY <1>3, <1>5 DEF PruneNothing, AfterPass
  <2>2. WillPrune(passes[Compactor]) => passes[Compactor].rerun
    BY <2>1 DEF WillPrune, AtHeads
  <2>3. passes[Compactor].rerun => WillPrune(passes[Compactor])'
    BY <2>1, PassType DEF WillPrune
  <2>4. Stopped(passes'[Compactor]) => passes'[Compactor] \in {AtRest, Ending}
    BY <2>1, PassType DEF Stopped
  <2> QED BY <1>1, <1>2, <2>2, <2>3, <2>4, CompactorMoves
<1>6. CASE m = Compactor /\ EndPass(m)
  <2>1. passes[Compactor].phase = "ending" /\ passes'[Compactor] = AtRest
    BY <1>3, <1>6 DEF EndPass
  <2>2. ~ WillPrune(passes[Compactor])
    <3>1. passes[Compactor] \in {AtRest, Ending}
      BY <2>1 DEF Pursued, Stopped
    <3> QED BY <2>1, <3>1 DEF WillPrune, AtRest, Ending
  <2> QED BY <1>1, <1>2, <2>1, <2>2, CompactorMoves
<1> QED BY <1>4, <1>5, <1>6

LEMMA AdmissionRests ==
  ASSUME IndInv, LogEnds, NEW c \in Callers, Admit(c) \/ Discard(c)
  PROVE  LogEnds' /\ (Pursued => Pursued')
<1>1. PICK e, r : /\ Store(c, r)
                  /\ \/ Accept(c, e) \/ Reject(c, e)
  BY DEF Admit, Discard, Accept, Reject
<1>2. UNCHANGED <<floorVars, passes>> /\ calls[c].pc # "compact"
  BY DEF Admit, Discard
<1>3. /\ DOMAIN log' \subseteq DOMAIN log \cup {nextServer} /\ nextServer \in Nat
      /\ \/ UNCHANGED <<log, nextServer>>
         \/ nextServer' = nextServer + 1
  BY <1>1 DEF Accept, Reject, IndInv, TypeOK
<1>4. LogEnds'
  <2>1. \A s \in DOMAIN log : s \in Nat /\ s < nextServer
    BY DEF LogEnds, IndInv, TypeOK
  <2>2. CASE UNCHANGED <<log, nextServer>>
    BY <2>1, <2>2 DEF LogEnds
  <2>3. CASE nextServer' = nextServer + 1
    <3>1. \A s \in DOMAIN log \cup {nextServer} : s < nextServer + 1
      BY <1>3, <2>1
    <3> QED BY <1>3, <2>3, <3>1 DEF LogEnds
  <2> QED BY <1>3, <2>2, <2>3
<1>5. Full' => calls'[c].pc = "compact"
  BY <1>1, <1>3, FillingAsks DEF Full
<1>6. UNCHANGED passes
  BY <1>2
<1> QED BY <1>4, <1>5, <1>6 DEF Pursued, Full, Stopped, AtRest, Ending

(***************************************************************************)
(* The theorem.                                                            *)
(***************************************************************************)
LEMMA InitRests == Init => RestInv
<1> SUFFICES ASSUME Init PROVE RestInv
  OBVIOUS
<1>1. DOMAIN log = {} /\ receipts = {} /\ passes[Compactor] = AtRest
  BY DEF Init, Passes
<1>2. Cardinality({}) = 0
  BY FS_EmptySet
<1>3. ~ FullReceipts /\ ~ FullHistory
  BY <1>1, <1>2, HighWaterAbove DEF FullReceipts, FullHistory
<1> QED BY <1>1, <1>3 DEF RestInv, LogEnds, Pursued

LEMMA NextRests == IndInv /\ RestInv /\ [Next]_vars => RestInv'
<1> SUFFICES ASSUME IndInv, RestInv, [Next]_vars PROVE RestInv'
  OBVIOUS
<1>1. LogEnds /\ failures \in Nat
  BY DEF RestInv, IndInv, TypeOK
<1>2. ASSUME NEW c \in Callers, Request(c) \/ Lookup(c) \/ TransactReadOnly(c) PROVE RestInv'
  <2>1. /\ UNCHANGED <<spaceVars, floorVars, passes, missed, failures>>
        /\ calls[c].pc # "compact"
    BY <1>2 DEF Request, Lookup, TransactReadOnly, Idle
  <2>2. \A x \in Callers : x # c => calls'[x] = calls[x]
    BY <1>2 DEF Request, Lookup, TransactReadOnly, Finish, Answer, AnswerStored, AnswerExpired,
                AnswerMissing, IndInv, TypeOK
  <2> QED BY <1>1, <2>1, <2>2, CallMoves, SameSpace DEF RestInv
<1>3. ASSUME NEW c \in Callers, Admit(c) \/ Discard(c) PROVE RestInv'
  <2>1. UNCHANGED <<missed, failures>>
    BY <1>3 DEF Admit, Discard
  <2> QED BY <1>1, <1>3, <2>1, AdmissionRests DEF RestInv
<1>4. ASSUME NEW c \in Callers, RequestCompaction(c) PROVE RestInv'
  <2>1. /\ UNCHANGED <<spaceVars, floorVars, failures>>
        /\ ~ missed' => ~ missed
    BY <1>4 DEF RequestCompaction
  <2> QED BY <1>1, <1>4, <2>1, RequestCompactionRests, SameSpace DEF RestInv
<1>5. ASSUME NEW m \in Passes, PassStep(m) PROVE RestInv'
  <2>1. UNCHANGED <<missed, failures>>
    BY <1>5 DEF PassStep, CheckSnapshot, PrepareSnapshot, PublishSnapshot, PruneBatch,
                PruneNothing, EndPass
  <2>2. LogEnds'
    <3>1. DOMAIN log' \subseteq DOMAIN log /\ nextServer' = nextServer
      BY <1>5 DEF PassStep, CheckSnapshot, PrepareSnapshot, PublishSnapshot, PruneBatch,
                  PruneNothing, EndPass, spaceVars
    <3> QED BY <1>1, <3>1 DEF LogEnds
  <2>3. Pursued => Pursued'
    BY <1>1, <1>5, SnapshotRests, PublishRests, PruneRests, OtherPassRests DEF PassStep
  <2> QED BY <2>1, <2>2, <2>3 DEF RestInv
<1>6. CASE Sweep
  <2>1. /\ UNCHANGED <<spaceVars, floorVars, calls, missed, failures>>
        /\ passes'[Compactor] = passes[Compactor]
    BY <1>6 DEF Sweep, IndInv, TypeOK, Passes
  <2>2. Pursued => Pursued'
    BY <2>1, OtherMoves, SameSpace DEF spaceVars
  <2> QED BY <1>1, <2>1, <2>2, SameSpace DEF RestInv
<1>7. ASSUME Crash \/ (\E c \in Callers : Interrupt(c)) \/ (\E m \in Passes : FailPass(m))
      PROVE  RestInv'
  <2>1. failures' = failures + 1 /\ UNCHANGED <<spaceVars, floorVars>>
    BY <1>7 DEF Crash, Interrupt, FailPass
  <2>2. failures' # 0
    BY <1>1, <2>1
  <2> QED BY <1>1, <2>1, <2>2, SameSpace DEF RestInv
<1>8. CASE UNCHANGED vars
  <2>1. UNCHANGED <<spaceVars, floorVars, calls, passes, missed, failures>>
    BY <1>8 DEF vars
  <2>2. Pursued => Pursued'
    BY <2>1, OtherMoves, SameSpace DEF spaceVars
  <2> QED BY <1>1, <2>1, <2>2, SameSpace DEF RestInv
<1> QED BY <1>2, <1>3, <1>4, <1>5, <1>6, <1>7, <1>8 DEF Next, CallStep

(* If nothing failed and no request came in the gap after the last rerun,  *)
(* a space in which nothing runs is below its high-water marks, whatever   *)
(* the callers, the options and the order of admissions and passes.        *)
THEOREM RestCorrect == Spec => []RestsBelowHighWater
<1>1. Init => IndInv /\ RestInv
  BY InitInv, InitRests
<1>2. (IndInv /\ RestInv) /\ [Next]_vars => (IndInv /\ RestInv)'
  BY NextInv, NextRests
<1>3. IndInv /\ RestInv => RestsBelowHighWater
  <2> SUFFICES ASSUME IndInv, RestInv, Quiescent, failures = 0, ~ missed
               PROVE  /\ Cardinality(receipts) < HighWater(RetainedReceipts, MaximumReceipts)
                      /\ Cardinality(DOMAIN log) < HighWater(RetainedHistory, MaximumHistory)
    BY DEF RestsBelowHighWater
  <2>1. ~ WillPrune(passes[Compactor])
    BY DEF Quiescent, WillPrune, AtRest, Passes
  <2>2. ~ \E c \in Callers : calls[c].pc = "compact"
    BY DEF Quiescent, Idle
  <2>3. ~ FullReceipts /\ ~ FullHistory
    BY <2>1, <2>2 DEF RestInv, Pursued
  <2>4. /\ Cardinality(receipts) \in Nat /\ Cardinality(DOMAIN log) \in Nat
        /\ HighWater(RetainedReceipts, MaximumReceipts) \in Nat
        /\ HighWater(RetainedHistory, MaximumHistory) \in Nat
    BY SpaceIsFinite, HighWaterAbove DEF RestInv
  <2> QED BY <2>3, <2>4 DEF FullReceipts, FullHistory
<1> QED BY <1>1, <1>2, <1>3, PTL DEF Spec
=============================================================================
