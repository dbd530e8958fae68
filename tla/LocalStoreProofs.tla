--------------------------- MODULE LocalStoreProofs ---------------------------
(***************************************************************************)
(* Proofs about LocalStore for every set of mutations, every handler,      *)
(* every size of batches and pages, every limit, and any number of writes, *)
(* policies, failures, crashes and lapses of receipts: the store is the    *)
(* outbox MutationOutbox, a reader of settlements misses none, and what    *)
(* the application sees is the replay of what is pending over what is      *)
(* canonical.                                                              *)
(***************************************************************************)
EXTENDS LocalStore, WellFoundedInduction, FiniteSetTheorems, TLAPS

(***************************************************************************)
(* Induction, through the least number without a property.                 *)
(***************************************************************************)
Before == {ss \in Nat \X Nat : ss[1] < ss[2]}

LEMMA MinExists ==
  ASSUME NEW S \in SUBSET Nat, S # {}
  PROVE  \E n \in S : \A x \in S : n <= x
<1>1. IsWellFoundedOn(Before, Nat)
  BY NatLessThanWellFounded DEF OpToRel, Before
<1>2. PICK n \in S : \A x \in S : ~ (<<x, n>> \in Before)
  BY <1>1, WFMin
<1>3. \A x \in S : ~ (x < n)
  BY <1>2 DEF Before
<1> QED BY <1>3

(* A set of naturals with a bound and a member has a largest one; the      *)
(* mark that receipts leave behind is therefore well defined.              *)
LEMMA MaxExists ==
  ASSUME NEW S \in SUBSET Nat, NEW b \in Nat, S # {}, \A x \in S : x <= b
  PROVE  \E m \in S : \A x \in S : x <= m
<1>1. PICK T : T = {b - x : x \in S}
  OBVIOUS
<1>2. T \in SUBSET Nat /\ T # {}
  <2>1. \A x \in S : b - x \in Nat
    OBVIOUS
  <2> QED BY <1>1, <2>1
<1>3. PICK y \in T : \A z \in T : y <= z
  BY <1>2, MinExists
<1>4. PICK m \in S : y = b - m
  BY <1>1
<1>5. ASSUME NEW x \in S PROVE x <= m
  <2>1. b - m <= b - x
    BY <1>1, <1>3, <1>4
  <2> QED BY <2>1
<1> QED BY <1>5

(***************************************************************************)
(* Selected: the rows of some mutations, in the order they were in.        *)
(***************************************************************************)
Selecting(rows, ids, f, i) ==
  IF i = 0 THEN <<>>
  ELSE IF rows[i].id \in ids THEN Append(f[i - 1], rows[i])
  ELSE f[i - 1]

LEMMA SelectionExists ==
  ASSUME NEW rows, NEW ids, NEW n \in Nat
  PROVE  \E f : f = [i \in 0 .. n |-> Selecting(rows, ids, f, i)]
<1>1. PICK Lacking :
        Lacking = {k \in Nat : ~ \E f : f = [i \in 0 .. k |-> Selecting(rows, ids, f, i)]}
  OBVIOUS
<1> SUFFICES ASSUME Lacking # {} PROVE FALSE
  BY <1>1
<1>2. PICK k \in Lacking : \A x \in Lacking : k <= x
  BY <1>1, MinExists
<1>3. k \in Nat /\ ~ \E f : f = [i \in 0 .. k |-> Selecting(rows, ids, f, i)]
  BY <1>1
<1>4. k # 0
  <2>1. SUFFICES ASSUME k = 0 PROVE FALSE
    OBVIOUS
  <2>2. PICK f : f = [i \in 0 .. k |-> <<>>]
    OBVIOUS
  <2>3. \A i \in 0 .. k : Selecting(rows, ids, f, i) = <<>>
    BY <2>1 DEF Selecting
  <2>4. f = [i \in 0 .. k |-> Selecting(rows, ids, f, i)]
    BY <2>2, <2>3
  <2> QED BY <1>3, <2>4
<1>5. PICK f : f = [i \in 0 .. k - 1 |-> Selecting(rows, ids, f, i)]
  <2>1. k - 1 \in Nat /\ k - 1 \notin Lacking
    BY <1>2, <1>3, <1>4
  <2> QED BY <1>1, <2>1
<1>6. PICK g : g = [i \in 0 .. k |-> IF i = k THEN Selecting(rows, ids, f, k) ELSE f[i]]
  OBVIOUS
<1>7. ASSUME NEW i \in 0 .. k PROVE g[i] = Selecting(rows, ids, g, i)
  <2>1. CASE i = 0
    <3>1. 0 \in 0 .. k - 1 /\ 0 \in 0 .. k /\ 0 # k
      BY <1>3, <1>4
    <3>2. f[0] = <<>> /\ g[0] = f[0]
      BY <1>5, <1>6, <3>1 DEF Selecting
    <3> QED BY <2>1, <3>2 DEF Selecting
  <2>2. CASE i # 0
    <3>1. i - 1 \in 0 .. k - 1 /\ i - 1 \in 0 .. k /\ i - 1 # k
      BY ONLY <1>3, <2>2, i \in 0 .. k
    <3>2. g[i - 1] = f[i - 1]
      BY <1>6, <3>1
    <3>3. Selecting(rows, ids, g, i) = Selecting(rows, ids, f, i)
      BY <2>2, <3>2 DEF Selecting
    <3>4. i = k \/ i \in 0 .. k - 1
      BY ONLY <1>3, <2>2, i \in 0 .. k
    <3>5. g[i] = Selecting(rows, ids, f, i)
      BY <1>5, <1>6, <3>4
    <3> QED BY <3>3, <3>5
  <2> QED BY <2>1, <2>2
<1>8. g = [i \in 0 .. k |-> Selecting(rows, ids, g, i)]
  BY <1>6, <1>7
<1> QED BY <1>3, <1>8

\* what is selected of the first n rows
Selects(rows, ids, n, s) ==
  /\ \A j \in 1 .. Len(s) : \E i \in 1 .. n : rows[i].id \in ids /\ s[j] = rows[i]
  /\ \A i \in 1 .. n : rows[i].id \in ids => \E j \in 1 .. Len(s) : s[j] = rows[i]
  /\ \A j, l \in 1 .. Len(s) :
       j < l => \E i, h \in 1 .. n : i < h /\ s[j] = rows[i] /\ s[l] = rows[h]

LEMMA SelectsNext ==
  ASSUME NEW X, NEW rows \in Seq(X), NEW ids, NEW n \in Nat, n + 1 <= Len(rows),
         NEW s \in Seq(X), Selects(rows, ids, n, s), NEW t,
         t = IF rows[n + 1].id \in ids THEN Append(s, rows[n + 1]) ELSE s
  PROVE  t \in Seq(X) /\ Selects(rows, ids, n + 1, t)
<1>1. rows[n + 1] \in X /\ \A i \in 1 .. n : i \in 1 .. n + 1
  OBVIOUS
<1>2. \A i \in 1 .. n + 1 : i = n + 1 \/ i \in 1 .. n
  OBVIOUS
<1>3. CASE rows[n + 1].id \notin ids
  <2>1. t = s
    BY <1>3
  <2> QED BY <1>1, <1>2, <1>3, <2>1 DEF Selects
<1>4. CASE rows[n + 1].id \in ids
  <2>1. PICK m \in Nat : m = Len(s)
    OBVIOUS
  <2>2. /\ t \in Seq(X) /\ Len(t) = m + 1 /\ t[m + 1] = rows[n + 1]
        /\ \A j \in 1 .. m : t[j] = s[j]
    BY <1>1, <1>4, <2>1
  <2>3. \A j \in 1 .. m + 1 : j = m + 1 \/ j \in 1 .. m
    BY <2>1
  <2>4. n + 1 \in 1 .. n + 1 /\ m + 1 \in 1 .. m + 1 /\ \A j \in 1 .. m : j \in 1 .. m + 1
    BY <2>1
  <2>5. \A j \in 1 .. Len(t) : \E i \in 1 .. n + 1 : rows[i].id \in ids /\ t[j] = rows[i]
    BY <1>1, <1>4, <2>1, <2>2, <2>3, <2>4 DEF Selects
  <2>6. \A i \in 1 .. n + 1 : rows[i].id \in ids => \E j \in 1 .. Len(t) : t[j] = rows[i]
    BY <1>1, <1>2, <1>4, <2>1, <2>2, <2>4 DEF Selects
  <2>7. ASSUME NEW j \in 1 .. m + 1, NEW l \in 1 .. m + 1, j < l
        PROVE  \E i, h \in 1 .. n + 1 : i < h /\ t[j] = rows[i] /\ t[l] = rows[h]
    <3>1. j \in 1 .. m
      BY ONLY <2>1, <2>7
    <3>2. CASE l \in 1 .. m
      <4>1. PICK i \in 1 .. n, h \in 1 .. n : i < h /\ s[j] = rows[i] /\ s[l] = rows[h]
        BY <2>1, <2>7, <3>1, <3>2 DEF Selects
      <4> QED BY <1>1, <2>2, <3>1, <3>2, <4>1
    <3>3. CASE l = m + 1
      <4>1. PICK i \in 1 .. n : s[j] = rows[i]
        BY <2>1, <3>1 DEF Selects
      <4>2. i < n + 1
        BY ONLY <4>1, n \in Nat
      <4> QED BY <1>1, <2>2, <2>4, <3>1, <3>3, <4>1, <4>2
    <3> QED BY <2>3, <2>7, <3>2, <3>3
  <2>8. \A j, l \in 1 .. m + 1 :
          j < l => \E i, h \in 1 .. n + 1 : i < h /\ t[j] = rows[i] /\ t[l] = rows[h]
    BY ONLY <2>7
  <2> QED BY ONLY <2>2, <2>5, <2>6, <2>8 DEF Selects
<1> QED BY <1>3, <1>4

LEMMA SelectedRows ==
  ASSUME NEW X, NEW rows \in Seq(X), NEW ids
  PROVE  /\ Selected(rows, ids) \in Seq(X)
         /\ Selects(rows, ids, Len(rows), Selected(rows, ids))
<1>1. PICK n \in Nat : n = Len(rows)
  OBVIOUS
<1>2. PICK f : f = CHOOSE g : g = [i \in 0 .. n |-> Selecting(rows, ids, g, i)]
  OBVIOUS
<1>3. f = [i \in 0 .. n |-> Selecting(rows, ids, f, i)]
  BY <1>2, SelectionExists
<1>4. Selected(rows, ids) = f[n]
  BY <1>1, <1>2 DEF Selected, Selecting
<1>5. f[0] = <<>> /\ \A i \in 1 .. n : f[i] = Selecting(rows, ids, f, i)
  <2>1. 0 \in 0 .. n /\ \A i \in 1 .. n : i \in 0 .. n
    BY <1>1
  <2>2. f[0] = Selecting(rows, ids, f, 0) /\ \A i \in 1 .. n : f[i] = Selecting(rows, ids, f, i)
    BY <1>3, <2>1
  <2>3. Selecting(rows, ids, f, 0) = <<>>
    BY DEF Selecting
  <2> QED BY <2>2, <2>3
<1>6. PICK Bad : Bad = {i \in 0 .. n : ~ (f[i] \in Seq(X) /\ Selects(rows, ids, i, f[i]))}
  OBVIOUS
<1>7. ASSUME Bad # {} PROVE FALSE
  <2>1. PICK k \in Bad : \A x \in Bad : k <= x
    <3>1. Bad \in SUBSET Nat
      BY <1>1, <1>6
    <3> QED BY <1>7, <3>1, MinExists
  <2>2. k \in 0 .. n /\ ~ (f[k] \in Seq(X) /\ Selects(rows, ids, k, f[k]))
    BY <1>6
  <2>3. k # 0
    <3>1. <<>> \in Seq(X) /\ Selects(rows, ids, 0, <<>>)
      BY DEF Selects
    <3> QED BY <1>5, <2>2, <3>1
  <2>4. PICK m \in Nat : k = m + 1
    BY ONLY <2>2, <2>3, <1>1
  <2>5. m \in 0 .. n /\ m + 1 <= n /\ ~ (m >= k) /\ m + 1 \in 1 .. n
    BY ONLY <1>1, <2>2, <2>4
  <2>6. f[m] \in Seq(X) /\ Selects(rows, ids, m, f[m])
    BY <1>6, <2>1, <2>5
  <2>7. f[m + 1] = IF rows[m + 1].id \in ids THEN Append(f[m], rows[m + 1]) ELSE f[m]
    <3>1. m + 1 # 0 /\ (m + 1) - 1 = m
      OBVIOUS
    <3> QED BY <1>5, <2>5, <3>1 DEF Selecting
  <2> QED BY <1>1, <2>2, <2>4, <2>5, <2>6, <2>7, SelectsNext
<1>8. f[n] \in Seq(X) /\ Selects(rows, ids, n, f[n])
  BY <1>1, <1>6, <1>7
<1> QED BY <1>1, <1>4, <1>8

-----------------------------------------------------------------------------
(***************************************************************************)
(* The values of the variables that an outbox is told by.                  *)
(***************************************************************************)
Tags == {"Accepted", "Rejected", "Expired"}

PendingRows == [id : Mutations, local : Nat, state : States, writes : SUBSET Keys]
AnswerRows == [id : Mutations, local : Nat, tag : Tags, at : Nat, through : Nat]
SettlementRows == [id : Mutations, local : Nat, tag : Tags]
DecisionRows == [id : Mutations, tag : {"Accepted", "Rejected"}, at : Nat]
RetiredRows == [id : Mutations, local : Nat]
MarkNames == {NameOf[m] : m \in Mutations} \cup {None}

TurnShape(t) ==
  t = [at |-> t.at, pass |-> t.pass, page |-> t.page, after |-> t.after,
       through |-> t.through, batch |-> t.batch, answers |-> t.answers,
       expired |-> t.expired]

TurnType(t) ==
  /\ TurnShape(t) /\ t.batch \in Seq(PendingRows) /\ t.answers \in Seq(AnswerRows)

GateType(g) ==
  /\ g = [op |-> g.op, at |-> g.at, settling |-> g.settling]
  /\ g.settling \subseteq Mutations

ServerTypeInv ==
  /\ head \in Nat /\ decided \in Seq(DecisionRows)
  /\ lapsed \in [through : Nat, sequence : Nat] /\ lapsed.through <= Len(decided)

ClientTypeInv ==
  /\ pending \in Seq(PendingRows) /\ receipts \subseteq ReceiptRecords
  /\ retired \subseteq RetiredRows /\ marks \in [MarkNames -> Nat] /\ reader \in Nat
  /\ TurnType(turn) /\ GateType(gate)

HistoryTypeInv ==
  /\ committed \in Seq(Mutations) /\ nextLocal = Len(committed) + 1
  /\ settlements \in Seq(SettlementRows)

(***************************************************************************)
(* A row, an answer or a receipt names the mutation committed under its    *)
(* local sequence, and an answer or a receipt tells its decision or that   *)
(* it has expired.                                                         *)
(***************************************************************************)
Told == {settlements[i].local : i \in 1 .. Len(settlements)}

NamesIt(r) == r.local \in 1 .. Len(committed) /\ committed[r.local] = r.id

Truthful(r) ==
  /\ r.local \in 1 .. Len(decided) /\ decided[r.local].id = r.id
  /\ r.tag \in {decided[r.local].tag, "Expired"}

(***************************************************************************)
(* An identity is committed once, and the server decides in that order.    *)
(***************************************************************************)
CommitInv ==
  \A i, j \in 1 .. Len(committed) : committed[i] = committed[j] => i = j

DecisionInv ==
  /\ Len(decided) <= Len(committed)
  /\ \A i \in 1 .. Len(decided) : decided[i].id = committed[i]

(***************************************************************************)
(* What is pending is in local order and was not reported; what is         *)
(* reported had been committed.                                            *)
(***************************************************************************)
PendingInv ==
  /\ \A i \in 1 .. Len(pending) : NamesIt(pending[i]) /\ pending[i].local \notin Told
  /\ \A i, j \in 1 .. Len(pending) : i < j => pending[i].local < pending[j].local

SettlementInv ==
  \A i \in 1 .. Len(settlements) : NamesIt(settlements[i])

WireInv ==
  /\ \A i \in 1 .. Len(turn.batch) : NamesIt(turn.batch[i])
  /\ \A i \in 1 .. Len(turn.answers) : Truthful(turn.answers[i])

(***************************************************************************)
(* Receipts tell the server's decisions.  A mutation whose receipt is      *)
(* settled has been reported; one being settled still has its receipt.     *)
(***************************************************************************)
ReceiptInv ==
  \A r \in receipts :
    /\ Truthful(r)
    /\ r.settled <= Len(settlements)
    /\ r.settled > 0 => r.local \in Told

SettlingInv ==
  \A i \in 1 .. Len(pending) :
    pending[i].id \in gate.settling => \E r \in receipts : r.id = pending[i].id

(***************************************************************************)
(* An identity that must be remembered is pending, or in a receipt, or is  *)
(* retired.                                                                *)
(***************************************************************************)
RecordInv ==
  \A i \in 1 .. Len(committed) :
    i >= nextLocal - RetainedMutationIds =>
      \/ \E j \in 1 .. Len(pending) : pending[j].local = i
      \/ \E r \in receipts : r.local = i
      \/ [id |-> committed[i], local |-> i] \in retired

(***************************************************************************)
(* A settlement is in a receipt, or its number is behind the mark of its   *)
(* name and the mark of all of them.                                       *)
(***************************************************************************)
MarkInv ==
  /\ ~ missed
  /\ \A i \in 1 .. Len(settlements) :
       \/ \E r \in receipts : r.settled = i /\ r.id = settlements[i].id
       \/ i <= marks[None] /\ i <= marks[NameOf[settlements[i].id]]

OutboxInv ==
  /\ ServerTypeInv /\ ClientTypeInv /\ HistoryTypeInv
  /\ CommitInv /\ DecisionInv /\ PendingInv /\ SettlementInv /\ WireInv
  /\ ReceiptInv /\ SettlingInv /\ RecordInv /\ MarkInv

-----------------------------------------------------------------------------
(***************************************************************************)
(* Receipts leave only when they are settled, and leave their identity and *)
(* their number behind.                                                    *)
(***************************************************************************)
LEMMA HighestIs ==
  ASSUME NEW S \in SUBSET Nat, NEW b \in Nat, \A x \in S : x <= b, NEW least \in Nat
  PROVE  /\ Highest(S, least) \in Nat /\ Highest(S, least) \in S \cup {least}
         /\ \A x \in S \cup {least} : x <= Highest(S, least)
<1>1. PICK c \in Nat : b <= c /\ least <= c
  OBVIOUS
<1>2. PICK U : U = S \cup {least}
  OBVIOUS
<1>3. U \in SUBSET Nat /\ U # {}
  BY <1>2
<1>4. \A x \in U : x <= c
  BY <1>1, <1>2
<1>5. \E n \in U : \A x \in U : x <= n
  BY <1>1, <1>3, <1>4, MaxExists
<1> QED BY <1>2, <1>3, <1>5 DEF Highest

\* the receipts after a step are as truthful, and nothing they stood for is forgotten
ReceiptsKept ==
  /\ receipts' \subseteq ReceiptRecords /\ retired' \subseteq RetiredRows
  /\ marks' \in [MarkNames -> Nat]
  /\ \A r \in receipts' :
       Truthful(r) /\ r.settled <= Len(settlements) /\ (r.settled > 0 => r.local \in Told)
  /\ \A r \in receipts : r.settled = 0 => r \in receipts'
  /\ \A i \in 1 .. Len(committed) :
       i >= nextLocal - RetainedMutationIds =>
         \/ \E j \in 1 .. Len(pending) : pending[j].local = i
         \/ \E r \in receipts' : r.local = i
         \/ [id |-> committed[i], local |-> i] \in retired'
  /\ \A i \in 1 .. Len(settlements) :
       \/ \E r \in receipts' : r.settled = i /\ r.id = settlements[i].id
       \/ i <= marks'[None] /\ i <= marks'[NameOf[settlements[i].id]]

LEMMA ReceiptsUnchanged ==
  ASSUME OutboxInv, UNCHANGED receiptVars PROVE ReceiptsKept
<1>1. receipts' = receipts /\ retired' = retired /\ marks' = marks
  BY DEF receiptVars
<1> QED BY <1>1 DEF OutboxInv, ClientTypeInv, ReceiptInv, RecordInv, MarkInv, ReceiptsKept

LEMMA Pruned ==
  ASSUME OutboxInv, NEW added \in SUBSET ReceiptRecords,
         \A r \in added : r.settled = 0 /\ Truthful(r), PruneThen(added)
  PROVE  ReceiptsKept
<1>1. PICK gone : gone = Prunable
  OBVIOUS
<1>2. /\ receipts' = (receipts \ gone) \cup added /\ retired' = Retire(gone)
      /\ marks' = Mark(gone)
  BY <1>1 DEF PruneThen
<1>3. /\ gone \subseteq receipts /\ \A r \in gone : r.settled > 0
  BY <1>1 DEF Prunable, Settled
<1>4. /\ receipts \subseteq ReceiptRecords /\ retired \subseteq RetiredRows
      /\ marks \in [MarkNames -> Nat]
      /\ committed \in Seq(Mutations) /\ settlements \in Seq(SettlementRows)
  BY DEF OutboxInv, ClientTypeInv, HistoryTypeInv
<1>5. PICK told \in Nat : told = Len(settlements)
  BY <1>4
<1>6. \A r \in gone : r \in ReceiptRecords /\ r.settled \in Nat /\ r.settled <= told
                      /\ r.id \in Mutations /\ r.local \in Nat
  BY <1>3, <1>4, <1>5 DEF OutboxInv, ReceiptInv, ReceiptRecords, Ids
<1>7. receipts' \subseteq ReceiptRecords
  BY <1>2, <1>4
<1>8. retired' \subseteq RetiredRows
  BY <1>2, <1>4, <1>6 DEF Retire, RetiredRows
<1>9. ASSUME NEW n \in MarkNames
      PROVE  /\ marks'[n] \in Nat /\ marks[n] <= marks'[n]
             /\ \A r \in gone : n \in {None, NameOf[r.id]} => r.settled <= marks'[n]
  <2>1. PICK S : S = {r.settled : r \in {q \in gone : n \in {None, NameOf[q.id]}}}
    OBVIOUS
  <2>2. S \in SUBSET Nat /\ \A x \in S : x <= told
    BY <1>6, <2>1
  <2>3. marks[n] \in Nat /\ n \in DOMAIN marks /\ marks'[n] = Highest(S, marks[n])
    BY <1>2, <1>4, <2>1 DEF Mark
  <2>4. PICK least \in Nat : least = marks[n]
    BY <2>3
  <2>5. /\ Highest(S, least) \in Nat /\ \A x \in S \cup {least} : x <= Highest(S, least)
    BY ONLY <1>5, <2>2, <2>4, HighestIs
  <2> QED BY <2>1, <2>3, <2>4, <2>5
<1>10. marks' \in [MarkNames -> Nat]
  <2>1. marks' = [n \in MarkNames |-> marks'[n]]
    BY <1>2, <1>4 DEF Mark
  <2> QED BY <1>9, <2>1
<1>11. \A r \in receipts' :
         Truthful(r) /\ r.settled <= Len(settlements) /\ (r.settled > 0 => r.local \in Told)
  BY <1>2, <1>5 DEF OutboxInv, ReceiptInv
<1>12. \A r \in receipts : r.settled = 0 => r \in receipts'
  BY <1>2, <1>3
<1>13. ASSUME NEW i \in 1 .. Len(committed), i >= nextLocal - RetainedMutationIds
       PROVE  \/ \E j \in 1 .. Len(pending) : pending[j].local = i
              \/ \E r \in receipts' : r.local = i
              \/ [id |-> committed[i], local |-> i] \in retired'
  <2>1. \/ \E j \in 1 .. Len(pending) : pending[j].local = i
        \/ \E r \in receipts : r.local = i
        \/ [id |-> committed[i], local |-> i] \in retired
    BY <1>13 DEF OutboxInv, RecordInv
  <2>2. ASSUME NEW r \in gone, r.local = i
        PROVE  [id |-> committed[i], local |-> i] \in retired'
    <3>1. r.id = committed[i]
      BY <1>3, <1>4, <1>13, <2>2 DEF OutboxInv, ReceiptInv, Truthful, DecisionInv
    <3> QED BY <1>2, <1>13, <2>2, <3>1 DEF Retire
  <2>3. ASSUME [id |-> committed[i], local |-> i] \in retired
        PROVE  [id |-> committed[i], local |-> i] \in retired'
    BY <1>2, <1>13, <2>3 DEF Retire
  <2> QED BY <1>2, <2>1, <2>2, <2>3
<1>14. ASSUME NEW i \in 1 .. Len(settlements)
       PROVE  \/ \E r \in receipts' : r.settled = i /\ r.id = settlements[i].id
              \/ i <= marks'[None] /\ i <= marks'[NameOf[settlements[i].id]]
  <2>1. settlements[i].id \in Mutations
    <3>1. settlements[i] \in SettlementRows
      BY ONLY <1>4, i \in 1 .. Len(settlements)
    <3> QED BY ONLY <3>1 DEF SettlementRows
  <2>2. PICK n : n = NameOf[settlements[i].id]
    OBVIOUS
  <2>3. n \in MarkNames /\ None \in MarkNames
    BY <2>1, <2>2 DEF MarkNames
  <2>4. \/ \E r \in receipts : r.settled = i /\ r.id = settlements[i].id
        \/ i <= marks[None] /\ i <= marks[n]
    BY <2>2 DEF OutboxInv, MarkInv
  <2>5. CASE \E r \in gone : r.settled = i /\ r.id = settlements[i].id
    BY <1>9, <2>2, <2>3, <2>5
  <2>6. CASE i <= marks[None] /\ i <= marks[n]
    <3>1. /\ marks[None] \in Nat /\ marks'[None] \in Nat /\ marks[None] <= marks'[None]
          /\ marks[n] \in Nat /\ marks'[n] \in Nat /\ marks[n] <= marks'[n]
      BY <1>4, <1>9, <2>3
    <3>2. i \in Nat
      BY <1>5
    <3>3. i <= marks'[None] /\ i <= marks'[n]
      BY ONLY <2>6, <3>1, <3>2
    <3> QED BY <2>2, <3>3
  <2>7. CASE \E r \in receipts \ gone : r.settled = i /\ r.id = settlements[i].id
    BY <1>2, <2>7
  <2> QED BY <2>4, <2>5, <2>6, <2>7
<1> QED BY ONLY <1>7, <1>8, <1>10, <1>11, <1>12, <1>13, <1>14 DEF ReceiptsKept

-----------------------------------------------------------------------------
(***************************************************************************)
(* Steps that commit, decide and report nothing.                           *)
(***************************************************************************)
RowsKept ==
  /\ pending' \in Seq(PendingRows) /\ Len(pending') = Len(pending)
  /\ \A i \in 1 .. Len(pending) :
       pending'[i].id = pending[i].id /\ pending'[i].local = pending[i].local

WireKept ==
  /\ TurnType(turn')
  /\ \A i \in 1 .. Len(turn'.batch) : NamesIt(turn'.batch[i])
  /\ \A i \in 1 .. Len(turn'.answers) : Truthful(turn'.answers[i])

GateKept ==
  /\ GateType(gate')
  /\ \A i \in 1 .. Len(pending) :
       pending[i].id \in gate'.settling => \E r \in receipts' : r.id = pending[i].id

ServerKept ==
  /\ decided' = decided /\ head' \in Nat
  /\ lapsed' \in [through : Nat, sequence : Nat] /\ lapsed'.through <= Len(decided)

HistoryKept ==
  /\ committed' = committed /\ nextLocal' = nextLocal /\ settlements' = settlements
  /\ reader' \in Nat /\ ~ missed'

Steady == ServerKept /\ HistoryKept /\ RowsKept /\ WireKept /\ GateKept /\ ReceiptsKept

LEMMA SteadyKeeps ==
  ASSUME OutboxInv, Steady PROVE OutboxInv'
<1>1. /\ committed' = committed /\ nextLocal' = nextLocal /\ settlements' = settlements
      /\ decided' = decided /\ Told' = Told
  BY DEF Steady, ServerKept, HistoryKept, Told
<1>3. ServerTypeInv' /\ HistoryTypeInv' /\ CommitInv' /\ DecisionInv' /\ SettlementInv'
  BY <1>1 DEF Steady, ServerKept, HistoryKept, OutboxInv, ServerTypeInv, HistoryTypeInv,
              CommitInv, DecisionInv, SettlementInv, NamesIt
<1>4. ClientTypeInv'
  BY DEF Steady, HistoryKept, RowsKept, WireKept, GateKept, ReceiptsKept, ClientTypeInv
<1>5. PendingInv'
  BY <1>1 DEF Steady, RowsKept, OutboxInv, PendingInv, NamesIt
<1>6. WireInv'
  BY <1>1 DEF Steady, WireKept, WireInv, NamesIt, Truthful
<1>7. ReceiptInv'
  BY <1>1 DEF Steady, ReceiptsKept, ReceiptInv, Truthful
<1>8. SettlingInv'
  BY DEF Steady, RowsKept, GateKept, SettlingInv
<1>9. RecordInv'
  BY <1>1 DEF Steady, RowsKept, ReceiptsKept, RecordInv
<1>10. MarkInv'
  BY <1>1 DEF Steady, HistoryKept, ReceiptsKept, MarkInv
<1> QED BY <1>3, <1>4, <1>5, <1>6, <1>7, <1>8, <1>9, <1>10 DEF OutboxInv

(* A pending mutation's receipt is not settled, so it is not pruned.       *)
LEMMA ReceiptOfPending ==
  ASSUME OutboxInv, NEW i \in 1 .. Len(pending), NEW r \in receipts, r.id = pending[i].id
  PROVE  r.settled = 0 /\ r.local = pending[i].local
<1>1. /\ r.local \in 1 .. Len(committed) /\ committed[r.local] = r.id
      /\ (r.settled > 0 => r.local \in Told) /\ r.settled \in Nat
  <2>1. committed \in Seq(Mutations) /\ decided \in Seq(DecisionRows) /\ r \in ReceiptRecords
    BY DEF OutboxInv, HistoryTypeInv, ServerTypeInv, ClientTypeInv
  <2>2. r.local \in 1 .. Len(decided) /\ decided[r.local].id = r.id
    BY DEF OutboxInv, ReceiptInv, Truthful
  <2>3. Len(decided) <= Len(committed) /\ decided[r.local].id = committed[r.local]
    BY <2>2 DEF OutboxInv, DecisionInv
  <2>4. r.settled > 0 => r.local \in Told
    BY DEF OutboxInv, ReceiptInv
  <2> QED BY <2>1, <2>2, <2>3, <2>4 DEF ReceiptRecords
<1>2. /\ pending[i].local \in 1 .. Len(committed) /\ committed[pending[i].local] = pending[i].id
      /\ pending[i].local \notin Told
  BY DEF OutboxInv, PendingInv, NamesIt
<1>3. r.local = pending[i].local
  BY <1>1, <1>2 DEF OutboxInv, CommitInv
<1> QED BY <1>1, <1>2, <1>3

LEMMA GateMoves ==
  ASSUME OutboxInv, ReceiptsKept, GateType(gate'),
         \A i \in 1 .. Len(pending) :
           pending[i].id \in gate'.settling =>
             \/ pending[i].id \in gate.settling
             \/ \E r \in receipts : r.id = pending[i].id
  PROVE  GateKept
<1> SUFFICES ASSUME NEW i \in 1 .. Len(pending), pending[i].id \in gate'.settling
             PROVE  \E r \in receipts' : r.id = pending[i].id
  BY DEF GateKept
<1>1. PICK r \in receipts : r.id = pending[i].id
  BY DEF OutboxInv, SettlingInv
<1> QED BY <1>1, ReceiptOfPending DEF ReceiptsKept

LEMMA TurnMoves ==
  ASSUME OutboxInv, turn'.batch \in {turn.batch, <<>>}, turn'.answers \in {turn.answers, <<>>},
         TurnShape(turn')
  PROVE  WireKept
<1>1. turn.batch \in Seq(PendingRows) /\ turn.answers \in Seq(AnswerRows)
  BY DEF TurnType, OutboxInv, ClientTypeInv
<1>2. turn'.batch \in Seq(PendingRows) /\ turn'.answers \in Seq(AnswerRows)
  <2>1. <<>> \in Seq(PendingRows) /\ <<>> \in Seq(AnswerRows)
    OBVIOUS
  <2> QED BY <1>1, <2>1
<1>3. TurnType(turn')
  BY <1>2 DEF TurnType
<1> QED BY <1>3 DEF OutboxInv, WireInv, WireKept

LEMMA RowsUnchanged ==
  ASSUME OutboxInv, pending' = pending PROVE RowsKept
  BY DEF OutboxInv, ClientTypeInv, RowsKept

LEMMA RowsMarked ==
  ASSUME OutboxInv, NEW ids, NEW from \in SUBSET States, NEW to \in States,
         pending' = Marked(ids, from, to)
  PROVE  RowsKept
<1>1. pending \in Seq(PendingRows)
  BY DEF OutboxInv, ClientTypeInv
<1>2. ASSUME NEW p \in PendingRows
      PROVE  /\ [p EXCEPT !.state = to] \in PendingRows
             /\ [p EXCEPT !.state = to].id = p.id /\ [p EXCEPT !.state = to].local = p.local
  BY DEF PendingRows
<1>3. pending' = [i \in 1 .. Len(pending) |-> pending'[i]]
  BY <1>1 DEF Marked
<1>4. ASSUME NEW i \in 1 .. Len(pending)
      PROVE  /\ pending'[i] \in PendingRows
             /\ pending'[i].id = pending[i].id /\ pending'[i].local = pending[i].local
  <2>1. pending[i] \in PendingRows
    BY <1>1
  <2>2. pending'[i] \in {pending[i], [pending[i] EXCEPT !.state = to]}
    BY <1>1 DEF Marked
  <2> QED BY <1>2, <2>1, <2>2
<1> QED BY <1>1, <1>3, <1>4 DEF RowsKept

LEMMA Unchanged ==
  ASSUME OutboxInv
  PROVE  /\ UNCHANGED serverVars => ServerKept
         /\ UNCHANGED <<committed, nextLocal, settlements, appVars>> => HistoryKept
         /\ UNCHANGED turn => WireKept
         /\ UNCHANGED gate /\ ReceiptsKept => GateKept
<1>1. UNCHANGED serverVars => ServerKept
  BY DEF OutboxInv, ServerTypeInv, serverVars, ServerKept
<1>2. UNCHANGED <<committed, nextLocal, settlements, appVars>> => HistoryKept
  BY DEF OutboxInv, ClientTypeInv, MarkInv, appVars, HistoryKept
<1>3. UNCHANGED turn => WireKept
  BY DEF OutboxInv, ClientTypeInv, WireInv, WireKept
<1>4. UNCHANGED gate /\ ReceiptsKept => GateKept
  <2>1. SUFFICES ASSUME UNCHANGED gate, ReceiptsKept PROVE GateKept
    OBVIOUS
  <2>2. GateType(gate') /\ gate' = gate
    BY <2>1 DEF OutboxInv, ClientTypeInv
  <2> QED BY <2>1, <2>2, GateMoves
<1> QED BY <1>1, <1>2, <1>3, <1>4

\* a turn with another field is a turn
Wired(t, batch, answers) == TurnShape(t) /\ t.batch = batch /\ t.answers = answers

LEMMA AtField ==
  ASSUME NEW t, NEW b, NEW a, Wired(t, b, a), NEW x PROVE Wired([t EXCEPT !.at = x], b, a)
  BY DEF TurnShape, Wired

LEMMA PassField ==
  ASSUME NEW t, NEW b, NEW a, Wired(t, b, a), NEW x PROVE Wired([t EXCEPT !.pass = x], b, a)
  BY DEF TurnShape, Wired

LEMMA PageField ==
  ASSUME NEW t, NEW b, NEW a, Wired(t, b, a), NEW x PROVE Wired([t EXCEPT !.page = x], b, a)
  BY DEF TurnShape, Wired

LEMMA AfterField ==
  ASSUME NEW t, NEW b, NEW a, Wired(t, b, a), NEW x PROVE Wired([t EXCEPT !.after = x], b, a)
  BY DEF TurnShape, Wired

LEMMA ThroughField ==
  ASSUME NEW t, NEW b, NEW a, Wired(t, b, a), NEW x PROVE Wired([t EXCEPT !.through = x], b, a)
  BY DEF TurnShape, Wired

LEMMA ExpiredField ==
  ASSUME NEW t, NEW b, NEW a, Wired(t, b, a), NEW x PROVE Wired([t EXCEPT !.expired = x], b, a)
  BY DEF TurnShape, Wired

LEMMA BatchField ==
  ASSUME NEW t, NEW b, NEW a, Wired(t, b, a), NEW x PROVE Wired([t EXCEPT !.batch = x], x, a)
  BY DEF TurnShape, Wired

LEMMA AnswersField ==
  ASSUME NEW t, NEW b, NEW a, Wired(t, b, a), NEW x PROVE Wired([t EXCEPT !.answers = x], b, x)
  BY DEF TurnShape, Wired

LEMMA IdleTurn ==
  TurnShape(Idle) /\ Idle.batch = <<>> /\ Idle.answers = <<>>
  BY DEF TurnShape, Idle

\* where the turn goes
LEMMA TurnGoes ==
  ASSUME OutboxInv, NEW where, NEW page, NEW pass, NEW expired
  PROVE  /\ turn' = Idle => WireKept
         /\ turn' = [Idle EXCEPT !.at = where] => WireKept
         /\ turn' = [Idle EXCEPT !.at = where, !.pass = pass] => WireKept
         /\ turn' = TurnAt(where) => WireKept
         /\ turn' = [TurnAt(where) EXCEPT !.expired = expired] => WireKept
         /\ turn' = [TurnAt(where) EXCEPT !.batch = <<>>] => WireKept
         /\ turn' = [turn EXCEPT !.at = where] => WireKept
         /\ turn' = [turn EXCEPT !.at = where, !.page = page] => WireKept
         /\ turn' = [turn EXCEPT !.at = where, !.page = page, !.expired = expired] => WireKept
<1>1. PICK t, idle : t = turn /\ idle = Idle
  OBVIOUS
<1>2. Wired(t, turn.batch, turn.answers) /\ Wired(idle, <<>>, <<>>)
  BY <1>1, IdleTurn DEF Wired, OutboxInv, ClientTypeInv, TurnType
<1>3. PICK t1, i1 : t1 = [t EXCEPT !.at = where] /\ i1 = [idle EXCEPT !.at = where]
  OBVIOUS
<1>4. Wired(t1, turn.batch, turn.answers) /\ Wired(i1, <<>>, <<>>)
  BY ONLY <1>2, <1>3, AtField
<1>5. PICK t2, t3, i2 :
        t2 = [t1 EXCEPT !.page = page] /\ t3 = [t1 EXCEPT !.page = None]
        /\ i2 = [i1 EXCEPT !.pass = pass]
  OBVIOUS
<1>6. /\ Wired(t2, turn.batch, turn.answers) /\ Wired(t3, turn.batch, turn.answers)
      /\ Wired(i2, <<>>, <<>>)
  BY ONLY <1>4, <1>5, PageField, PassField
<1>7. PICK t4, t5, t6 :
        t4 = [t2 EXCEPT !.expired = expired] /\ t5 = [t3 EXCEPT !.expired = expired]
        /\ t6 = [t3 EXCEPT !.batch = <<>>]
  OBVIOUS
<1>8. /\ Wired(t4, turn.batch, turn.answers) /\ Wired(t5, turn.batch, turn.answers)
      /\ Wired(t6, <<>>, turn.answers)
  BY ONLY <1>6, <1>7, ExpiredField, BatchField
<1>9. \A u : u \in {idle, i1, i2, t1, t2, t3, t4, t5, t6} /\ turn' = u => WireKept
  BY <1>2, <1>4, <1>6, <1>8, TurnMoves DEF Wired
<1>10. /\ Idle = idle /\ [Idle EXCEPT !.at = where] = i1
       /\ [Idle EXCEPT !.at = where, !.pass = pass] = i2
  BY <1>1, <1>3, <1>5
<1>11. TurnAt(where) = t3
  BY <1>1, <1>3, <1>5 DEF TurnAt
<1>12. /\ [TurnAt(where) EXCEPT !.expired = expired] = t5
       /\ [TurnAt(where) EXCEPT !.batch = <<>>] = t6
  BY ONLY <1>7, <1>11
<1>13. /\ [turn EXCEPT !.at = where] = t1 /\ [turn EXCEPT !.at = where, !.page = page] = t2
  BY <1>1, <1>3, <1>5
<1>14. [turn EXCEPT !.at = where, !.page = page, !.expired = expired] = t4
  BY <1>1, <1>3, <1>5, <1>7
<1> QED BY <1>9, <1>10, <1>11, <1>12, <1>13, <1>14

\* what the gate holds
LEMMA GateHolds ==
  ASSUME OutboxInv, ReceiptsKept, NEW op, NEW at,
         NEW settling \in SUBSET Mutations,
         \A i \in 1 .. Len(pending) :
           pending[i].id \in settling => \E r \in receipts : r.id = pending[i].id
  PROVE  /\ gate' = Free => GateKept
         /\ gate' = Holding(op, at, {}) => GateKept
         /\ gate' = Holding(op, at, settling) => GateKept
         /\ gate' = [gate EXCEPT !.at = at] => GateKept
<1>1. gate = [op |-> gate.op, at |-> gate.at, settling |-> gate.settling]
      /\ gate.settling \subseteq Mutations
  BY DEF OutboxInv, ClientTypeInv, GateType
<1>2. ASSUME NEW g, g = [op |-> g.op, at |-> g.at, settling |-> g.settling],
             g.settling \in {{}, gate.settling, settling}, gate' = g
      PROVE  GateKept
  <2>1. GateType(gate')
    BY <1>1, <1>2 DEF GateType
  <2> QED BY <1>2, <2>1, GateMoves
<1>3. ASSUME gate' = Free PROVE GateKept
  BY <1>2, <1>3 DEF Free
<1>4. ASSUME gate' = Holding(op, at, {}) PROVE GateKept
  BY <1>2, <1>4 DEF Holding
<1>5. ASSUME gate' = Holding(op, at, settling) PROVE GateKept
  BY <1>2, <1>5 DEF Holding
<1>6. ASSUME gate' = [gate EXCEPT !.at = at] PROVE GateKept
  BY <1>1, <1>2, <1>6
<1> QED BY <1>3, <1>4, <1>5, <1>6

-----------------------------------------------------------------------------
(***************************************************************************)
(* The operations of the gate.                                             *)
(***************************************************************************)
LEMMA ReadyHaveReceipts ==
  ASSUME OutboxInv
  PROVE  /\ ReadyIds \subseteq Mutations
         /\ \A m \in ReadyIds : \E r \in receipts : r.id = m
<1>1. pending \in Seq(PendingRows)
  BY DEF OutboxInv, ClientTypeInv
<1>2. ASSUME NEW m \in ReadyIds PROVE m \in Mutations /\ \E r \in receipts : r.id = m
  <2>1. PICK p \in ToSet(pending) : Ready(p) /\ m = p.id
    BY DEF ReadyIds
  <2>2. p \in PendingRows
    BY <1>1, <2>1 DEF ToSet
  <2>3. \E r \in receipts : r.id = p.id
    BY <2>1 DEF Ready, ReceiptsOf
  <2> QED BY <2>1, <2>2, <2>3 DEF PendingRows
<1> QED BY <1>2

LEMMA NothingAdded ==
  ASSUME OutboxInv, PruneThen({}) PROVE ReceiptsKept
<1>1. {} \in SUBSET ReceiptRecords
  OBVIOUS
<1> QED BY <1>1, Pruned

LEMMA PrepareStep ==
  ASSUME OutboxInv, NEW op, Prepare(op),
         UNCHANGED <<serverVars, appVars, nextLocal, turn, committed, settlements>>
  PROVE  Steady
<1>1. PruneThen({}) /\ pending' = pending
  BY DEF Prepare
<1>2. ReceiptsKept
  BY <1>1, NothingAdded
<1>3. PICK at : gate' = Holding(op, at, ReadyIds)
  BY DEF Prepare
<1>4. GateKept
  BY <1>2, <1>3, ReadyHaveReceipts, GateHolds
<1> QED BY <1>1, <1>2, <1>4, RowsUnchanged, Unchanged DEF Steady

LEMMA SubSequence ==
  ASSUME NEW S, NEW s \in Seq(S), NEW from \in 1 .. Len(s), NEW to \in 1 .. Len(s),
         from <= to, NEW t, t = SubSeq(s, from, to)
  PROVE  /\ t \in Seq(S) /\ Len(t) \in Nat
         /\ \A i \in from .. to : Len(t) = to - from + 1 /\ t[i - from + 1] = s[i]
<1>1. PICK n : n = Len(s)
  OBVIOUS
<1>2. n \in Nat /\ from \in 1 .. n /\ to \in 1 .. n
  BY <1>1
<1>3. t = [i \in 1 .. to - from + 1 |-> s[i + from - 1]]
  BY <1>2
<1>4. ASSUME NEW i \in 1 .. to - from + 1 PROVE s[i + from - 1] \in S
  <2>1. i + from - 1 \in 1 .. n
    BY ONLY <1>2, i \in 1 .. to - from + 1
  <2> QED BY <1>1, <2>1
<1>5. to - from + 1 \in Nat
  BY ONLY <1>2, from <= to
<1>6. t \in Seq(S) /\ Len(t) = to - from + 1
  BY <1>3, <1>4, <1>5
<1>7. ASSUME NEW i \in from .. to PROVE t[i - from + 1] = s[i]
  <2>1. /\ i - from + 1 \in 1 .. to - from + 1 /\ (i - from + 1) + from - 1 = i
    BY ONLY <1>2, i \in from .. to
  <2> QED BY <1>3, <2>1
<1> QED BY <1>5, <1>6, <1>7

\* the changes a replay makes do not change what is pending
LEMMA RewrittenRows ==
  ASSUME NEW rows \in Seq(PendingRows), NEW content
  PROVE  /\ Rewritten(rows, content) \in Seq(PendingRows)
         /\ Len(Rewritten(rows, content)) = Len(rows)
         /\ \A i \in 1 .. Len(rows) :
              /\ Rewritten(rows, content)[i].id = rows[i].id
              /\ Rewritten(rows, content)[i].local = rows[i].local
<1>1. ASSUME NEW p \in PendingRows, NEW c
      PROVE  /\ [p EXCEPT !.writes = Writes(p.id, c)] \in PendingRows
             /\ [p EXCEPT !.writes = Writes(p.id, c)].id = p.id
             /\ [p EXCEPT !.writes = Writes(p.id, c)].local = p.local
  <2>1. p.id \in Mutations /\ KeyOf[p.id] \in Keys
    BY LocalStoreAssumption DEF PendingRows
  <2>2. Writes(p.id, c) \in SUBSET Keys
    BY <2>1 DEF Writes
  <2> QED BY <2>2 DEF PendingRows
<1>2. PICK new : new = Rewritten(rows, content)
  OBVIOUS
<1>3. new = [i \in 1 .. Len(rows) |-> new[i]]
  BY <1>2 DEF Rewritten
<1>4. ASSUME NEW i \in 1 .. Len(rows)
      PROVE  new[i] \in PendingRows /\ new[i].id = rows[i].id /\ new[i].local = rows[i].local
  <2>1. rows[i] \in PendingRows
    OBVIOUS
  <2>2. PICK c : c = Stages(rows, content)[i - 1]
    OBVIOUS
  <2>3. PICK p : p = rows[i]
    OBVIOUS
  <2>4. new[i] = p \/ new[i] = [p EXCEPT !.writes = Writes(p.id, c)]
    BY <1>2, <2>2, <2>3 DEF Rewritten
  <2>5. CASE new[i] = p
    BY <2>1, <2>3, <2>5
  <2>6. CASE new[i] = [p EXCEPT !.writes = Writes(p.id, c)]
    BY <1>1, <2>1, <2>3, <2>6
  <2> QED BY <2>4, <2>5, <2>6
<1> QED BY ONLY <1>2, <1>3, <1>4, rows \in Seq(PendingRows)

LEMMA ProjectRows ==
  ASSUME OutboxInv, ApplyDelta \/ RebuildStep PROVE RowsKept
<1>1. pending \in Seq(PendingRows)
  BY DEF OutboxInv, ClientTypeInv
<1>2. CASE pending' = pending
  BY <1>2, RowsUnchanged
<1>3. ASSUME NEW content, pending' = Rewritten(pending, content) PROVE RowsKept
  BY <1>1, <1>3, RewrittenRows DEF RowsKept
<1>4. CASE ApplyDelta
  BY <1>2, <1>3, <1>4 DEF ApplyDelta
<1>5. CASE ReplayPending
  <2>1. PICK from, to, batch, rows :
          /\ from = CHOOSE i \in Rows : \A j \in Rows : i <= j
          /\ to = Lesser(from + ReplayBatch - 1, Len(pending))
          /\ batch = SubSeq(pending, from, to) /\ rows = Rewritten(batch, rebuild.content)
    OBVIOUS
  <2>2. /\ Rows # {}
        /\ pending' = [i \in DOMAIN pending |->
                         IF i \in from .. to THEN rows[i - from + 1] ELSE pending[i]]
    BY <1>5, <2>1 DEF ReplayPending
  <2>3. from \in 1 .. Len(pending) /\ from \in Nat /\ Len(pending) \in Nat
    <3>1. Rows \in SUBSET Nat /\ \A i \in Rows : i \in 1 .. Len(pending)
      BY <1>1 DEF Rows
    <3>2. \E i \in Rows : \A j \in Rows : i <= j
      BY <2>2, <3>1, MinExists
    <3>3. from \in Rows
      BY <2>1, <3>2
    <3> QED BY <1>1, <3>1, <3>3
  <2>4. to \in Nat /\ from <= to /\ to <= Len(pending)
    <3>1. PICK n, b : n = Len(pending) /\ b = ReplayBatch
      OBVIOUS
    <3>2. n \in Nat /\ b \in Nat \ {0} /\ from \in 1 .. n
      BY <2>3, <3>1, LocalStoreAssumption
    <3>3. to = IF from + b - 1 < n THEN from + b - 1 ELSE n
      BY <2>1, <3>1 DEF Lesser
    <3> QED BY ONLY <3>1, <3>2, <3>3
  <2>5. /\ batch \in Seq(PendingRows) /\ Len(batch) \in Nat
        /\ \A i \in from .. to :
             Len(batch) = to - from + 1 /\ batch[i - from + 1] = pending[i]
    <3>1. PICK s, n : s = pending /\ n = Len(pending)
      OBVIOUS
    <3>2. s \in Seq(PendingRows) /\ n = Len(s) /\ from \in 1 .. n /\ to \in 1 .. n
      BY <1>1, <2>3, <2>4, <3>1
    <3>3. batch = SubSeq(s, from, to) /\ from <= to
      BY <2>1, <2>4, <3>1
    <3>4. /\ batch \in Seq(PendingRows) /\ Len(batch) \in Nat
          /\ \A i \in from .. to :
               Len(batch) = to - from + 1 /\ batch[i - from + 1] = s[i]
      BY ONLY <3>2, <3>3, SubSequence
    <3> QED BY <3>1, <3>4
  <2>6. ASSUME NEW i \in 1 .. Len(pending), i \in from .. to
        PROVE  /\ rows[i - from + 1] \in PendingRows
               /\ rows[i - from + 1].id = pending[i].id
               /\ rows[i - from + 1].local = pending[i].local
    <3>1. PICK j : j = i - from + 1
      OBVIOUS
    <3>5. Len(batch) = to - from + 1 /\ batch[j] = pending[i]
      BY <2>5, <2>6, <3>1
    <3>6. i \in Nat /\ from \in Nat /\ to \in Nat /\ i \in from .. to
      BY <2>3, <2>4, <2>6
    <3>2. j \in 1 .. Len(batch)
      BY ONLY <3>1, <3>5, <3>6
    <3>7. PICK c : c = rebuild.content
      OBVIOUS
    <3>8. rows = Rewritten(batch, c) /\ batch \in Seq(PendingRows)
      BY <2>1, <2>5, <3>7
    <3>3. /\ rows \in Seq(PendingRows) /\ Len(rows) = Len(batch)
          /\ rows[j].id = batch[j].id /\ rows[j].local = batch[j].local
      BY ONLY <3>2, <3>8, RewrittenRows
    <3>4. rows[j] \in PendingRows
      BY ONLY <3>2, <3>3
    <3> QED BY <3>1, <3>5, <3>3, <3>4
  <2>7. ASSUME NEW i \in 1 .. Len(pending)
        PROVE  /\ pending'[i] \in PendingRows
               /\ pending'[i].id = pending[i].id /\ pending'[i].local = pending[i].local
    <3>1. pending[i] \in PendingRows
      BY <1>1
    <3>2. pending'[i] = IF i \in from .. to THEN rows[i - from + 1] ELSE pending[i]
      BY <1>1, <2>2
    <3> QED BY <2>6, <3>1, <3>2
  <2>8. pending' = [i \in 1 .. Len(pending) |-> pending'[i]]
    BY <1>1, <2>2
  <2> QED BY ONLY <2>3, <2>7, <2>8 DEF RowsKept
<1>6. CASE RebuildStep
  BY <1>2, <1>5, <1>6 DEF RebuildStep, CleanTarget, CopyCanonical, Promote
<1> QED BY <1>4, <1>6

LEMMA ProjectStep ==
  ASSUME OutboxInv, Project PROVE Steady
<1>1. ApplyDelta \/ RebuildStep
  BY DEF Project
<1>2. /\ UNCHANGED <<serverVars, receiptVars, appVars, nextLocal, turn, committed, settlements>>
      /\ gate' = gate \/ gate' = [gate EXCEPT !.at = "delete"]
  BY DEF Project
<1>3. ReceiptsKept
  BY <1>2, ReceiptsUnchanged
<1>4. GateKept
  <2>1. {} \in SUBSET Mutations
    OBVIOUS
  <2> QED BY <1>2, <1>3, <2>1, GateHolds, Unchanged
<1> QED BY <1>1, <1>2, <1>3, <1>4, ProjectRows, Unchanged DEF Steady

LEMMA GateSteps ==
  ASSUME OutboxInv, PreparePage \/ SettleReceipts \/ Project \/ ResumeRebuild PROVE Steady
<1>1. CASE PreparePage
  BY <1>1, PrepareStep DEF PreparePage
<1>2. CASE SettleReceipts
  BY <1>2, PrepareStep DEF SettleReceipts
<1>3. CASE ResumeRebuild
  <2>1. /\ UNCHANGED <<serverVars, receiptVars, appVars, pending, nextLocal, turn, committed,
                       settlements>>
        /\ gate' = Holding("resume", "project", {})
    BY <1>3 DEF ResumeRebuild
  <2>2. ReceiptsKept /\ {} \in SUBSET Mutations
    BY <2>1, ReceiptsUnchanged
  <2>3. GateKept
    BY <2>1, <2>2, GateHolds
  <2> QED BY <2>1, <2>2, <2>3, RowsUnchanged, Unchanged DEF Steady
<1> QED BY <1>1, <1>2, <1>3, ProjectStep

-----------------------------------------------------------------------------
(***************************************************************************)
(* The pass: pages, snapshots and revocations.                             *)
(***************************************************************************)
\* a step that leaves the pending mutations, and what is prepared of them
LEMMA PassKeeps ==
  ASSUME OutboxInv, WireKept, GateKept, ReceiptsKept, UNCHANGED pending,
         UNCHANGED <<serverVars, appVars, nextLocal, committed, settlements>>
  PROVE  Steady
  BY RowsUnchanged, Unchanged DEF Steady

LEMMA BeginStep ==
  ASSUME OutboxInv, Begin \/ Pull PROVE Steady
<1>1. /\ UNCHANGED <<serverVars, receiptVars, appVars, pending, nextLocal, gate, committed,
                     settlements>>
      /\ \E where, page : \/ turn' = [Idle EXCEPT !.at = where]
                          \/ turn' = TurnAt(where)
                          \/ turn' = [turn EXCEPT !.at = where, !.page = page]
  BY DEF Begin, Pull
<1>2. WireKept
  BY <1>1, TurnGoes
<1>3. ReceiptsKept
  BY <1>1, ReceiptsUnchanged
<1>4. GateKept
  BY <1>1, <1>3, Unchanged
<1> QED BY <1>1, <1>2, <1>3, <1>4, PassKeeps

LEMMA ApplyViewPageStep ==
  ASSUME OutboxInv, ApplyViewPage PROVE Steady
<1>1. UNCHANGED <<serverVars, receiptVars, appVars, pending, nextLocal, committed, settlements>>
  BY DEF ApplyViewPage
<1>2. turn' \in {Idle, TurnAt("pull"), turn}
  BY DEF ApplyViewPage, Halt
<1>3. gate' \in {gate, Free, Holding("page", "prepare", {})}
  BY DEF ApplyViewPage
<1>4. WireKept
  BY <1>2, TurnGoes, Unchanged
<1>5. ReceiptsKept /\ {} \in SUBSET Mutations
  BY <1>1, ReceiptsUnchanged
<1>6. GateKept
  BY <1>3, <1>5, GateHolds, Unchanged
<1> QED BY <1>1, <1>4, <1>5, <1>6, PassKeeps

LEMMA InstallBootstrapStep ==
  ASSUME OutboxInv, InstallBootstrap PROVE Steady
<1>1. UNCHANGED <<serverVars, appVars, pending, nextLocal, committed, settlements>>
  BY DEF InstallBootstrap
<1>2. CASE Halt("ProtocolInvalid") /\ UNCHANGED <<receiptVars, gate>>
  <2>1. WireKept
    BY <1>2, TurnGoes DEF Halt
  <2>2. ReceiptsKept
    BY <1>2, ReceiptsUnchanged
  <2>3. GateKept
    BY <1>2, <2>2, Unchanged
  <2> QED BY <1>1, <2>1, <2>2, <2>3, PassKeeps
<1>3. ASSUME NEW settling, UNCHANGED turn, PruneThen({}),
             settling = {p.id : p \in {q \in ToSet(pending) :
                                         \E r \in ReceiptsOf(q.id) : Covered(turn.page, r)}},
             gate' = Holding("install", "project", settling)
      PROVE  Steady
  <2>1. settling \in SUBSET Mutations /\ \A m \in settling : \E r \in receipts : r.id = m
    <3>1. ASSUME NEW m \in settling PROVE m \in Mutations /\ \E r \in receipts : r.id = m
      <4>1. PICK p \in ToSet(pending) : m = p.id /\ \E r \in ReceiptsOf(p.id) : TRUE
        BY <1>3, <3>1
      <4>2. p \in PendingRows
        BY <4>1 DEF ToSet, OutboxInv, ClientTypeInv
      <4> QED BY <4>1, <4>2 DEF PendingRows, ReceiptsOf
    <3> QED BY <3>1
  <2>2. ReceiptsKept
    BY <1>3, NothingAdded
  <2>3. GateKept
    BY <1>3, <2>1, <2>2, GateHolds
  <2>4. WireKept
    BY <1>3, Unchanged
  <2> QED BY <1>1, <2>2, <2>3, <2>4, PassKeeps
<1>4. \/ Halt("ProtocolInvalid") /\ UNCHANGED <<receiptVars, gate>>
      \/ /\ UNCHANGED turn /\ PruneThen({})
         /\ gate' = Holding("install", "project",
                      {p.id : p \in {q \in ToSet(pending) :
                                       \E r \in ReceiptsOf(q.id) : Covered(turn.page, r)}})
  BY DEF InstallBootstrap
<1> QED BY <1>2, <1>3, <1>4

LEMMA RevokeStep ==
  ASSUME OutboxInv, RevokeReplication PROVE Steady
<1>1. /\ UNCHANGED <<serverVars, receiptVars, appVars, pending, nextLocal, turn, committed,
                     settlements>>
      /\ gate' = Holding("revoke", "project", {})
  BY DEF RevokeReplication
<1>2. WireKept
  BY <1>1, Unchanged
<1>3. ReceiptsKept /\ {} \in SUBSET Mutations
  BY <1>1, ReceiptsUnchanged
<1>4. GateKept
  BY <1>1, <1>3, GateHolds
<1> QED BY <1>1, <1>2, <1>3, <1>4, PassKeeps

(***************************************************************************)
(* The pass: what is submitted and what is answered.                       *)
(***************************************************************************)
LEMMA FirstRows ==
  ASSUME NEW s \in Seq(PendingRows), NEW n \in Nat
  PROVE  /\ First(s, n) \in Seq(PendingRows)
         /\ \A i \in 1 .. Len(First(s, n)) :
              i \in 1 .. Len(s) /\ First(s, n)[i] = s[i]
<1>1. PICK l, k : l = Len(s) /\ k = Lesser(n, l)
  OBVIOUS
<1>2. l \in Nat /\ k \in Nat /\ k <= l
  BY <1>1 DEF Lesser
<1>3. First(s, n) = [i \in 1 .. k |-> s[i]]
  BY <1>1, <1>2 DEF First
<1>4. ASSUME NEW i \in 1 .. k PROVE i \in 1 .. l
  BY ONLY <1>2, i \in 1 .. k
<1>5. \A i \in 1 .. k : s[i] \in PendingRows
  BY <1>1, <1>4
<1> QED BY <1>1, <1>2, <1>3, <1>4, <1>5

LEMMA ClaimStep ==
  ASSUME OutboxInv, ClaimSubmitBatch PROVE Steady
<1>1. UNCHANGED <<serverVars, receiptVars, appVars, nextLocal, gate, committed, settlements>>
  BY DEF ClaimSubmitBatch
<1>2. ReceiptsKept
  BY <1>1, ReceiptsUnchanged
<1>3. GateKept
  BY <1>1, <1>2, Unchanged
<1>4. CASE turn' = TurnAt("settle") /\ UNCHANGED pending
  <2>1. WireKept
    BY <1>4, TurnGoes
  <2> QED BY <1>1, <1>2, <1>3, <1>4, <2>1, PassKeeps
<1>5. ASSUME NEW through, NEW batch, batch = First(Claimable(through), SubmitBatch),
             turn' = [turn EXCEPT !.at = "wire", !.through = through,
                                  !.batch = batch, !.answers = <<>>],
             pending' = Marked({p.id : p \in ToSet(batch)}, States, "Submitting")
      PROVE  Steady
  <2>1. RowsKept
    <3>1. States \in SUBSET States /\ "Submitting" \in States
      BY DEF States
    <3> QED BY <1>5, <3>1, RowsMarked
  <2>2. PICK ids, rows : Claimable(through) = rows /\ rows = Selected(pending, ids)
    BY DEF Claimable
  <2>3. pending \in Seq(PendingRows) /\ SubmitBatch \in Nat
    BY LocalStoreAssumption DEF OutboxInv, ClientTypeInv
  <2>4. /\ rows \in Seq(PendingRows)
        /\ \A j \in 1 .. Len(rows) : \E i \in 1 .. Len(pending) : rows[j] = pending[i]
    <3>1. PICK s : s = pending
      OBVIOUS
    <3>2. s \in Seq(PendingRows) /\ rows = Selected(s, ids)
      BY <2>2, <2>3, <3>1
    <3>3. rows \in Seq(PendingRows) /\ Selects(s, ids, Len(s), rows)
      BY ONLY <3>2, SelectedRows
    <3> QED BY <3>1, <3>3 DEF Selects
  <2>5. /\ batch \in Seq(PendingRows)
        /\ \A j \in 1 .. Len(batch) : j \in 1 .. Len(rows) /\ batch[j] = rows[j]
    BY <1>5, <2>2, <2>3, <2>4, FirstRows
  <2>6. \A j \in 1 .. Len(batch) : NamesIt(batch[j])
    BY <2>4, <2>5 DEF OutboxInv, PendingInv
  <2>7. Wired(turn', batch, <<>>)
    <3>1. PICK t : t = turn
      OBVIOUS
    <3>2. Wired(t, turn.batch, turn.answers)
      BY <3>1 DEF Wired, OutboxInv, ClientTypeInv, TurnType
    <3>3. PICK t1 : t1 = [t EXCEPT !.at = "wire"]
      OBVIOUS
    <3>4. PICK t2 : t2 = [t1 EXCEPT !.through = through]
      OBVIOUS
    <3>5. PICK t3 : t3 = [t2 EXCEPT !.batch = batch]
      OBVIOUS
    <3>6. PICK t4 : t4 = [t3 EXCEPT !.answers = <<>>]
      OBVIOUS
    <3>7. Wired(t1, turn.batch, turn.answers)
      BY ONLY <3>2, <3>3, AtField
    <3>8. Wired(t2, turn.batch, turn.answers)
      BY ONLY <3>7, <3>4, ThroughField
    <3>9. Wired(t3, batch, turn.answers)
      BY ONLY <3>8, <3>5, BatchField
    <3>10. Wired(t4, batch, <<>>)
      BY ONLY <3>9, <3>6, AnswersField
    <3>11. turn' = t4
      BY <1>5, <3>1, <3>3, <3>4, <3>5, <3>6
    <3> QED BY <3>10, <3>11
  <2>8. <<>> \in Seq(AnswerRows) /\ Len(<<>>) = 0
    OBVIOUS
  <2>9. WireKept
    <3>1. /\ TurnShape(turn') /\ turn'.batch = batch /\ turn'.answers = <<>>
      BY <2>7 DEF Wired
    <3>2. TurnType(turn')
      BY <2>5, <2>8, <3>1 DEF TurnType
    <3> QED BY <2>6, <2>8, <3>1, <3>2 DEF WireKept
  <2> QED BY <1>1, <1>2, <1>3, <2>1, <2>9, Unchanged DEF Steady
<1>6. \/ turn' = TurnAt("settle") /\ UNCHANGED pending
      \/ \E through, batch :
           /\ batch = First(Claimable(through), SubmitBatch)
           /\ turn' = [turn EXCEPT !.at = "wire", !.through = through,
                                   !.batch = batch, !.answers = <<>>]
           /\ pending' = Marked({p.id : p \in ToSet(batch)}, States, "Submitting")
  BY DEF ClaimSubmitBatch
<1> QED BY <1>4, <1>5, <1>6

LEMMA MarksRetryingKeeps ==
  ASSUME OutboxInv, pending' = MarksRetrying PROVE RowsKept
<1>1. {"Submitting"} \in SUBSET States /\ "Retrying" \in States
  BY DEF States
<1> QED BY <1>1, RowsMarked DEF MarksRetrying

LEMMA AnswerSteps ==
  ASSUME OutboxInv, ReceiveAnswers \/ ReceiptsPersisted \/ RecoverExpired \/ LoseAnswers
  PROVE  Steady
<1>1. UNCHANGED <<serverVars, receiptVars, appVars, nextLocal, gate, committed, settlements>>
  BY DEF ReceiveAnswers, ReceiptsPersisted, RecoverExpired, LoseAnswers
<1>2. UNCHANGED pending \/ pending' = MarksRetrying
  BY DEF ReceiveAnswers, ReceiptsPersisted, RecoverExpired, LoseAnswers
<1>3. WireKept
  <2>1. CASE ReceiveAnswers
    BY <2>1, TurnGoes DEF ReceiveAnswers
  <2>2. CASE ReceiptsPersisted
    BY <2>2, TurnGoes DEF ReceiptsPersisted
  <2>3. CASE LoseAnswers
    BY <2>3, TurnGoes DEF LoseAnswers
  <2>4. CASE RecoverExpired
    <3>1. \/ \E where : turn' = [TurnAt(where) EXCEPT !.expired = {}]
          \/ turn' = [turn EXCEPT !.at = "installExpired", !.page = Manifest, !.expired = {}]
          \/ turn' = Idle
      BY <2>4 DEF RecoverExpired, Halt
    <3>2. ASSUME NEW where, turn' = [TurnAt(where) EXCEPT !.expired = {}] PROVE WireKept
      BY <3>2, TurnGoes
    <3>3. ASSUME turn' = [turn EXCEPT !.at = "installExpired", !.page = Manifest,
                                      !.expired = {}]
          PROVE  WireKept
      BY <3>3, TurnGoes
    <3>4. ASSUME turn' = Idle PROVE WireKept
      BY <3>4, TurnGoes
    <3> QED BY <3>1, <3>2, <3>3, <3>4
  <2> QED BY <2>1, <2>2, <2>3, <2>4
<1>4. ReceiptsKept
  BY <1>1, ReceiptsUnchanged
<1>5. GateKept
  BY <1>1, <1>4, Unchanged
<1>6. RowsKept
  BY <1>2, RowsUnchanged, MarksRetryingKeeps
<1> QED BY <1>1, <1>3, <1>4, <1>5, <1>6, Unchanged DEF Steady

\* the answers that are left are some of those there were
LEMMA TailOf ==
  ASSUME NEW S, NEW s \in Seq(S), s # <<>>
  PROVE  /\ Head(s) = s[1] /\ 1 \in 1 .. Len(s) /\ Tail(s) \in Seq(S)
         /\ \A i \in 1 .. Len(Tail(s)) :
              i + 1 \in 1 .. Len(s) /\ Tail(s)[i] = s[i + 1]
<1>1. PICK n : n = Len(s) /\ n \in Nat
  OBVIOUS
<1>2. n # 0 /\ Head(s) = s[1]
  BY <1>1
<1>3. Tail(s) \in Seq(S) /\ Len(Tail(s)) = n - 1
  BY <1>1
<1>4. ASSUME NEW i \in 1 .. n - 1 PROVE i + 1 \in 1 .. n /\ Tail(s)[i] = s[i + 1]
  <2>1. i + 1 \in 1 .. n
    BY ONLY <1>1, <1>2, i \in 1 .. n - 1
  <2> QED BY <1>1, <2>1
<1>5. 1 \in 1 .. n
  BY ONLY <1>1, <1>2
<1> QED BY <1>1, <1>2, <1>3, <1>4, <1>5

LEMMA PersistStep ==
  ASSUME OutboxInv, PersistReceipt PROVE Steady
<1>1. UNCHANGED <<serverVars, appVars, nextLocal, gate, committed, settlements>>
  BY DEF PersistReceipt
<1>2. turn.answers # <<>>
  BY DEF PersistReceipt
<1>3. /\ turn.answers \in Seq(AnswerRows)
      /\ \A i \in 1 .. Len(turn.answers) : Truthful(turn.answers[i])
  BY DEF OutboxInv, ClientTypeInv, TurnType, WireInv
<1>4. PICK r : r = Head(turn.answers)
  OBVIOUS
<1>5. PICK rest : rest = Tail(turn.answers)
  OBVIOUS
<1>6. /\ r \in AnswerRows /\ Truthful(r) /\ rest \in Seq(AnswerRows)
      /\ \A i \in 1 .. Len(rest) : Truthful(rest[i])
  <2>1. PICK s : s = turn.answers
    OBVIOUS
  <2>2. s \in Seq(AnswerRows) /\ s # <<>> /\ r = Head(s) /\ rest = Tail(s)
    BY <1>2, <1>3, <1>4, <1>5, <2>1
  <2>3. /\ r = s[1] /\ 1 \in 1 .. Len(s) /\ rest \in Seq(AnswerRows)
        /\ \A i \in 1 .. Len(rest) : i + 1 \in 1 .. Len(s) /\ rest[i] = s[i + 1]
    BY ONLY <2>2, TailOf
  <2> QED BY <1>3, <2>1, <2>2, <2>3
<1>7. \/ /\ \E expired : turn' = [turn EXCEPT !.answers = Tail(@), !.after = r.local,
                                             !.expired = expired]
         /\ pending' = Marked({r.id}, States, "Submitted")
         /\ UNCHANGED receiptVars \/ PruneThen({Kept(r)})
      \/ turn' = Idle /\ pending' = MarksRetrying /\ UNCHANGED receiptVars
  BY <1>4 DEF PersistReceipt, Halt
<1>8. RowsKept
  <2>1. States \in SUBSET States /\ "Submitted" \in States
    BY DEF States
  <2> QED BY <1>7, <2>1, RowsMarked, MarksRetryingKeeps
<1>9. WireKept
  <2>1. ASSUME NEW expired,
               turn' = [turn EXCEPT !.answers = Tail(@), !.after = r.local, !.expired = expired]
        PROVE  WireKept
    <3>1. PICK t : t = turn
      OBVIOUS
    <3>2. Wired(t, turn.batch, turn.answers)
      BY <3>1 DEF Wired, OutboxInv, ClientTypeInv, TurnType
    <3>3. PICK t1 : t1 = [t EXCEPT !.answers = rest]
      OBVIOUS
    <3>4. PICK t2 : t2 = [t1 EXCEPT !.after = r.local]
      OBVIOUS
    <3>5. PICK t3 : t3 = [t2 EXCEPT !.expired = expired]
      OBVIOUS
    <3>6. Wired(t1, turn.batch, rest)
      BY ONLY <3>2, <3>3, AnswersField
    <3>7. Wired(t2, turn.batch, rest)
      BY ONLY <3>6, <3>4, AfterField
    <3>8. Wired(t3, turn.batch, rest)
      BY ONLY <3>7, <3>5, ExpiredField
    <3>9. turn' = t3
      BY <1>5, <2>1, <3>1, <3>3, <3>4, <3>5
    <3>10. TurnShape(turn') /\ turn'.batch = turn.batch /\ turn'.answers = rest
      BY <3>8, <3>9 DEF Wired
    <3>11. TurnType(turn')
      BY <1>6, <3>10 DEF TurnType, OutboxInv, ClientTypeInv
    <3> QED BY <1>6, <3>10, <3>11 DEF WireKept, OutboxInv, WireInv
  <2>2. CASE turn' = Idle
    BY <2>2, TurnGoes
  <2> QED BY <1>7, <2>1, <2>2
<1>10. ReceiptsKept
  <2>1. PICK kept : kept = Kept(r)
    OBVIOUS
  <2>2. decided \in Seq(DecisionRows)
    BY DEF OutboxInv, ServerTypeInv
  <2>3. kept \in ReceiptRecords /\ kept.settled = 0 /\ Truthful(kept)
    BY <1>6, <2>1, <2>2 DEF Kept, ReceiptRecords, AnswerRows, Truthful, Tags, Ids
  <2>4. {kept} \in SUBSET ReceiptRecords
    BY <2>3
  <2>5. CASE PruneThen({Kept(r)})
    <3>1. PruneThen({kept})
      BY <2>1, <2>5
    <3>2. \A x \in {kept} : x.settled = 0 /\ Truthful(x)
      BY <2>3
    <3> QED BY <2>4, <3>1, <3>2, Pruned
  <2> QED BY <1>7, <2>5, ReceiptsUnchanged
<1>11. GateKept
  BY <1>1, <1>10, Unchanged
<1> QED BY <1>1, <1>8, <1>9, <1>10, <1>11, Unchanged DEF Steady

(***************************************************************************)
(* Faults, the reader of settlements and the server's other clients.       *)
(***************************************************************************)
LEMMA FaultSteps ==
  ASSUME OutboxInv, StorageFails \/ Crash PROVE Steady
<1>1. UNCHANGED <<serverVars, receiptVars, appVars, nextLocal, committed, settlements>>
  BY DEF StorageFails, Crash
<1>2. ReceiptsKept /\ {} \in SUBSET Mutations
  BY <1>1, ReceiptsUnchanged
<1>3. gate' = Free \/ \E op, at : gate' = Holding(op, at, {})
  BY DEF StorageFails, Crash
<1>4. GateKept
  BY <1>2, <1>3, GateHolds
<1>5. turn' = Idle \/ UNCHANGED turn
  BY DEF StorageFails, Crash
<1>6. WireKept
  BY <1>5, TurnGoes, Unchanged
<1>7. RowsKept
  <2>1. CASE UNCHANGED pending
    BY <2>1, RowsUnchanged
  <2>2. CASE pending' = Marked(PendingIds, {"Submitting"}, "Retrying")
    <3>1. {"Submitting"} \in SUBSET States /\ "Retrying" \in States
      BY DEF States
    <3> QED BY <2>2, <3>1, RowsMarked
  <2> QED BY <2>1, <2>2 DEF StorageFails, Crash
<1> QED BY <1>1, <1>2, <1>4, <1>6, <1>7, Unchanged DEF Steady

LEMMA EnvironmentStep ==
  ASSUME OutboxInv, Environment PROVE Steady
<1>1. /\ UNCHANGED <<receiptVars, appVars, pending, nextLocal, gate, turn, committed,
                     settlements>>
      /\ decided' = decided
      /\ head' \in {head, head + 1}
      /\ lapsed' \in {lapsed, [through |-> Len(decided), sequence |-> head]}
  BY DEF Environment, OtherWrites, SetPolicy, ReceiptsLapse, ClientUnchanged, appVars
<1>2. ServerKept
  <2>1. /\ head \in Nat /\ Len(decided) \in Nat /\ decided \in Seq(DecisionRows)
        /\ lapsed \in [through : Nat, sequence : Nat] /\ lapsed.through <= Len(decided)
    BY DEF OutboxInv, ServerTypeInv
  <2> QED BY <1>1, <2>1 DEF ServerKept
<1>3. ReceiptsKept
  BY <1>1, ReceiptsUnchanged
<1>4. GateKept
  BY <1>1, <1>3, Unchanged
<1> QED BY <1>1, <1>2, <1>3, <1>4, RowsUnchanged, Unchanged DEF Steady

(* The reader is given what it passes over: a settlement it listens for    *)
(* past the mark it has read to is still in a receipt.                     *)
LEMMA ReadStep ==
  ASSUME OutboxInv, ReadSettlements PROVE Steady
<1>1. UNCHANGED <<serverVars, receiptVars, pending, nextLocal, gate, turn, committed,
                  settlements>>
  BY DEF ReadSettlements
<1>2. /\ reader \in Nat /\ marks \in [MarkNames -> Nat] /\ receipts \subseteq ReceiptRecords
      /\ settlements \in Seq(SettlementRows) /\ Listens \in MarkNames /\ ~ missed
  BY LocalStoreAssumption DEF OutboxInv, ClientTypeInv, HistoryTypeInv, MarkInv, MarkNames
<1>3. \A r \in Available : r \in receipts /\ r.settled \in Nat /\ r.settled <= Len(settlements)
  BY <1>2 DEF Available, Settled, OutboxInv, ReceiptInv, ReceiptRecords
<1>4. PICK read, n : read = {r.settled : r \in Available} /\ n = Len(settlements)
  OBVIOUS
<1>5. read \in SUBSET Nat /\ n \in Nat /\ \A x \in read : x <= n
  BY <1>2, <1>3, <1>4
<1>6. /\ Highest(read, 0) \in Nat /\ Highest(read, 0) \in read \cup {0}
      /\ \A x \in read \cup {0} : x <= Highest(read, 0)
  BY ONLY <1>5, HighestIs
<1>7. reader' \in Nat /\ ~ missed'
  <2>1. CASE reader' = marks[Listens] /\ UNCHANGED missed
    BY <1>2, <2>1
  <2>2. CASE /\ reader >= marks[Listens]
             /\ reader' = Highest({r.settled : r \in Available}, 0)
             /\ missed' = (missed \/ \E i \in reader + 1 .. reader' :
                             /\ Listens \in {None, NameOf[settlements[i].id]}
                             /\ \A r \in Available : r.settled # i)
    <3>1. reader' = Highest(read, 0) /\ reader' \in Nat /\ reader' \in read \cup {0}
      BY <1>4, <1>6, <2>2
    <3>2. PICK from, to : from = reader /\ to = reader'
      OBVIOUS
    <3>3. from \in Nat /\ to \in Nat /\ n \in Nat /\ to <= n
      BY <1>2, <1>5, <3>1, <3>2
    <3>4. ASSUME NEW i \in from + 1 .. to, Listens \in {None, NameOf[settlements[i].id]}
          PROVE  \E r \in Available : r.settled = i
      <4>1. i \in 1 .. n /\ i > from /\ i \in Nat
        BY ONLY <3>3, i \in from + 1 .. to
      <4>2. PICK l : l = marks[Listens] /\ l \in Nat
        BY <1>2
      <4>3. from >= l
        BY <2>2, <3>2, <4>2
      <4>4. ~ i <= l
        BY ONLY <3>3, <4>1, <4>2, <4>3
      <4>5. \/ \E r \in receipts : r.settled = i /\ r.id = settlements[i].id
            \/ i <= marks[None] /\ i <= marks[NameOf[settlements[i].id]]
        BY <1>4, <4>1 DEF OutboxInv, MarkInv
      <4>6. PICK r \in receipts : r.settled = i /\ r.id = settlements[i].id
        BY <3>4, <4>2, <4>4, <4>5
      <4>7. r \in Available
        BY <3>2, <3>4, <4>1, <4>6 DEF Available, Settled, Heard
      <4> QED BY <4>6, <4>7
    <3>5. ~ \E i \in reader + 1 .. reader' :
              /\ Listens \in {None, NameOf[settlements[i].id]}
              /\ \A r \in Available : r.settled # i
      BY <3>2, <3>4
    <3>6. missed' = (missed \/ \E i \in reader + 1 .. reader' :
                       /\ Listens \in {None, NameOf[settlements[i].id]}
                       /\ \A r \in Available : r.settled # i)
      BY <2>2
    <3>7. ~ missed
      BY <1>2
    <3>8. ~ missed'
      BY ONLY <3>5, <3>6, <3>7
    <3> QED BY <3>1, <3>8
  <2> QED BY <2>1, <2>2 DEF ReadSettlements
<1>8. HistoryKept
  BY <1>1, <1>7 DEF HistoryKept
<1>9. ReceiptsKept
  BY <1>1, ReceiptsUnchanged
<1>10. GateKept
  BY <1>1, <1>9, Unchanged
<1> QED BY <1>1, <1>8, <1>9, <1>10, RowsUnchanged, Unchanged DEF Steady

-----------------------------------------------------------------------------
(***************************************************************************)
(* What a settlement takes from the pending mutations.                     *)
(***************************************************************************)
\* the number of a sequence's element is a natural
LEMMA Places ==
  ASSUME NEW S, NEW s \in Seq(S)
  PROVE  Len(s) \in Nat /\ DOMAIN s = 1 .. Len(s) /\ \A i \in 1 .. Len(s) : s[i] \in S
  OBVIOUS

(* One local sequence stands for one mutation, and one mutation for it.    *)
LEMMA OneSequence ==
  ASSUME OutboxInv, NEW p, NEW q, NamesIt(p), NamesIt(q)
  PROVE  p.id = q.id <=> p.local = q.local
  BY DEF OutboxInv, CommitInv, NamesIt

LEMMA DeletedRows ==
  ASSUME OutboxInv
  PROVE  /\ Deleted \in Seq(PendingRows)
         /\ \A j \in 1 .. Len(Deleted) :
              /\ \E i \in 1 .. Len(pending) : Deleted[j] = pending[i]
              /\ Deleted[j].id \in gate.settling
              /\ NamesIt(Deleted[j]) /\ Deleted[j].local \notin Told
         /\ \A i \in 1 .. Len(pending) :
              pending[i].id \in gate.settling => \E j \in 1 .. Len(Deleted) : Deleted[j] = pending[i]
         /\ \A j, l \in 1 .. Len(Deleted) : j < l => Deleted[j].local < Deleted[l].local
<1>1. PICK s, ids, d : s = pending /\ ids = gate.settling /\ d = Selected(s, ids)
  OBVIOUS
<1>2. s \in Seq(PendingRows) /\ Deleted = d
  BY <1>1 DEF OutboxInv, ClientTypeInv, Deleted
<1>3. d \in Seq(PendingRows) /\ Selects(s, ids, Len(s), d)
  BY ONLY <1>1, <1>2, SelectedRows
<1>4. /\ \A i \in 1 .. Len(s) : NamesIt(s[i]) /\ s[i].local \notin Told
      /\ \A i, j \in 1 .. Len(s) : i < j => s[i].local < s[j].local
  BY <1>1 DEF OutboxInv, PendingInv
<1>5. ASSUME NEW j \in 1 .. Len(d)
      PROVE  /\ \E i \in 1 .. Len(s) : d[j] = s[i]
             /\ d[j].id \in ids /\ NamesIt(d[j]) /\ d[j].local \notin Told
  BY <1>3, <1>4 DEF Selects
<1>6. \A i \in 1 .. Len(s) : s[i].id \in ids => \E j \in 1 .. Len(d) : d[j] = s[i]
  BY <1>3 DEF Selects
<1>7. ASSUME NEW j \in 1 .. Len(d), NEW l \in 1 .. Len(d), j < l
      PROVE  d[j].local < d[l].local
  <2>1. PICK i, h \in 1 .. Len(s) : i < h /\ d[j] = s[i] /\ d[l] = s[h]
    BY <1>3, <1>7 DEF Selects
  <2> QED BY <1>4, <2>1
<1> QED BY <1>1, <1>2, <1>3, <1>5, <1>6, <1>7

Remaining == Selected(pending, Mutations \ gate.settling)

LEMMA RemainingRows ==
  ASSUME OutboxInv
  PROVE  /\ Remaining \in Seq(PendingRows)
         /\ \A j \in 1 .. Len(Remaining) :
              /\ Remaining[j].id \notin gate.settling
              /\ \E i \in 1 .. Len(pending) : Remaining[j] = pending[i]
         /\ \A i \in 1 .. Len(pending) :
              pending[i].id \notin gate.settling
                => \E j \in 1 .. Len(Remaining) : Remaining[j] = pending[i]
         /\ \A j, l \in 1 .. Len(Remaining) : j < l => Remaining[j].local < Remaining[l].local
<1>1. PICK s, ids, rest : s = pending /\ ids = Mutations \ gate.settling /\ rest = Remaining
  OBVIOUS
<1>2. s \in Seq(PendingRows) /\ rest = Selected(s, ids)
  BY <1>1 DEF Remaining, OutboxInv, ClientTypeInv
<1>3. rest \in Seq(PendingRows) /\ Selects(s, ids, Len(s), rest)
  BY ONLY <1>2, SelectedRows
<1>4. \A i, j \in 1 .. Len(s) : i < j => s[i].local < s[j].local
  BY <1>1 DEF OutboxInv, PendingInv
<1>5. ASSUME NEW j \in 1 .. Len(rest)
      PROVE  rest[j].id \notin gate.settling /\ \E i \in 1 .. Len(s) : rest[j] = s[i]
  BY <1>1, <1>3 DEF Selects
<1>6. ASSUME NEW i \in 1 .. Len(s), s[i].id \notin gate.settling
      PROVE  \E j \in 1 .. Len(rest) : rest[j] = s[i]
  <2>2. s[i] \in PendingRows
    BY <1>2
  <2>3. s[i].id \in Mutations
    BY <2>2 DEF PendingRows
  <2>1. s[i].id \in ids
    BY <1>1, <1>6, <2>3
  <2> QED BY <1>3, <2>1 DEF Selects
<1>7. ASSUME NEW j \in 1 .. Len(rest), NEW l \in 1 .. Len(rest), j < l
      PROVE  rest[j].local < rest[l].local
  <2>1. PICK i, h \in 1 .. Len(s) : i < h /\ rest[j] = s[i] /\ rest[l] = s[h]
    BY <1>3, <1>7 DEF Selects
  <2> QED BY <1>4, <2>1
<1> QED BY <1>1, <1>3, <1>5, <1>6, <1>7

(* A settled mutation tells what its receipt tells, which is what the      *)
(* server decided or that it has expired, and has a number of its own.     *)
LEMMA DeletedTell ==
  ASSUME OutboxInv, NEW j \in 1 .. Len(Deleted)
  PROVE  /\ \E r \in receipts : r.id = Deleted[j].id
         /\ \A r \in receipts :
              r.id = Deleted[j].id => r.settled = 0 /\ r.local = Deleted[j].local
         /\ Deleted[j].local \in 1 .. Len(decided)
         /\ decided[Deleted[j].local].id = Deleted[j].id
         /\ Tag(Deleted[j].id) \in {decided[Deleted[j].local].tag, "Expired"}
         /\ Tag(Deleted[j].id) \in Tags
         /\ Number(Deleted[j].id) = Len(settlements) + j
<1>1. PICK d, p : d = Deleted /\ p = d[j]
  OBVIOUS
<1>2. d \in Seq(PendingRows) /\ j \in 1 .. Len(d)
  BY <1>1, DeletedRows
<1>3. PICK i \in 1 .. Len(pending) : p = pending[i] /\ pending[i].id \in gate.settling
  BY <1>1, DeletedRows
<1>4. \E r \in receipts : r.id = p.id
  BY <1>3 DEF OutboxInv, SettlingInv
<1>5. \A r \in receipts : r.id = p.id => r.settled = 0 /\ r.local = p.local
  BY <1>3, ReceiptOfPending
<1>6. \A r \in receipts : Truthful(r)
  BY DEF OutboxInv, ReceiptInv
<1>7. PICK r : r = CHOOSE x \in ReceiptsOf(p.id) : TRUE
  OBVIOUS
<1>8. r \in receipts /\ r.id = p.id /\ Tag(p.id) = r.tag
  BY <1>4, <1>7 DEF ReceiptsOf, Tag
<1>9. r.local = p.local /\ Truthful(r) /\ r \in ReceiptRecords
  BY <1>5, <1>6, <1>8 DEF OutboxInv, ClientTypeInv
<1>10. /\ p.local \in 1 .. Len(decided) /\ decided[p.local].id = p.id
       /\ Tag(p.id) \in {decided[p.local].tag, "Expired"} /\ Tag(p.id) \in Tags
  BY <1>8, <1>9 DEF Truthful, ReceiptRecords, Tags
<1>11. ASSUME NEW l \in DOMAIN d, d[l].id = p.id PROVE l = j
  <2>1. l \in 1 .. Len(d) /\ Len(d) \in Nat
    BY <1>2
  <2>2. NamesIt(d[l]) /\ NamesIt(d[j])
    BY <1>1, <1>2, <2>1, DeletedRows
  <2>3. PICK a, b : a = d[l].local /\ b = d[j].local
    OBVIOUS
  <2>4. a = b
    <3>1. PICK x, y : x = d[l] /\ y = d[j]
      OBVIOUS
    <3>2. NamesIt(x) /\ NamesIt(y) /\ x.id = y.id
      BY <1>1, <1>11, <2>2, <3>1
    <3>3. x.local = y.local
      BY <3>2, OneSequence
    <3> QED BY <2>3, <3>1, <3>3
  <2>5. a \in Nat
    <3>1. PICK x : x = d[l]
      OBVIOUS
    <3>2. x \in PendingRows
      BY ONLY <1>2, <2>1, <3>1
    <3> QED BY <2>3, <3>1, <3>2 DEF PendingRows
  <2>6. (l < j => a < b) /\ (j < l => b < a)
    BY <1>1, <1>2, <2>1, <2>3, DeletedRows
  <2> QED BY ONLY <1>2, <2>1, <2>4, <2>5, <2>6
<1>12. j \in DOMAIN d /\ d[j].id = p.id
  BY <1>1, <1>2
<1>13. (CHOOSE l \in DOMAIN d : d[l].id = p.id) = j
  BY ONLY <1>11, <1>12
<1>14. Number(p.id) = Len(settlements) + j
  BY <1>1, <1>13 DEF Number
<1> QED BY <1>1, <1>4, <1>5, <1>10, <1>14

-----------------------------------------------------------------------------
(***************************************************************************)
(* The steps that settle, commit and decide.                               *)
(***************************************************************************)
LEMMA Concatenated ==
  ASSUME NEW S, NEW s \in Seq(S), NEW t \in Seq(S), NEW u, u = s \o t
  PROVE  /\ u \in Seq(S) /\ Len(u) = Len(s) + Len(t)
         /\ \A i \in 1 .. Len(s) : i \in 1 .. Len(u) /\ u[i] = s[i]
         /\ \A j \in 1 .. Len(t) : Len(s) + j \in 1 .. Len(u) /\ u[Len(s) + j] = t[j]
         /\ \A i \in 1 .. Len(u) :
              i \in 1 .. Len(s) \/ \E j \in 1 .. Len(t) : i = Len(s) + j
<1>1. PICK n, m : n = Len(s) /\ m = Len(t)
  OBVIOUS
<1>2. n \in Nat /\ m \in Nat /\ Len(u) = n + m /\ u \in Seq(S)
  BY <1>1
<1>3. ASSUME NEW i \in 1 .. n PROVE i \in 1 .. n + m /\ u[i] = s[i]
  <2>1. i \in 1 .. n + m
    BY ONLY <1>2, i \in 1 .. n
  <2> QED BY <1>1, <2>1
<1>4. ASSUME NEW j \in 1 .. m PROVE n + j \in 1 .. n + m /\ u[n + j] = t[j]
  <2>1. n + j \in 1 .. n + m /\ ~ n + j <= n /\ (n + j) - n = j
    BY ONLY <1>2, j \in 1 .. m
  <2> QED BY <1>1, <2>1
<1>5. ASSUME NEW i \in 1 .. n + m, i \notin 1 .. n PROVE \E j \in 1 .. m : i = n + j
  <2>1. i - n \in 1 .. m /\ i = n + (i - n)
    BY ONLY <1>2, <1>5, i \in 1 .. n + m
  <2> QED BY ONLY <2>1
<1> QED BY <1>1, <1>2, <1>3, <1>4, <1>5

\* where the pass goes when the operation leaves the gate
LEMMA LeaveKeeps ==
  ASSUME OutboxInv, Leave PROVE gate' = Free /\ WireKept
<1> SUFFICES WireKept
  BY DEF Leave
<1>1. \/ AfterCatchUp \/ CompletePass \/ turn' = Idle \/ turn' = Claiming \/ UNCHANGED turn
      \/ turn' = TurnAt("expired") \/ turn' = TurnAt("pull")
      \/ turn' = [Idle EXCEPT !.at = "pull", !.pass = 2]
  BY DEF Leave
<1>2. AfterCatchUp \/ CompletePass => turn' = Claiming \/ turn' = Idle
  BY DEF AfterCatchUp, CompletePass
<1>3. CASE turn' = Idle \/ UNCHANGED turn
  BY <1>3, TurnGoes, Unchanged
<1>4. CASE turn' = Claiming
  <2>1. turn' = [Idle EXCEPT !.at = "claim"]
    BY <1>4 DEF Claiming
  <2> QED BY <2>1, TurnGoes
<1>5. CASE turn' = TurnAt("expired")
  BY <1>5, TurnGoes
<1>6. CASE turn' = TurnAt("pull")
  BY <1>6, TurnGoes
<1>7. CASE turn' = [Idle EXCEPT !.at = "pull", !.pass = 2]
  BY <1>7, TurnGoes
<1> QED BY <1>1, <1>2, <1>3, <1>4, <1>5, <1>6, <1>7

(* What is settled is numbered and reported with the server's decision, in *)
(* local order.                                                            *)
Report(p) == [id |-> p.id, local |-> p.local, tag |-> Tag(p.id)]

\* what is settled, and what is left, after the step
LEMMA Deleting ==
  ASSUME OutboxInv, DeleteSettled
  PROVE  /\ Len(settlements) \in Nat /\ Deleted \in Seq(PendingRows)
         /\ settlements' \in Seq(SettlementRows)
         /\ Len(settlements') = Len(settlements) + Len(Deleted)
         /\ \A i \in 1 .. Len(settlements) :
              i \in 1 .. Len(settlements') /\ settlements'[i] = settlements[i]
         /\ \A j \in 1 .. Len(Deleted) :
              /\ Len(settlements) + j \in 1 .. Len(settlements')
              /\ settlements'[Len(settlements) + j] = Report(Deleted[j])
         /\ \A i \in 1 .. Len(settlements') :
              \/ i \in 1 .. Len(settlements)
              \/ \E j \in 1 .. Len(Deleted) : i = Len(settlements) + j
         /\ \A x : x \in Told' <=>
                    x \in Told \/ \E j \in 1 .. Len(Deleted) : Deleted[j].local = x
<1>0. PICK d, n : d = Deleted /\ n = Len(settlements)
  OBVIOUS
<1>1. d \in Seq(PendingRows) /\ settlements \in Seq(SettlementRows)
  BY <1>0, DeletedRows DEF OutboxInv, HistoryTypeInv
<1>2. PICK s, t, u :
        /\ s = settlements /\ u = settlements'
        /\ t = [i \in DOMAIN d |-> Report(d[i])]
  OBVIOUS
<1>3. u = s \o t
  BY <1>0, <1>2 DEF DeleteSettled, Report
<1>4. PICK k : k = Len(d) /\ k \in Nat /\ DOMAIN d = 1 .. k
  BY <1>1
<1>5. ASSUME NEW j \in 1 .. k
      PROVE  Report(d[j]) \in SettlementRows
  <2>1. PICK p : p = d[j] /\ p \in PendingRows
    BY <1>1, <1>4
  <2>2. Tag(p.id) \in Tags
    BY <1>0, <1>4, <2>1, DeletedTell
  <2> QED BY <2>1, <2>2 DEF PendingRows, SettlementRows, Report
<1>6. t \in Seq(SettlementRows) /\ Len(t) = k
  BY <1>2, <1>4, <1>5
<1>7. s \in Seq(SettlementRows) /\ n = Len(s)
  BY <1>0, <1>1, <1>2
<1>8. /\ u \in Seq(SettlementRows) /\ Len(u) = Len(s) + Len(t)
      /\ \A i \in 1 .. Len(s) : i \in 1 .. Len(u) /\ u[i] = s[i]
      /\ \A j \in 1 .. Len(t) : Len(s) + j \in 1 .. Len(u) /\ u[Len(s) + j] = t[j]
      /\ \A i \in 1 .. Len(u) :
           i \in 1 .. Len(s) \/ \E j \in 1 .. Len(t) : i = Len(s) + j
  <2>1. PICK S : S = SettlementRows
    OBVIOUS
  <2>2. s \in Seq(S) /\ t \in Seq(S)
    BY <1>6, <1>7, <2>1
  <2>3. Len(s) \in Nat /\ Len(t) \in Nat
    BY ONLY <2>2
  <2> QED BY ONLY <1>3, <2>1, <2>2, <2>3, Concatenated, SMTT(60)
<1>9. /\ Len(u) = n + k /\ \A i \in 1 .. n : i \in 1 .. Len(u) /\ u[i] = s[i]
      /\ \A j \in 1 .. k : n + j \in 1 .. Len(u) /\ u[n + j] = t[j]
      /\ \A i \in 1 .. Len(u) : i \in 1 .. n \/ \E j \in 1 .. k : i = n + j
  BY ONLY <1>6, <1>7, <1>8
<1>10. \A j \in 1 .. k : t[j] = Report(d[j])
  BY <1>2, <1>4
<1>11. /\ Told = {s[i].local : i \in 1 .. n} /\ Told' = {u[i].local : i \in 1 .. Len(u)}
  BY <1>2, <1>7 DEF Told
<1>12. ASSUME NEW j \in 1 .. k PROVE t[j].local = d[j].local
  <2>1. PICK p : p = d[j]
    OBVIOUS
  <2>2. t[j] = Report(p)
    BY <1>10, <2>1
  <2> QED BY <2>1, <2>2 DEF Report
<1>13. \A x : x \in Told' <=> x \in Told \/ \E j \in 1 .. k : d[j].local = x
  BY ONLY <1>9, <1>11, <1>12
<1>14. n \in Nat
  BY <1>7
<1>15. \A j \in 1 .. k : n + j \in 1 .. Len(u) /\ u[n + j] = Report(d[j])
  BY ONLY <1>9, <1>10
<1>16. u \in Seq(SettlementRows) /\ Len(u) = n + k
  BY <1>8, <1>9
<1>17. \A i \in 1 .. n : i \in 1 .. Len(u) /\ u[i] = s[i]
  BY ONLY <1>9
<1>18. \A i \in 1 .. Len(u) : i \in 1 .. n \/ \E j \in 1 .. k : i = n + j
  BY ONLY <1>9
<1>19. s = settlements /\ u = settlements' /\ n = Len(settlements) /\ d = Deleted /\ k = Len(Deleted)
  BY <1>0, <1>2, <1>4
<1> QED BY <1>1, <1>13, <1>14, <1>15, <1>16, <1>17, <1>18, <1>19

(* A settlement that is recorded stays in its receipt.                     *)
LEMMA DeletedReceipts ==
  ASSUME OutboxInv, DeleteSettled
  PROVE  /\ \A q \in receipts' :
              \E r \in receipts :
                \/ q = r /\ \A j \in 1 .. Len(Deleted) : Deleted[j].id # r.id
                \/ \E j \in 1 .. Len(Deleted) :
                     Deleted[j].id = r.id
                     /\ q = [r EXCEPT !.settled = Len(settlements) + j]
         /\ \A r \in receipts :
              (\A j \in 1 .. Len(Deleted) : Deleted[j].id # r.id) => r \in receipts'
         /\ \A r \in receipts : \A j \in 1 .. Len(Deleted) :
              Deleted[j].id = r.id => [r EXCEPT !.settled = Len(settlements) + j] \in receipts'
<1>1. PICK d, ids : d = Deleted /\ ids = {p.id : p \in ToSet(Deleted)}
  OBVIOUS
<1>2. d \in Seq(PendingRows)
  BY <1>1, DeletedRows
<1>3. \A m : m \in ids <=> \E j \in 1 .. Len(d) : d[j].id = m
  BY <1>1, <1>2 DEF ToSet
<1>4. receipts' = {IF r.id \in ids THEN [r EXCEPT !.settled = Number(r.id)] ELSE r : r \in receipts}
  BY <1>1 DEF DeleteSettled
<1>5. \A j \in 1 .. Len(d) : Number(d[j].id) = Len(settlements) + j
  BY <1>1, DeletedTell
<1>6. ASSUME NEW q \in receipts'
      PROVE  \E r \in receipts :
               \/ q = r /\ \A j \in 1 .. Len(d) : d[j].id # r.id
               \/ \E j \in 1 .. Len(d) :
                    d[j].id = r.id /\ q = [r EXCEPT !.settled = Len(settlements) + j]
  <2>1. PICK r \in receipts : q = IF r.id \in ids THEN [r EXCEPT !.settled = Number(r.id)] ELSE r
    BY <1>4
  <2>2. CASE r.id \in ids
    <3>1. PICK j \in 1 .. Len(d) : d[j].id = r.id
      BY <1>3, <2>2
    <3>2. q = [r EXCEPT !.settled = Len(settlements) + j]
      BY <1>5, <2>1, <2>2, <3>1
    <3> QED BY <3>1, <3>2
  <2>3. CASE r.id \notin ids
    BY <1>3, <2>1, <2>3
  <2> QED BY <2>2, <2>3
<1>7. ASSUME NEW r \in receipts, \A j \in 1 .. Len(d) : d[j].id # r.id PROVE r \in receipts'
  <2>1. r.id \notin ids
    BY <1>3, <1>7
  <2> QED BY <1>4, <2>1
<1>8. ASSUME NEW r \in receipts, NEW j \in 1 .. Len(d), d[j].id = r.id
      PROVE  [r EXCEPT !.settled = Len(settlements) + j] \in receipts'
  <2>1. r.id \in ids /\ Number(r.id) = Len(settlements) + j
    BY <1>3, <1>5, <1>8
  <2> QED BY <1>4, <2>1
<1> QED BY <1>1, <1>6, <1>7, <1>8

(* What is settled leaves the pending mutations and is reported, once.     *)
LEMMA DeleteStep ==
  ASSUME OutboxInv, DeleteSettled PROVE OutboxInv'
<1>1. PICK n, d : n = Len(settlements) /\ d = Deleted
  OBVIOUS
<1>2. /\ UNCHANGED <<decided, head, lapsed, reader, missed, retired, marks, nextLocal, committed>>
      /\ pending' = Remaining
      /\ WireKept /\ gate' = Free
  BY LeaveKeeps DEF DeleteSettled, Remaining, serverVars, appVars
<1>3. /\ n \in Nat /\ d \in Seq(PendingRows)
      /\ settlements' \in Seq(SettlementRows) /\ Len(settlements') = n + Len(d)
      /\ \A i \in 1 .. n : i \in 1 .. Len(settlements') /\ settlements'[i] = settlements[i]
      /\ \A j \in 1 .. Len(d) :
           /\ n + j \in 1 .. Len(settlements')
           /\ settlements'[n + j] = Report(d[j])
      /\ \A i \in 1 .. Len(settlements') : i \in 1 .. n \/ \E j \in 1 .. Len(d) : i = n + j
      /\ \A x : x \in Told' <=> x \in Told \/ \E j \in 1 .. Len(d) : d[j].local = x
  BY <1>1, Deleting
<1>4. /\ pending' \in Seq(PendingRows)
      /\ \A j \in 1 .. Len(pending') :
           pending'[j].id \notin gate.settling
           /\ \E i \in 1 .. Len(pending) : pending'[j] = pending[i]
      /\ \A i \in 1 .. Len(pending) :
           pending[i].id \notin gate.settling
             => \E j \in 1 .. Len(pending') : pending'[j] = pending[i]
      /\ \A j, l \in 1 .. Len(pending') : j < l => pending'[j].local < pending'[l].local
  BY <1>2, RemainingRows
<1>5. /\ \A q \in receipts' :
           \E r \in receipts :
             \/ q = r /\ \A j \in 1 .. Len(d) : d[j].id # r.id
             \/ \E j \in 1 .. Len(d) : d[j].id = r.id /\ q = [r EXCEPT !.settled = n + j]
      /\ \A r \in receipts : (\A j \in 1 .. Len(d) : d[j].id # r.id) => r \in receipts'
      /\ \A r \in receipts : \A j \in 1 .. Len(d) :
           d[j].id = r.id => [r EXCEPT !.settled = n + j] \in receipts'
  BY <1>1, DeletedReceipts
<1>6. \A j \in 1 .. Len(d) :
        /\ d[j].id \in gate.settling /\ NamesIt(d[j]) /\ d[j].local \notin Told
        /\ \E r \in receipts : r.id = d[j].id
        /\ \A r \in receipts : r.id = d[j].id => r.settled = 0 /\ r.local = d[j].local
  BY <1>1, DeletedRows, DeletedTell
<1>7. \A i \in 1 .. Len(pending) :
        pending[i].id \in gate.settling => \E j \in 1 .. Len(d) : d[j] = pending[i]
  BY <1>1, DeletedRows
<1>8. receipts \subseteq ReceiptRecords /\ Len(d) \in Nat
  BY <1>3 DEF OutboxInv, ClientTypeInv
<1>9. ServerTypeInv' /\ CommitInv' /\ DecisionInv'
  BY <1>2 DEF OutboxInv, ServerTypeInv, CommitInv, DecisionInv
<1>10. HistoryTypeInv'
  BY <1>2, <1>3 DEF OutboxInv, HistoryTypeInv
<1>11. ASSUME NEW q \in receipts'
       PROVE  /\ q \in ReceiptRecords /\ Truthful(q)'
              /\ q.settled <= Len(settlements') /\ (q.settled > 0 => q.local \in Told')
  <2>1. PICK r \in receipts :
          \/ q = r /\ \A j \in 1 .. Len(d) : d[j].id # r.id
          \/ \E j \in 1 .. Len(d) : d[j].id = r.id /\ q = [r EXCEPT !.settled = n + j]
    BY <1>5
  <2>2. /\ r \in ReceiptRecords /\ Truthful(r) /\ r.settled <= n
        /\ (r.settled > 0 => r.local \in Told) /\ r.settled \in Nat
    BY <1>1, <1>8 DEF OutboxInv, ReceiptInv, ReceiptRecords
  <2>3. CASE q = r
    <3>1. r.settled <= n + Len(d)
      BY ONLY <1>3, <1>8, <2>2
    <3> QED BY <1>2, <1>3, <2>2, <2>3, <3>1 DEF Truthful
  <2>4. ASSUME NEW j \in 1 .. Len(d), d[j].id = r.id, q = [r EXCEPT !.settled = n + j]
        PROVE  /\ q \in ReceiptRecords /\ Truthful(q)'
               /\ q.settled <= Len(settlements') /\ q.local \in Told'
    <3>1. r.local = d[j].local
      BY <1>6, <2>4
    <3>2. n + j \in Nat /\ n + j <= n + Len(d)
      BY ONLY <1>3, <1>8, j \in 1 .. Len(d)
    <3>3. /\ q \in ReceiptRecords /\ q.settled = n + j
          /\ q.id = r.id /\ q.local = r.local /\ q.tag = r.tag
      BY <2>2, <2>4, <3>2 DEF ReceiptRecords
    <3>4. Truthful(q)'
      BY <1>2, <2>2, <3>3 DEF Truthful
    <3> QED BY <1>3, <3>1, <3>2, <3>3, <3>4
  <2> QED BY <2>1, <2>3, <2>4
<1>12. ClientTypeInv'
  <2>1. receipts' \subseteq ReceiptRecords
    BY <1>11
  <2>2. TurnType(turn') /\ GateType(gate')
    BY <1>2 DEF WireKept, GateType, Free
  <2>3. /\ retired \subseteq RetiredRows /\ marks \in [MarkNames -> Nat] /\ reader \in Nat
    BY DEF OutboxInv, ClientTypeInv
  <2> QED BY <1>2, <1>4, <2>1, <2>2, <2>3 DEF ClientTypeInv
<1>13. ReceiptInv'
  BY <1>11 DEF ReceiptInv
<1>14. WireInv'
  BY <1>2 DEF WireKept, WireInv, NamesIt, Truthful
<1>15. SettlingInv'
  BY <1>2 DEF SettlingInv, Free
<1>16. PendingInv'
  <2>1. ASSUME NEW j \in 1 .. Len(pending')
        PROVE  NamesIt(pending'[j]) /\ pending'[j].local \notin Told'
    <3>1. PICK i \in 1 .. Len(pending) : pending'[j] = pending[i]
      BY <1>4
    <3>2. PICK p : p = pending[i]
      OBVIOUS
    <3>3. NamesIt(p) /\ p.local \notin Told /\ p.id \notin gate.settling
      BY <1>4, <3>1, <3>2 DEF OutboxInv, PendingInv
    <3>4. ASSUME NEW l \in 1 .. Len(d), d[l].local = p.local PROVE FALSE
      <4>1. PICK x : x = d[l]
        OBVIOUS
      <4>2. NamesIt(x) /\ x.id \in gate.settling /\ x.local = p.local
        BY <1>6, <3>4, <4>1
      <4>3. x.id = p.id
        BY <3>3, <4>2, OneSequence
      <4> QED BY <3>3, <4>2, <4>3
    <3>5. p.local \notin Told'
      BY <1>3, <3>3, <3>4
    <3> QED BY <3>1, <3>2, <3>3, <3>5
  <2> QED BY <1>2, <1>4, <2>1 DEF PendingInv, NamesIt
<1>17. SettlementInv'
  <2>1. ASSUME NEW i \in 1 .. n PROVE NamesIt(settlements'[i])
    BY <1>1, <1>3, <2>1 DEF OutboxInv, SettlementInv
  <2>2. ASSUME NEW j \in 1 .. Len(d) PROVE NamesIt(settlements'[n + j])
    <3>1. PICK s : s = settlements'[n + j]
      OBVIOUS
    <3>2. s = Report(d[j])
      BY <1>3, <3>1
    <3>3. s.id = d[j].id /\ s.local = d[j].local
      BY ONLY <3>2 DEF Report
    <3> QED BY <1>6, <3>1, <3>3 DEF NamesIt
  <2>3. ASSUME NEW i \in 1 .. Len(settlements') PROVE NamesIt(settlements'[i])
    BY <1>3, <2>1, <2>2
  <2> QED BY <1>2, <2>3 DEF SettlementInv, NamesIt
<1>18. RecordInv'
  <2>1. SUFFICES ASSUME NEW i \in 1 .. Len(committed), i >= nextLocal - RetainedMutationIds
                 PROVE  \/ \E j \in 1 .. Len(pending') : pending'[j].local = i
                        \/ \E r \in receipts' : r.local = i
                        \/ [id |-> committed[i], local |-> i] \in retired
    BY <1>2 DEF RecordInv
  <2>2. \/ \E j \in 1 .. Len(pending) : pending[j].local = i
        \/ \E r \in receipts : r.local = i
        \/ [id |-> committed[i], local |-> i] \in retired
    BY <2>1 DEF OutboxInv, RecordInv
  <2>3. ASSUME NEW r \in receipts, r.local = i PROVE \E q \in receipts' : q.local = i
    <3>1. CASE \A j \in 1 .. Len(d) : d[j].id # r.id
      BY <1>5, <2>3, <3>1
    <3>2. ASSUME NEW j \in 1 .. Len(d), d[j].id = r.id PROVE \E q \in receipts' : q.local = i
      <4>1. PICK q : q = [r EXCEPT !.settled = n + j]
        OBVIOUS
      <4>2. q \in receipts' /\ r \in ReceiptRecords
        BY <1>5, <1>8, <3>2, <4>1
      <4>3. q.local = i
        BY <2>3, <4>1, <4>2 DEF ReceiptRecords
      <4> QED BY <4>2, <4>3
    <3> QED BY <3>1, <3>2
  <2>4. ASSUME NEW j \in 1 .. Len(pending), pending[j].local = i
        PROVE  \/ \E l \in 1 .. Len(pending') : pending'[l].local = i
               \/ \E r \in receipts' : r.local = i
    <3>1. CASE pending[j].id \notin gate.settling
      BY <1>4, <2>4, <3>1
    <3>2. CASE pending[j].id \in gate.settling
      <4>1. PICK l \in 1 .. Len(d) : d[l] = pending[j]
        BY <1>7, <3>2
      <4>2. PICK r \in receipts : r.id = d[l].id
        BY <1>6
      <4>3. r.local = i
        BY <1>6, <2>4, <4>1, <4>2
      <4> QED BY <2>3, <4>3
    <3> QED BY <3>1, <3>2
  <2> QED BY <2>2, <2>3, <2>4
<1>19. MarkInv'
  <2>1. ASSUME NEW i \in 1 .. n
        PROVE  \/ \E r \in receipts' : r.settled = i /\ r.id = settlements'[i].id
               \/ i <= marks[None] /\ i <= marks[NameOf[settlements'[i].id]]
    <3>1. settlements'[i] = settlements[i] /\ i > 0
      BY <1>3
    <3>2. \/ \E r \in receipts : r.settled = i /\ r.id = settlements[i].id
          \/ i <= marks[None] /\ i <= marks[NameOf[settlements[i].id]]
      BY <1>1 DEF OutboxInv, MarkInv
    <3>3. ASSUME NEW r \in receipts, r.settled = i, r.id = settlements[i].id
          PROVE  r \in receipts'
      <4>1. \A j \in 1 .. Len(d) : d[j].id # r.id
        BY <1>6, <3>1, <3>3
      <4> QED BY <1>5, <4>1
    <3> QED BY <3>1, <3>2, <3>3
  <2>2. ASSUME NEW j \in 1 .. Len(d)
        PROVE  \E r \in receipts' : r.settled = n + j /\ r.id = settlements'[n + j].id
    <3>1. PICK r \in receipts : r.id = d[j].id
      BY <1>6
    <3>2. PICK q : q = [r EXCEPT !.settled = n + j]
      OBVIOUS
    <3>3. q \in receipts' /\ r \in ReceiptRecords
      BY <1>5, <1>8, <3>1, <3>2
    <3>4. q.settled = n + j /\ q.id = d[j].id
      BY <3>1, <3>2, <3>3 DEF ReceiptRecords
    <3>5. PICK s : s = settlements'[n + j]
      OBVIOUS
    <3>7. s = Report(d[j])
      BY <1>3, <3>5
    <3>6. s.id = d[j].id
      BY ONLY <3>7 DEF Report
    <3> QED BY <3>3, <3>4, <3>5, <3>6
  <2>3. ~ missed'
    BY <1>2 DEF OutboxInv, MarkInv
  <2>4. ASSUME NEW i \in 1 .. Len(settlements')
        PROVE  \/ \E r \in receipts' : r.settled = i /\ r.id = settlements'[i].id
               \/ i <= marks[None] /\ i <= marks[NameOf[settlements'[i].id]]
    <3>1. CASE i \in 1 .. n
      BY <2>1, <3>1
    <3>2. CASE \E j \in 1 .. Len(d) : i = n + j
      BY <2>2, <3>2
    <3> QED BY <1>3, <3>1, <3>2
  <2> QED BY <1>2, <2>3, <2>4 DEF MarkInv
<1> QED BY <1>9, <1>10, <1>12, <1>13, <1>14, <1>15, <1>16, <1>17, <1>18, <1>19 DEF OutboxInv

LEMMA Appended ==
  ASSUME NEW S, NEW s \in Seq(S), NEW e \in S
  PROVE  /\ Append(s, e) \in Seq(S) /\ Len(Append(s, e)) = Len(s) + 1
         /\ \A i \in 1 .. Len(s) : i \in 1 .. Len(s) + 1 /\ Append(s, e)[i] = s[i]
         /\ Len(s) + 1 \in 1 .. Len(s) + 1 /\ Append(s, e)[Len(s) + 1] = e
         /\ \A i \in 1 .. Len(s) + 1 : i \in 1 .. Len(s) \/ i = Len(s) + 1
<1>1. PICK n : n = Len(s) /\ n \in Nat
  OBVIOUS
<1>2. /\ n + 1 \in 1 .. n + 1
      /\ \A i \in 1 .. n : i \in 1 .. n + 1
      /\ \A i \in 1 .. n + 1 : i \in 1 .. n \/ i = n + 1
  BY ONLY <1>1
<1>3. \A i \in 1 .. n : Append(s, e)[i] = s[i]
  BY <1>1, <1>2
<1> QED BY <1>1, <1>2, <1>3

(* An identity that the store is given again is remembered, and what is    *)
(* remembered is refused: whatever was committed under it is pending, in a *)
(* receipt, or retired.                                                    *)
LEMMA Unrecorded ==
  ASSUME OutboxInv, NEW m \in Mutations, Mutate(m)
  PROVE  \A i \in 1 .. Len(committed) : committed[i] # m
<1>1. SUFFICES ASSUME NEW l \in 1 .. Len(committed), committed[l] = m PROVE FALSE
  OBVIOUS
<1>2. committed \in Seq(Mutations) /\ pending \in Seq(PendingRows)
  BY DEF OutboxInv, HistoryTypeInv, ClientTypeInv
<1>3. m \in ToSet(committed)
  BY <1>1, <1>2 DEF ToSet
<1>4. PICK i \in 1 .. Len(committed) :
        committed[i] = m /\ i >= nextLocal - RetainedMutationIds
  BY <1>2, <1>3 DEF Mutate, Remembered
<1>5. \/ \E j \in 1 .. Len(pending) : pending[j].local = i
      \/ \E r \in receipts : r.local = i
      \/ [id |-> committed[i], local |-> i] \in retired
  BY <1>4 DEF OutboxInv, RecordInv
<1>6. ~ Recorded(m)
  BY DEF Mutate
<1>7. ASSUME NEW j \in 1 .. Len(pending), pending[j].local = i PROVE FALSE
  <2>1. pending[j].id = m /\ pending[j] \in ToSet(pending)
    BY <1>2, <1>4, <1>7 DEF OutboxInv, PendingInv, NamesIt, ToSet
  <2> QED BY <1>6, <2>1 DEF Recorded, PendingIds
<1>8. ASSUME NEW r \in receipts, r.local = i PROVE FALSE
  <2>1. r.local \in 1 .. Len(decided) /\ decided[r.local].id = r.id
    BY DEF OutboxInv, ReceiptInv, Truthful
  <2>2. r.id = m
    BY <1>4, <1>8, <2>1 DEF OutboxInv, DecisionInv
  <2> QED BY <1>6, <2>2 DEF Recorded, ReceiptsOf
<1>9. ASSUME [id |-> committed[i], local |-> i] \in retired PROVE FALSE
  <2>1. \A x \in retired : x.id # m
    BY <1>6 DEF Recorded
  <2>2. PICK x : x = [id |-> committed[i], local |-> i]
    OBVIOUS
  <2>3. x.id = m /\ x \in retired
    BY <1>4, <1>9, <2>2
  <2> QED BY <2>1, <2>3
<1> QED BY <1>5, <1>7, <1>8, <1>9

LEMMA MutateStep ==
  ASSUME OutboxInv, NEW m \in Mutations, Mutate(m)
  PROVE  OutboxInv' /\ Outbox!Commit(m)
<1>1. PICK n, k, row :
        /\ n = Len(committed) /\ k = Len(pending)
        /\ row = [id |-> m, local |-> nextLocal, state |-> "Queued", writes |-> Writes(m, visible)]
  OBVIOUS
<1>2. /\ committed' = Append(committed, m) /\ pending' = Append(pending, row)
      /\ nextLocal' = nextLocal + 1
      /\ UNCHANGED <<decided, head, lapsed, reader, missed, receipts, retired, marks,
                     settlements, turn, gate>>
      /\ gate = Free
  BY <1>1 DEF Mutate, serverVars, appVars, receiptVars
<1>3. /\ committed \in Seq(Mutations) /\ pending \in Seq(PendingRows) /\ nextLocal = n + 1
      /\ n \in Nat /\ k \in Nat
  BY <1>1 DEF OutboxInv, HistoryTypeInv, ClientTypeInv
<1>4. row \in PendingRows /\ row.local = n + 1 /\ row.id = m
  <2>1. KeyOf[m] \in Keys
    BY LocalStoreAssumption
  <2>2. Writes(m, visible) \in SUBSET Keys
    BY <2>1 DEF Writes
  <2>3. nextLocal \in Nat
    BY <1>3
  <2> QED BY <1>1, <1>3, <2>2, <2>3 DEF PendingRows, States
<1>5. /\ committed' \in Seq(Mutations) /\ Len(committed') = n + 1
      /\ \A i \in 1 .. n : i \in 1 .. n + 1 /\ committed'[i] = committed[i]
      /\ n + 1 \in 1 .. n + 1 /\ committed'[n + 1] = m
      /\ \A i \in 1 .. n + 1 : i \in 1 .. n \/ i = n + 1
  BY <1>1, <1>2, <1>3, Appended
<1>6. /\ pending' \in Seq(PendingRows) /\ Len(pending') = k + 1
      /\ \A i \in 1 .. k : i \in 1 .. k + 1 /\ pending'[i] = pending[i]
      /\ k + 1 \in 1 .. k + 1 /\ pending'[k + 1] = row
      /\ \A i \in 1 .. k + 1 : i \in 1 .. k \/ i = k + 1
  BY <1>1, <1>2, <1>3, <1>4, Appended
<1>7. \A i \in 1 .. n : committed[i] # m
  BY <1>1, Unrecorded
<1>10. ServerTypeInv' /\ HistoryTypeInv'
  BY <1>2, <1>3, <1>5 DEF OutboxInv, ServerTypeInv, HistoryTypeInv
<1>11. ClientTypeInv'
  BY <1>2, <1>6 DEF OutboxInv, ClientTypeInv
<1>12. CommitInv'
  <2>1. \A i, j \in 1 .. n : committed[i] = committed[j] => i = j
    BY <1>1 DEF OutboxInv, CommitInv
  <2> QED BY <1>5, <1>7, <2>1 DEF CommitInv
<1>13. DecisionInv'
  <2>1. Len(decided) <= n /\ decided \in Seq(DecisionRows)
    BY <1>1 DEF OutboxInv, DecisionInv, ServerTypeInv
  <2>2. PICK l : l = Len(decided) /\ l \in Nat
    BY <2>1
  <2>3. l <= n + 1 /\ \A i \in 1 .. l : i \in 1 .. n
    BY ONLY <1>3, <2>1, <2>2
  <2> QED BY <1>1, <1>2, <1>5, <2>2, <2>3 DEF OutboxInv, DecisionInv
<1>14. \A x \in Told : x \in 1 .. n
  BY <1>1 DEF Told, OutboxInv, SettlementInv, NamesIt
<1>15. PendingInv'
  <2>1. Told' = Told
    BY <1>2 DEF Told
  <2>2. \A i \in 1 .. k : NamesIt(pending[i]) /\ pending[i].local \in 1 .. n
                          /\ pending[i].local \notin Told
    BY <1>1 DEF OutboxInv, PendingInv, NamesIt
  <2>3. \A i, j \in 1 .. k : i < j => pending[i].local < pending[j].local
    BY <1>1 DEF OutboxInv, PendingInv
  <2>4. row.local \notin Told
    <3>1. n + 1 \notin 1 .. n
      BY ONLY <1>3
    <3> QED BY <1>4, <1>14, <3>1
  <2>5. ASSUME NEW i \in 1 .. k + 1 PROVE pending'[i].local \notin Told
    BY <1>4, <1>6, <2>2, <2>4
  <2>6. ASSUME NEW i \in 1 .. k + 1, NEW j \in 1 .. k + 1, i < j
        PROVE  pending'[i].local < pending'[j].local
    <3>1. i \in 1 .. k
      BY ONLY <1>3, i \in 1 .. k + 1, j \in 1 .. k + 1, i < j
    <3>2. CASE j \in 1 .. k
      BY <1>6, <2>3, <2>6, <3>1, <3>2
    <3>3. CASE j = k + 1
      <4>1. PICK a : a = pending[i].local
        OBVIOUS
      <4>2. a \in 1 .. n
        BY <2>2, <3>1, <4>1
      <4>3. a < n + 1
        BY ONLY <1>3, <4>2
      <4> QED BY <1>4, <1>6, <3>1, <3>3, <4>1, <4>3
    <3> QED BY <1>6, <3>2, <3>3
  <2>7. \A i \in 1 .. k + 1 : pending'[i].local \in 1 .. n + 1
                              /\ committed'[pending'[i].local] = pending'[i].id
    <3>1. \A i \in 1 .. k : pending[i].local \in 1 .. n
                            /\ committed[pending[i].local] = pending[i].id
      BY <1>1, <2>2 DEF NamesIt
    <3> QED BY <1>4, <1>5, <1>6, <3>1
  <2> QED BY <1>5, <1>6, <2>1, <2>5, <2>6, <2>7 DEF PendingInv, NamesIt
<1>16. SettlementInv' /\ WireInv' /\ ReceiptInv'
  <2>1. Told' = Told
    BY <1>2 DEF Told
  <2>2. SettlementInv'
    BY <1>1, <1>2, <1>5 DEF OutboxInv, SettlementInv, NamesIt
  <2>3. WireInv'
    BY <1>1, <1>2, <1>5 DEF OutboxInv, WireInv, NamesIt, Truthful
  <2>4. ReceiptInv'
    BY <1>2, <2>1 DEF OutboxInv, ReceiptInv, Truthful
  <2> QED BY <2>2, <2>3, <2>4
<1>17. SettlingInv'
  BY <1>2 DEF SettlingInv, Free
<1>18. RecordInv'
  <2>1. ASSUME NEW i \in 1 .. n, i >= nextLocal' - RetainedMutationIds
        PROVE  \/ \E j \in 1 .. Len(pending') : pending'[j].local = i
               \/ \E r \in receipts' : r.local = i
               \/ [id |-> committed'[i], local |-> i] \in retired'
    <3>1. PICK w : w = RetainedMutationIds /\ w \in Nat
      BY LocalStoreAssumption
    <3>2. i >= nextLocal - RetainedMutationIds
      <4>1. i >= n + 1 + 1 - w
        BY <1>2, <1>3, <2>1, <3>1
      <4>2. i >= n + 1 - w
        BY ONLY <1>3, <3>1, <4>1, i \in 1 .. n
      <4> QED BY <1>3, <3>1, <4>2
    <3>3. \/ \E j \in 1 .. k : pending[j].local = i
          \/ \E r \in receipts : r.local = i
          \/ [id |-> committed[i], local |-> i] \in retired
      BY <1>1, <3>2 DEF OutboxInv, RecordInv
    <3>4. ASSUME NEW j \in 1 .. k, pending[j].local = i
          PROVE  \E l \in 1 .. Len(pending') : pending'[l].local = i
      BY <1>6, <3>4
    <3> QED BY <1>2, <1>5, <3>3, <3>4
  <2>2. \E j \in 1 .. Len(pending') : pending'[j].local = n + 1
    BY <1>4, <1>6
  <2> QED BY <1>5, <2>1, <2>2 DEF RecordInv
<1>19. MarkInv'
  BY <1>2 DEF OutboxInv, MarkInv
<1>20. Outbox!Commit(m)
  <2>1. \A i \in DOMAIN committed : committed[i] # m
    BY <1>1, <1>3, <1>7
  <2>2. UNCHANGED <<[i \in DOMAIN decided |-> [id |-> decided[i].id, tag |-> decided[i].tag]],
                    settlements>>
    BY <1>2
  <2> QED BY <1>2, <2>1, <2>2 DEF Outbox!Commit
<1> QED BY <1>10, <1>11, <1>12, <1>13, <1>15, <1>16, <1>17, <1>18, <1>19, <1>20 DEF OutboxInv

\* the answer the server gives to the next of the batch
Asked == turn.batch[Len(turn.answers) + 1]

LEMMA NextOfBatch ==
  ASSUME OutboxInv, ServerAnswers
  PROVE  Asked \in PendingRows /\ NamesIt(Asked)
<1>1. /\ turn.batch \in Seq(PendingRows) /\ turn.answers \in Seq(AnswerRows)
      /\ \A i \in 1 .. Len(turn.batch) : NamesIt(turn.batch[i])
  BY DEF OutboxInv, ClientTypeInv, TurnType, WireInv
<1>2. PICK a, b : a = Len(turn.answers) /\ b = Len(turn.batch)
  OBVIOUS
<1>3. a \in Nat /\ b \in Nat /\ a < b
  <2>1. Len(turn.answers) < Len(turn.batch)
    BY ONLY ServerAnswers, Zenon DEF ServerAnswers
  <2> QED BY ONLY <1>1, <1>2, <2>1
<1>4. a + 1 \in 1 .. b
  BY ONLY <1>3
<1> QED BY <1>1, <1>2, <1>4 DEF Asked

\* one more answer
LEMMA Answered ==
  ASSUME OutboxInv, NEW r, turn' = [turn EXCEPT !.answers = Append(@, r)],
         r \in AnswerRows
  PROVE  /\ TurnType(turn') /\ turn'.batch = turn.batch
         /\ \A i \in 1 .. Len(turn'.answers) :
              \/ turn'.answers[i] = r
              \/ i \in 1 .. Len(turn.answers) /\ turn'.answers[i] = turn.answers[i]
<1>1. PICK t, s : t = turn /\ s = turn.answers
  OBVIOUS
<1>2. Wired(t, turn.batch, s) /\ s \in Seq(AnswerRows) /\ turn.batch \in Seq(PendingRows)
  BY <1>1 DEF Wired, OutboxInv, ClientTypeInv, TurnType
<1>3. PICK u : u = Append(s, r)
  OBVIOUS
<1>4. PICK t1 : t1 = [t EXCEPT !.answers = u]
  OBVIOUS
<1>5. Wired(t1, turn.batch, u)
  BY ONLY <1>2, <1>4, AnswersField
<1>6. turn' = t1
  BY <1>1, <1>3, <1>4
<1>7. TurnShape(turn') /\ turn'.batch = turn.batch /\ turn'.answers = u
  BY <1>5, <1>6 DEF Wired
<1>8. /\ u \in Seq(AnswerRows) /\ Len(u) = Len(s) + 1
      /\ \A i \in 1 .. Len(s) : u[i] = s[i]
      /\ u[Len(s) + 1] = r
      /\ \A i \in 1 .. Len(s) + 1 : i \in 1 .. Len(s) \/ i = Len(s) + 1
  BY <1>2, <1>3, Appended
<1>9. TurnType(turn')
  BY <1>2, <1>7, <1>8 DEF TurnType
<1> QED BY <1>1, <1>7, <1>8, <1>9

Answers(r) == turn' = [turn EXCEPT !.answers = Append(@, r)]

LEMMA AnswerCases ==
  ASSUME ServerAnswers, NEW p, p = Asked
  PROVE  \/ /\ p.local = Len(decided) + 1 /\ head' \in {head, head + 1}
            /\ \E tag \in {"Accepted", "Rejected"}, at \in {0, head + 1} :
                 /\ decided' = Append(decided, [id |-> p.id, tag |-> tag, at |-> at])
                 /\ Answers(Receipt(p, tag, at, 0))
         \/ /\ p.local <= lapsed.through /\ UNCHANGED <<head, decided>>
            /\ Answers(Receipt(p, "Expired", lapsed.sequence, lapsed.through))
         \/ /\ p.local \in lapsed.through + 1 .. Len(decided) /\ UNCHANGED <<head, decided>>
            /\ Answers(Receipt(p, decided[p.local].tag, decided[p.local].at, 0))
         \/ turn' = Idle /\ UNCHANGED <<head, decided>>
<1> DEFINE ready(tag, at) ==
             /\ decided' = Append(decided, [id |-> p.id, tag |-> tag, at |-> at])
             /\ Answers(Receipt(p, tag, at, 0))
<1>1. \/ /\ p.local = Len(decided) + 1
         /\ \/ ready("Rejected", 0) /\ head' = head
            \/ ready("Accepted", head + 1) /\ head' = head + 1
      \/ /\ p.local <= lapsed.through /\ UNCHANGED <<head, decided>>
         /\ Answers(Receipt(p, "Expired", lapsed.sequence, lapsed.through))
      \/ /\ p.local \in lapsed.through + 1 .. Len(decided) /\ UNCHANGED <<head, decided>>
         /\ Answers(Receipt(p, decided[p.local].tag, decided[p.local].at, 0))
      \/ turn' = Idle /\ UNCHANGED <<head, decided>>
  BY DEF ServerAnswers, Asked, Answers, Halt
<1> QED BY <1>1

LEMMA WireAnswered ==
  ASSUME OutboxInv, NEW r \in AnswerRows, Answers(r)
  PROVE  /\ TurnType(turn')
         /\ \A i \in 1 .. Len(turn'.batch) : NamesIt(turn'.batch[i])
         /\ \A i \in 1 .. Len(turn'.answers) :
              turn'.answers[i] = r \/ Truthful(turn'.answers[i])
<1>1. turn' = [turn EXCEPT !.answers = Append(@, r)]
  BY DEF Answers
<1>2. /\ TurnType(turn') /\ turn'.batch = turn.batch
      /\ \A i \in 1 .. Len(turn'.answers) :
           \/ turn'.answers[i] = r
           \/ i \in 1 .. Len(turn.answers) /\ turn'.answers[i] = turn.answers[i]
  BY <1>1, Answered
<1>3. /\ \A i \in 1 .. Len(turn.batch) : NamesIt(turn.batch[i])
      /\ \A i \in 1 .. Len(turn.answers) : Truthful(turn.answers[i])
  BY DEF OutboxInv, WireInv
<1> QED BY <1>2, <1>3

LEMMA ReceiptRow ==
  ASSUME NEW p \in PendingRows, NEW tag \in Tags, NEW at \in Nat, NEW through \in Nat,
         NEW r, r = Receipt(p, tag, at, through)
  PROVE  r \in AnswerRows /\ r.id = p.id /\ r.local = p.local /\ r.tag = tag
  BY DEF PendingRows, AnswerRows, Receipt

(* What the server has decided already it answers as it decided, or as     *)
(* expired.                                                                *)
LEMMA RepeatStep ==
  ASSUME OutboxInv, ServerAnswers, NEW p \in PendingRows, NamesIt(p),
         NEW tag \in Tags, NEW at \in Nat, NEW through \in Nat,
         Answers(Receipt(p, tag, at, through)),
         p.local \in 1 .. Len(decided), tag \in {decided[p.local].tag, "Expired"},
         UNCHANGED <<head, decided>>
  PROVE  Steady
<1>1. UNCHANGED <<lapsed, receiptVars, appVars, pending, nextLocal, gate, committed, settlements>>
  BY ONLY ServerAnswers, Zenon DEF ServerAnswers
<1>2. PICK r : r = Receipt(p, tag, at, through)
  OBVIOUS
<1>3. r \in AnswerRows /\ r.id = p.id /\ r.local = p.local /\ r.tag = tag
  BY <1>2, ReceiptRow
<1>4. Truthful(r)
  BY <1>3 DEF OutboxInv, DecisionInv, NamesIt, Truthful
<1>5. WireKept
  BY <1>2, <1>3, <1>4, WireAnswered DEF WireKept
<1>6. ServerKept
  BY <1>1 DEF ServerKept, OutboxInv, ServerTypeInv
<1>7. ReceiptsKept
  BY <1>1, ReceiptsUnchanged
<1>8. GateKept
  BY <1>1, <1>7, Unchanged
<1> QED BY <1>1, <1>5, <1>6, <1>7, <1>8, RowsUnchanged, Unchanged DEF Steady

(* The server decides the next mutation in the order of their commits.     *)
LEMMA DecideStep ==
  ASSUME OutboxInv, ServerAnswers, NEW p \in PendingRows, NamesIt(p),
         NEW tag \in {"Accepted", "Rejected"}, NEW at \in Nat,
         p.local = Len(decided) + 1, head' \in Nat,
         decided' = Append(decided, [id |-> p.id, tag |-> tag, at |-> at]),
         Answers(Receipt(p, tag, at, 0))
  PROVE  OutboxInv' /\ Outbox!Decide(tag)
<1>1. /\ UNCHANGED <<lapsed, receiptVars, appVars, pending, nextLocal, gate, committed, settlements>>
      /\ UNCHANGED <<receipts, retired, marks, reader, missed>>
  <2>1. UNCHANGED <<lapsed, receiptVars, appVars, pending, nextLocal, gate, committed, settlements>>
    BY ONLY ServerAnswers, Zenon DEF ServerAnswers
  <2> QED BY ONLY <2>1 DEF receiptVars, appVars
<1>2. PICK n, e : n = Len(decided) /\ e = [id |-> p.id, tag |-> tag, at |-> at]
  OBVIOUS
<1>3. e \in DecisionRows /\ decided \in Seq(DecisionRows) /\ n \in Nat
  BY <1>2 DEF PendingRows, DecisionRows, OutboxInv, ServerTypeInv
<1>4. /\ decided' \in Seq(DecisionRows) /\ Len(decided') = n + 1
      /\ \A i \in 1 .. n : i \in 1 .. n + 1 /\ decided'[i] = decided[i]
      /\ n + 1 \in 1 .. n + 1 /\ decided'[n + 1] = e
      /\ \A i \in 1 .. n + 1 : i \in 1 .. n \/ i = n + 1
  <2>1. PICK l : l = decided
    OBVIOUS
  <2>2. /\ Append(l, e) \in Seq(DecisionRows) /\ Len(Append(l, e)) = Len(l) + 1
        /\ \A i \in 1 .. Len(l) : i \in 1 .. Len(l) + 1 /\ Append(l, e)[i] = l[i]
        /\ Len(l) + 1 \in 1 .. Len(l) + 1 /\ Append(l, e)[Len(l) + 1] = e
        /\ \A i \in 1 .. Len(l) + 1 : i \in 1 .. Len(l) \/ i = Len(l) + 1
    BY <1>3, <2>1, Appended
  <2>3. decided' = Append(l, e) /\ n = Len(l)
    BY <1>2, <2>1
  <2> QED BY ONLY <2>1, <2>2, <2>3
<1>5. \A r : Truthful(r) => Truthful(r)'
  BY <1>2, <1>4 DEF Truthful
<1>6. n + 1 \in 1 .. Len(committed) /\ committed[n + 1] = p.id
  BY <1>2 DEF NamesIt
<1>7. ServerTypeInv'
  <2>1. lapsed \in [through : Nat, sequence : Nat] /\ lapsed.through <= n
    BY <1>2 DEF OutboxInv, ServerTypeInv
  <2>2. lapsed.through <= n + 1
    BY ONLY <1>3, <2>1
  <2> QED BY <1>1, <1>4, <2>1, <2>2 DEF ServerTypeInv
<1>8. PICK r : r = Receipt(p, tag, at, 0)
  OBVIOUS
<1>9. r \in AnswerRows /\ r.id = p.id /\ r.local = n + 1 /\ r.tag = tag
  <2>1. tag \in Tags /\ 0 \in Nat
    BY DEF Tags
  <2> QED BY <1>2, <1>8, <2>1, ReceiptRow
<1>10. Truthful(r)'
  BY <1>2, <1>4, <1>9 DEF Truthful
<1>11. /\ TurnType(turn')
       /\ \A i \in 1 .. Len(turn'.batch) : NamesIt(turn'.batch[i])
       /\ \A i \in 1 .. Len(turn'.answers) : turn'.answers[i] = r \/ Truthful(turn'.answers[i])
  BY <1>8, <1>9, WireAnswered
<1>12. ClientTypeInv'
  BY <1>1, <1>11 DEF OutboxInv, ClientTypeInv
<1>13. HistoryTypeInv' /\ CommitInv' /\ PendingInv' /\ SettlementInv' /\ SettlingInv'
       /\ RecordInv' /\ MarkInv'
  <2>1. HistoryTypeInv' /\ CommitInv'
    BY <1>1 DEF OutboxInv, HistoryTypeInv, CommitInv
  <2>2. PendingInv' /\ SettlementInv'
    BY <1>1 DEF OutboxInv, PendingInv, SettlementInv, NamesIt, Told
  <2>3. SettlingInv'
    BY <1>1 DEF OutboxInv, SettlingInv, Told
  <2>4. RecordInv'
    BY <1>1 DEF OutboxInv, RecordInv
  <2>5. MarkInv'
    BY <1>1 DEF OutboxInv, MarkInv, Told
  <2> QED BY <2>1, <2>2, <2>3, <2>4, <2>5
<1>14. DecisionInv'
  <2>1. n + 1 <= Len(committed)
    BY ONLY <1>3, <1>6
  <2>2. \A i \in 1 .. n : decided[i].id = committed[i]
    BY <1>2 DEF OutboxInv, DecisionInv
  <2>3. decided'[n + 1].id = committed[n + 1]
    BY <1>2, <1>4, <1>6
  <2> QED BY <1>1, <1>4, <2>1, <2>2, <2>3 DEF DecisionInv
<1>15. WireInv'
  <2>1. \A i \in 1 .. Len(turn'.batch) : NamesIt(turn'.batch[i])
    BY <1>11
  <2>2. \A i \in 1 .. Len(turn'.answers) :
          LET a == turn'.answers[i]
          IN  /\ a.local \in 1 .. Len(decided') /\ decided'[a.local].id = a.id
              /\ a.tag \in {decided'[a.local].tag, "Expired"}
    BY <1>5, <1>10, <1>11 DEF Truthful
  <2> QED BY <1>1, <2>1, <2>2 DEF WireInv, NamesIt, Truthful
<1>16. ReceiptInv'
  BY <1>1, <1>5 DEF OutboxInv, ReceiptInv, Told
<1>17. Outbox!Decide(tag)
  <2>1. PICK old, new :
          /\ old = [i \in DOMAIN decided |-> [id |-> decided[i].id, tag |-> decided[i].tag]]
          /\ new = [i \in DOMAIN decided' |-> [id |-> decided'[i].id, tag |-> decided'[i].tag]]
    OBVIOUS
  <2>2. DOMAIN decided = 1 .. n /\ DOMAIN decided' = 1 .. n + 1
    BY <1>2, <1>3, <1>4
  <2>3. Len(old) = n /\ old = [i \in 1 .. n |-> old[i]]
    BY <1>3, <2>1, <2>2
  <2>4. new = [i \in 1 .. n + 1 |-> new[i]]
    BY <2>1, <2>2
  <2>5. \A i \in 1 .. n : new[i] = old[i]
    BY <1>4, <2>1, <2>2
  <2>6. new[n + 1] = [id |-> committed[n + 1], tag |-> tag]
    BY <1>2, <1>4, <1>6, <2>1, <2>2
  <2>7. PICK x : x = [id |-> committed[n + 1], tag |-> tag]
    OBVIOUS
  <2>8. new = Append(old, x)
    <3>1. new[n + 1] = x
      BY <2>6, <2>7
    <3>2. PICK S : S = {old[i] : i \in 1 .. n} \cup {x}
      OBVIOUS
    <3>3. old \in Seq(S) /\ x \in S
      BY <1>3, <2>3, <3>2
    <3>4. PICK w : w = Append(old, x)
      OBVIOUS
    <3>5. /\ w \in Seq(S) /\ Len(w) = n + 1
          /\ \A i \in 1 .. n : w[i] = old[i]
          /\ w[n + 1] = x
      <4>1. Len(old) = n
        BY <2>3
      <4>2. /\ Append(old, x) \in Seq(S) /\ Len(Append(old, x)) = Len(old) + 1
            /\ \A i \in 1 .. Len(old) : Append(old, x)[i] = old[i]
            /\ Append(old, x)[Len(old) + 1] = x
        BY ONLY <3>3, Appended
      <4> QED BY <3>4, <4>1, <4>2
    <3>6. w = [i \in 1 .. n + 1 |-> w[i]]
      BY <3>5
    <3>7. \A i \in 1 .. n + 1 : w[i] = new[i]
      BY <1>4, <2>5, <3>1, <3>5
    <3> QED BY <2>4, <3>4, <3>6, <3>7
  <2>9. n < Len(committed)
    BY ONLY <1>3, <1>6
  <2> QED BY <1>1, <2>1, <2>3, <2>7, <2>8, <2>9 DEF Outbox!Decide
<1> QED BY <1>7, <1>12, <1>13, <1>14, <1>15, <1>16, <1>17 DEF OutboxInv

LEMMA ServerStep ==
  ASSUME OutboxInv, ServerAnswers
  PROVE  \/ Steady
         \/ OutboxInv' /\ \E tag \in {"Accepted", "Rejected"} : Outbox!Decide(tag)
<1>1. PICK p : p = Asked
  OBVIOUS
<1>2. p \in PendingRows /\ NamesIt(p) /\ p.local \in Nat
  BY <1>1, NextOfBatch DEF PendingRows
<1>3. /\ head \in Nat /\ decided \in Seq(DecisionRows) /\ Len(decided) \in Nat
      /\ lapsed \in [through : Nat, sequence : Nat] /\ lapsed.through <= Len(decided)
  BY DEF OutboxInv, ServerTypeInv
<1>4. p.local >= 1
  BY <1>2 DEF NamesIt
<1>5. CASE /\ p.local = Len(decided) + 1 /\ head' \in {head, head + 1}
           /\ \E tag \in {"Accepted", "Rejected"}, at \in {0, head + 1} :
                /\ decided' = Append(decided, [id |-> p.id, tag |-> tag, at |-> at])
                /\ Answers(Receipt(p, tag, at, 0))
  <2>1. PICK tag \in {"Accepted", "Rejected"}, at \in {0, head + 1} :
          /\ decided' = Append(decided, [id |-> p.id, tag |-> tag, at |-> at])
          /\ Answers(Receipt(p, tag, at, 0))
    BY <1>5
  <2>2. at \in Nat /\ head' \in Nat
    BY <1>3, <1>5
  <2>3. OutboxInv' /\ Outbox!Decide(tag)
    BY <1>2, <1>5, <2>1, <2>2, DecideStep
  <2> QED BY <2>3
<1>6. CASE /\ p.local <= lapsed.through /\ UNCHANGED <<head, decided>>
           /\ Answers(Receipt(p, "Expired", lapsed.sequence, lapsed.through))
  <2>1. p.local \in 1 .. Len(decided) /\ lapsed.sequence \in Nat /\ lapsed.through \in Nat
    BY <1>2, <1>3, <1>4, <1>6
  <2>2. "Expired" \in Tags /\ "Expired" \in {decided[p.local].tag, "Expired"}
    BY DEF Tags
  <2> QED BY <1>2, <1>6, <2>1, <2>2, RepeatStep
<1>7. CASE /\ p.local \in lapsed.through + 1 .. Len(decided) /\ UNCHANGED <<head, decided>>
           /\ Answers(Receipt(p, decided[p.local].tag, decided[p.local].at, 0))
  <2>1. p.local \in 1 .. Len(decided)
    BY <1>2, <1>3, <1>4, <1>7
  <2>2. PICK x : x = decided[p.local] /\ x \in DecisionRows
    BY <1>3, <2>1
  <2>3. x.tag \in Tags /\ x.at \in Nat /\ 0 \in Nat
    BY <2>2 DEF DecisionRows, Tags
  <2>4. Answers(Receipt(p, x.tag, x.at, 0)) /\ x.tag \in {decided[p.local].tag, "Expired"}
    BY <1>7, <2>2
  <2> QED BY <1>2, <1>7, <2>1, <2>3, <2>4, RepeatStep
<1>8. CASE turn' = Idle /\ UNCHANGED <<head, decided>>
  <2>1. UNCHANGED <<lapsed, receiptVars, appVars, pending, nextLocal, gate, committed, settlements>>
    BY DEF ServerAnswers
  <2>2. WireKept
    BY <1>8, TurnGoes
  <2>3. ServerKept
    BY <1>8, <2>1 DEF ServerKept, OutboxInv, ServerTypeInv
  <2>4. ReceiptsKept
    BY <2>1, ReceiptsUnchanged
  <2>5. GateKept
    BY <2>1, <2>4, Unchanged
  <2> QED BY <2>1, <2>2, <2>3, <2>4, <2>5, RowsUnchanged, Unchanged DEF Steady
<1> QED BY <1>1, <1>5, <1>6, <1>7, <1>8, AnswerCases

(***************************************************************************)
(* Every step.                                                             *)
(***************************************************************************)
(* The settlements of a step are reported in local order, each once, with  *)
(* the decision the server took.                                           *)
LEMMA DeleteReports ==
  ASSUME OutboxInv, DeleteSettled
  PROVE  UNCHANGED <<decided, committed>> /\ (settlements' = settlements \/ Outbox!Settle)
<1>1. PICK n, d, k : n = Len(settlements) /\ d = Deleted /\ k = Len(d)
  OBVIOUS
<1>2. /\ n \in Nat /\ d \in Seq(PendingRows)
      /\ settlements' \in Seq(SettlementRows) /\ Len(settlements') = n + k
      /\ \A i \in 1 .. n : i \in 1 .. Len(settlements') /\ settlements'[i] = settlements[i]
      /\ \A j \in 1 .. k :
           n + j \in 1 .. Len(settlements') /\ settlements'[n + j] = Report(d[j])
  BY <1>1, Deleting
<1>3. settlements \in Seq(SettlementRows) /\ k \in Nat
  BY <1>1, <1>2 DEF OutboxInv, HistoryTypeInv
<1>4. UNCHANGED <<decided, committed>>
  BY DEF DeleteSettled, serverVars
<1>5. PICK s, u : s = settlements /\ u = settlements'
  OBVIOUS
<1>6. /\ s \in Seq(SettlementRows) /\ n = Len(s)
      /\ u \in Seq(SettlementRows) /\ Len(u) = n + k
      /\ \A i \in 1 .. n : u[i] = s[i]
      /\ \A j \in 1 .. k : u[n + j] = Report(d[j])
  BY <1>1, <1>2, <1>3, <1>5
<1>7. CASE k = 0
  <2>1. u = [i \in 1 .. n |-> u[i]] /\ s = [i \in 1 .. n |-> s[i]]
    BY <1>2, <1>6, <1>7
  <2>2. u = s
    BY <1>6, <2>1
  <2> QED BY <1>4, <1>5, <2>2
<1>8. CASE k # 0
  <2>1. n + k > n
    BY ONLY <1>2, <1>3, <1>8
  <2>2. SubSeq(u, 1, n) = s
    <3>1. SubSeq(u, 1, n) = [i \in 1 .. n |-> u[i]] /\ s = [i \in 1 .. n |-> s[i]]
      BY <1>2, <1>3, <1>6
    <3> QED BY <1>6, <3>1
  <2>3. ASSUME NEW i \in n + 1 .. n + k
        PROVE  /\ i - n \in 1 .. k /\ i - n \in Int /\ u[i] = Report(d[i - n])
    <3>1. i - n \in 1 .. k /\ n + (i - n) = i /\ i - n \in Int
      BY ONLY <1>2, <1>3, i \in n + 1 .. n + k
    <3> QED BY <1>6, <3>1
  <2>4. ASSUME NEW j \in 1 .. k
        PROVE  /\ d[j].local \in 1 .. Len(decided) /\ d[j].local \notin Told
               /\ d[j].id = decided[d[j].local].id
               /\ Tag(d[j].id) \in {decided[d[j].local].tag, "Expired"}
    BY <1>1, DeletedRows, DeletedTell
  <2>5. \A j, l \in 1 .. k : j < l => d[j].local < d[l].local
    BY <1>1, DeletedRows
  <2>6. PICK o : o = [i \in DOMAIN decided |-> [id |-> decided[i].id, tag |-> decided[i].tag]]
    OBVIOUS
  <2>7. DOMAIN o = 1 .. Len(decided)
        /\ \A i \in 1 .. Len(decided) : o[i].id = decided[i].id /\ o[i].tag = decided[i].tag
    BY <2>6 DEF OutboxInv, ServerTypeInv
  <2>8. {s[i].local : i \in DOMAIN s} = Told
    BY <1>5, <1>6 DEF Told
  <2>9. ASSUME NEW i \in n + 1 .. n + k
        PROVE  /\ u[i].local \in DOMAIN o \ {s[j].local : j \in DOMAIN s}
               /\ u[i].id = o[u[i].local].id
               /\ u[i].tag \in {o[u[i].local].tag, "Expired"}
    <3>1. PICK j \in 1 .. k : u[i] = Report(d[j])
      BY <2>3
    <3>2. u[i].id = d[j].id /\ u[i].local = d[j].local /\ u[i].tag = Tag(d[j].id)
      BY <3>1 DEF Report
    <3> QED BY <2>4, <2>7, <2>8, <3>2
  <2>10. ASSUME NEW i \in n + 1 .. n + k, NEW j \in n + 1 .. i - 1
         PROVE  u[j].local < u[i].local
    <3>1. j \in n + 1 .. n + k /\ j - n < i - n
      BY ONLY <1>2, <1>3, i \in n + 1 .. n + k, j \in n + 1 .. i - 1
    <3>2. PICK a, b : a = i - n /\ b = j - n
      OBVIOUS
    <3>3. a \in 1 .. k /\ b \in 1 .. k /\ b < a /\ u[i] = Report(d[a]) /\ u[j] = Report(d[b])
      BY <2>3, <3>1, <3>2
    <3> QED BY <2>5, <3>3 DEF Report
  <2>11. Outbox!Settle
    <3>1. /\ Len(settlements') = n + k /\ Len(settlements) = n
          /\ SubSeq(settlements', 1, n) = settlements
      BY <1>5, <1>6, <2>2
    <3>2. ASSUME NEW i \in n + 1 .. n + k
          PROVE  /\ Outbox!Truthful(settlements'[i])
                 /\ \A j \in n + 1 .. i - 1 : settlements'[j].local < settlements'[i].local
      BY <1>5, <2>6, <2>9, <2>10 DEF Outbox!Truthful, Outbox!Reported
    <3>3. UNCHANGED <<committed,
            [i \in DOMAIN decided |-> [id |-> decided[i].id, tag |-> decided[i].tag]]>>
      BY <1>4
    <3> QED BY <2>1, <3>1, <3>2, <3>3 DEF Outbox!Settle
  <2> QED BY <1>4, <2>11
<1> QED BY <1>7, <1>8

LEMMA Stuttering ==
  ASSUME OutboxInv, UNCHANGED vars PROVE Steady
<1>1. UNCHANGED <<serverVars, receiptVars, appVars, pending, nextLocal, gate, turn, committed,
                  settlements>>
  BY DEF vars
<1>2. ReceiptsKept
  BY <1>1, ReceiptsUnchanged
<1> QED BY <1>1, <1>2, RowsUnchanged, Unchanged DEF Steady

LEMMA NextOutbox ==
  ASSUME OutboxInv, [Next]_vars
  PROVE  OutboxInv' /\ [Outbox!Next]_(Outbox!outboxVars)
<1>1. CASE Steady
  <2>1. OutboxInv'
    BY <1>1, SteadyKeeps
  <2>2. UNCHANGED <<decided, committed, settlements>>
    BY <1>1 DEF Steady, ServerKept, HistoryKept
  <2> QED BY <2>1, <2>2 DEF Outbox!outboxVars
<1>2. ASSUME NEW m \in Mutations, Mutate(m)
      PROVE  OutboxInv' /\ [Outbox!Next]_(Outbox!outboxVars)
  BY <1>2, MutateStep DEF Outbox!Next
<1>3. CASE DeleteSettled
  <2>1. OutboxInv'
    BY <1>3, DeleteStep
  <2>2. UNCHANGED <<decided, committed>> /\ (settlements' = settlements \/ Outbox!Settle)
    BY <1>3, DeleteReports
  <2> QED BY <2>1, <2>2 DEF Outbox!Next, Outbox!outboxVars
<1>4. CASE ServerAnswers
  <2>1. CASE OutboxInv' /\ \E tag \in {"Accepted", "Rejected"} : Outbox!Decide(tag)
    BY <2>1 DEF Outbox!Next
  <2> QED BY <1>1, <1>4, <2>1, ServerStep
<1>5. CASE GateStep \/ ResumeRebuild
  BY <1>1, <1>3, <1>5, GateSteps DEF GateStep
<1>6. CASE PassStep
  BY <1>1, <1>6, GateSteps, BeginStep, ApplyViewPageStep, InstallBootstrapStep, RevokeStep,
     ClaimStep, AnswerSteps, PersistStep DEF PassStep
<1>7. CASE Application
  BY <1>1, <1>2, <1>7, ReadStep DEF Application
<1>8. CASE Environment \/ LoseAnswers \/ StorageFails \/ Crash \/ UNCHANGED vars
  BY <1>1, <1>8, EnvironmentStep, AnswerSteps, FaultSteps, Stuttering
<1> QED BY <1>4, <1>5, <1>6, <1>7, <1>8 DEF Next

LEMMA InitOutbox ==
  ASSUME Init PROVE OutboxInv /\ Outbox!Init
<1>1. /\ head = 0 /\ decided = <<>> /\ lapsed = [through |-> 0, sequence |-> 0]
      /\ pending = <<>> /\ receipts = {} /\ retired = {} /\ reader = 0 /\ missed = FALSE
      /\ marks = [n \in MarkNames |-> 0] /\ nextLocal = 1
      /\ committed = <<>> /\ settlements = <<>> /\ turn = Idle /\ gate = Free
  BY DEF Init, MarkNames
<1>2. /\ <<>> \in Seq(DecisionRows) /\ <<>> \in Seq(PendingRows) /\ <<>> \in Seq(AnswerRows)
      /\ <<>> \in Seq(Mutations) /\ <<>> \in Seq(SettlementRows) /\ Len(<<>>) = 0
  OBVIOUS
<1>3. ServerTypeInv /\ HistoryTypeInv
  BY <1>1, <1>2 DEF ServerTypeInv, HistoryTypeInv
<1>4. ClientTypeInv
  <2>1. TurnType(turn)
    BY <1>1, <1>2, IdleTurn DEF TurnType
  <2>2. GateType(gate)
    BY <1>1 DEF GateType, Free
  <2> QED BY <1>1, <1>2, <2>1, <2>2 DEF ClientTypeInv
<1>5. WireInv
  BY <1>1, <1>2, IdleTurn DEF WireInv
<1>6. /\ CommitInv /\ DecisionInv /\ PendingInv /\ SettlementInv /\ ReceiptInv /\ SettlingInv
      /\ RecordInv /\ MarkInv
  BY <1>1, <1>2 DEF CommitInv, DecisionInv, PendingInv, SettlementInv, ReceiptInv, SettlingInv,
                    RecordInv, MarkInv
<1>7. Outbox!Init
  <2>1. [i \in DOMAIN decided |-> [id |-> decided[i].id, tag |-> decided[i].tag]] = <<>>
    BY <1>1
  <2> QED BY <1>1, <2>1 DEF Outbox!Init
<1> QED BY <1>3, <1>4, <1>5, <1>6, <1>7 DEF OutboxInv

(* OutboxInv always holds: decisions are a prefix of the commits, what is  *)
(* pending or being deleted comes after what was reported, in order, and   *)
(* every answer, receipt, mark and retired identity tells of a decision.   *)
THEOREM OutboxInvariance == Spec => []OutboxInv
<1>1. Init => OutboxInv
  BY InitOutbox
<1>2. OutboxInv /\ [Next]_vars => OutboxInv'
  BY NextOutbox
<1> QED BY <1>1, <1>2, PTL DEF Spec

(* Whatever is pruned, settled again, read or cut short, the application   *)
(* is given every settlement recorded after the position it reads from, or *)
(* told that they are gone.                                                *)
THEOREM NothingIsMissed == Spec => []NothingMissed
<1>1. OutboxInv => NothingMissed
  BY DEF OutboxInv, MarkInv, NothingMissed
<1> QED BY <1>1, OutboxInvariance, PTL

(* The store, its receipts, batches, rebuilds, faults and crashes included *)
(* is an outbox: what is committed is decided once, in order, and reported *)
(* once with that decision.                                                *)
THEOREM ImplementsAnOutbox == Spec => ImplementsOutbox
<1>1. Init => Outbox!Init
  BY InitOutbox
<1>2. OutboxInv /\ [Next]_vars => [Outbox!Next]_(Outbox!outboxVars)
  BY NextOutbox
<1> QED BY <1>1, <1>2, OutboxInvariance, PTL DEF Spec, ImplementsOutbox, Outbox!Spec

(***************************************************************************)
(* What replay makes of an entity, without replaying.  Of the rows that    *)
(* count, one is live, that is, its handler does not refuse, when it       *)
(* needs no entity, or there is a canonical one, or an earlier row makes   *)
(* one.                                                                    *)
(***************************************************************************)
Row(p) == [id |-> p.id, local |-> p.local, writes |-> p.writes]

Live(E, p, base) ==
  \/ p.id \notin Strict
  \/ base # {}
  \/ \E q \in E : KeyOf[q.id] = KeyOf[p.id] /\ q.local < p.local /\ q.id \notin Strict

Shown(E, k, base) ==
  base \cup {p.id : p \in {q \in E : KeyOf[q.id] = k /\ Live(E, q, base)}}

(* Something is shown of what is canonical or was made by a live row.      *)
LEMMA SomethingShown ==
  ASSUME NEW E, NEW k, NEW base
  PROVE  Shown(E, k, base) # {}
           <=> base # {} \/ \E q \in E : KeyOf[q.id] = k /\ q.id \notin Strict
<1>1. ASSUME NEW q \in E, KeyOf[q.id] = k, q.id \notin Strict
      PROVE  Shown(E, k, base) # {}
  <2>1. q \in {p \in E : KeyOf[p.id] = k /\ Live(E, p, base)}
    BY <1>1 DEF Live
  <2>2. q.id \in Shown(E, k, base)
    BY <2>1 DEF Shown
  <2> QED BY <2>2
<1>2. ASSUME base # {} PROVE Shown(E, k, base) # {}
  BY <1>2 DEF Shown
<1>3. ASSUME Shown(E, k, base) # {}, base = {}
      PROVE  \E q \in E : KeyOf[q.id] = k /\ q.id \notin Strict
  <2>1. PICK p \in E : KeyOf[p.id] = k /\ Live(E, p, base)
    BY <1>3 DEF Shown
  <2> QED BY <1>3, <2>1 DEF Live
<1> QED BY <1>1, <1>2, <1>3

(* Rows that are not live may leave unnoticed.                             *)
LEMMA Dropping ==
  ASSUME NEW E, NEW F \in SUBSET E, NEW k, NEW base,
         \A p \in E \ F : KeyOf[p.id] = k => ~ Live(E, p, base)
  PROVE  /\ Shown(F, k, base) = Shown(E, k, base)
         /\ \A p \in F : KeyOf[p.id] = k => (Live(F, p, base) <=> Live(E, p, base))
<1>1. ASSUME NEW p \in F, KeyOf[p.id] = k PROVE Live(F, p, base) <=> Live(E, p, base)
  <2>1. ASSUME Live(F, p, base) PROVE Live(E, p, base)
    BY <2>1 DEF Live
  <2>2. ASSUME NEW q \in E, KeyOf[q.id] = k, q.id \notin Strict PROVE q \in F
    <3>1. Live(E, q, base)
      BY <2>2 DEF Live
    <3> QED BY <2>2, <3>1
  <2>3. ASSUME Live(E, p, base) PROVE Live(F, p, base)
    BY <1>1, <2>2, <2>3 DEF Live
  <2> QED BY <2>1, <2>3
<1>2. {q \in E : KeyOf[q.id] = k /\ Live(E, q, base)}
        = {q \in F : KeyOf[q.id] = k /\ Live(F, q, base)}
  BY <1>1
<1> QED BY <1>1, <1>2 DEF Shown

\* the rows of F come after those of E
Follow(E, F) ==
  /\ \A p \in E \cup F : p.local \in Nat
  /\ \A p \in E : \A q \in F : p.local < q.local

\* replaying F after E is replaying them together
Continues(E, F, G, k, base, old) ==
  /\ Shown(G, k, base) = Shown(F, k, old)
  /\ \A p \in E : Live(G, p, base) <=> Live(E, p, base)
  /\ \A p \in F : KeyOf[p.id] = k => (Live(G, p, base) <=> Live(F, p, old))

(* Replay goes on where it stopped: later rows see what earlier ones made. *)
LEMMA Adding ==
  ASSUME NEW E, NEW F, NEW G, NEW k, NEW base, NEW old,
         Follow(E, F), G = E \cup F, old = Shown(E, k, base)
  PROVE  Continues(E, F, G, k, base, old)
<1>1. ASSUME NEW p \in E PROVE Live(G, p, base) <=> Live(E, p, base)
  <2>1. \A q \in F : ~ (q.local < p.local)
    BY <1>1 DEF Follow
  <2> QED BY <2>1 DEF Live
<1>2. ASSUME NEW p \in F, KeyOf[p.id] = k
      PROVE  Live(G, p, base) <=> Live(F, p, old)
  <2>1. old # {}
          <=> base # {} \/ \E q \in E : KeyOf[q.id] = k /\ q.id \notin Strict
    BY SomethingShown
  <2>2. \A q \in E : q.local < p.local
    BY <1>2 DEF Follow
  <2> QED BY <1>2, <2>1, <2>2 DEF Live
<1>4. \A x : x \in Shown(G, k, base) <=> x \in Shown(F, k, old)
  <2>1. \A x : x \in Shown(G, k, base)
          <=> \/ x \in base
              \/ \E p \in G : x = p.id /\ KeyOf[p.id] = k /\ Live(G, p, base)
    BY DEF Shown
  <2>2. \A x : x \in old
          <=> x \in base \/ \E p \in E : x = p.id /\ KeyOf[p.id] = k /\ Live(E, p, base)
    BY DEF Shown
  <2>3. \A x : x \in Shown(F, k, old)
          <=> x \in old \/ \E p \in F : x = p.id /\ KeyOf[p.id] = k /\ Live(F, p, old)
    BY DEF Shown
  <2> QED BY <1>1, <1>2, <2>1, <2>2, <2>3
<1> QED BY <1>1, <1>2, <1>4 DEF Continues

(* What is shown depends on identities and their order alone.              *)
LEMMA Alike ==
  ASSUME NEW E, NEW F,
         \A p \in E : \E q \in F : q.id = p.id /\ q.local = p.local,
         \A q \in F : \E p \in E : q.id = p.id /\ q.local = p.local
  PROVE  \A base :
           /\ \A k : Shown(E, k, base) = Shown(F, k, base)
           /\ \A p, q : p.id = q.id /\ p.local = q.local =>
                          (Live(E, p, base) <=> Live(F, q, base))
<1> TAKE base
<1>1. ASSUME NEW p, NEW q, p.id = q.id, p.local = q.local
      PROVE  Live(E, p, base) <=> Live(F, q, base)
  <2>1. ASSUME Live(E, p, base) PROVE Live(F, q, base)
    BY <1>1, <2>1 DEF Live
  <2>2. ASSUME Live(F, q, base) PROVE Live(E, p, base)
    BY <1>1, <2>2 DEF Live
  <2> QED BY <2>1, <2>2
<1>2. ASSUME NEW k PROVE Shown(E, k, base) = Shown(F, k, base)
  <2>1. ASSUME NEW x \in Shown(E, k, base) PROVE x \in Shown(F, k, base)
    <3>1. CASE x \in base
      BY <3>1 DEF Shown
    <3>2. ASSUME NEW p \in E, x = p.id, KeyOf[p.id] = k, Live(E, p, base)
          PROVE  x \in Shown(F, k, base)
      <4>1. PICK q \in F : q.id = p.id /\ q.local = p.local
        BY <3>2
      <4>2. Live(F, q, base)
        BY <1>1, <3>2, <4>1
      <4> QED BY <3>2, <4>1, <4>2 DEF Shown
    <3> QED BY <2>1, <3>1, <3>2 DEF Shown
  <2>2. ASSUME NEW x \in Shown(F, k, base) PROVE x \in Shown(E, k, base)
    <3>1. CASE x \in base
      BY <3>1 DEF Shown
    <3>2. ASSUME NEW q \in F, x = q.id, KeyOf[q.id] = k, Live(F, q, base)
          PROVE  x \in Shown(E, k, base)
      <4>1. PICK p \in E : q.id = p.id /\ q.local = p.local
        BY <3>2
      <4>2. Live(E, p, base)
        BY <1>1, <3>2, <4>1
      <4> QED BY <3>2, <4>1, <4>2 DEF Shown
    <3> QED BY <2>2, <3>1, <3>2 DEF Shown
  <2> QED BY <2>1, <2>2
<1> QED BY <1>1, <1>2

(***************************************************************************)
(* Replay, row after row.                                                  *)
(***************************************************************************)
Staging(rows, content, f, i) ==
  IF i = 0 THEN content
  ELSE IF Ready(rows[i]) THEN f[i - 1]
  ELSE Run(rows[i].id, f[i - 1])

(* Stages of a replay, one per row: induction on the rows.                 *)
LEMMA StagingExists ==
  ASSUME NEW rows, NEW content, NEW n \in Nat
  PROVE  \E f : f = [i \in 0 .. n |-> Staging(rows, content, f, i)]
<1>1. PICK Lacking :
        Lacking = {k \in Nat : ~ \E f : f = [i \in 0 .. k |-> Staging(rows, content, f, i)]}
  OBVIOUS
<1> SUFFICES ASSUME Lacking # {} PROVE FALSE
  BY <1>1
<1>2. PICK k \in Lacking : \A x \in Lacking : k <= x
  BY <1>1, MinExists
<1>3. k \in Nat /\ ~ \E f : f = [i \in 0 .. k |-> Staging(rows, content, f, i)]
  BY <1>1
<1>4. k # 0
  <2>1. SUFFICES ASSUME k = 0 PROVE FALSE
    OBVIOUS
  <2>2. PICK f : f = [i \in 0 .. k |-> content]
    OBVIOUS
  <2>3. \A i \in 0 .. k : Staging(rows, content, f, i) = content
    BY <2>1 DEF Staging
  <2>4. f = [i \in 0 .. k |-> Staging(rows, content, f, i)]
    BY <2>2, <2>3
  <2> QED BY <1>3, <2>4
<1>5. PICK f : f = [i \in 0 .. k - 1 |-> Staging(rows, content, f, i)]
  <2>1. k - 1 \in Nat /\ k - 1 \notin Lacking
    BY <1>2, <1>3, <1>4
  <2> QED BY <1>1, <2>1
<1>6. PICK g : g = [i \in 0 .. k |-> IF i = k THEN Staging(rows, content, f, k) ELSE f[i]]
  OBVIOUS
<1>7. ASSUME NEW i \in 0 .. k PROVE g[i] = Staging(rows, content, g, i)
  <2>1. CASE i = 0
    <3>1. 0 \in 0 .. k - 1 /\ 0 \in 0 .. k /\ 0 # k
      BY <1>3, <1>4
    <3>2. f[0] = content /\ g[0] = f[0]
      BY <1>5, <1>6, <3>1 DEF Staging
    <3> QED BY <2>1, <3>2 DEF Staging
  <2>2. CASE i # 0
    <3>1. i - 1 \in 0 .. k - 1 /\ i - 1 \in 0 .. k /\ i - 1 # k
      BY ONLY <1>3, <2>2, i \in 0 .. k
    <3>2. g[i - 1] = f[i - 1]
      BY <1>6, <3>1
    <3>3. Staging(rows, content, g, i) = Staging(rows, content, f, i)
      BY <2>2, <3>2 DEF Staging
    <3>4. i = k \/ i \in 0 .. k - 1
      BY ONLY <1>3, <2>2, i \in 0 .. k
    <3>5. g[i] = Staging(rows, content, f, i)
      BY <1>5, <1>6, <3>4
    <3> QED BY <3>3, <3>5
  <2> QED BY <2>1, <2>2
<1>8. g = [i \in 0 .. k |-> Staging(rows, content, g, i)]
  BY <1>6, <1>7
<1> QED BY <1>3, <1>8

LEMMA StageOf ==
  ASSUME NEW X, NEW rows \in Seq(X), NEW content
  PROVE  /\ Stages(rows, content)[0] = content
         /\ \A i \in 1 .. Len(rows) :
              Stages(rows, content)[i] =
                IF Ready(rows[i]) THEN Stages(rows, content)[i - 1]
                ELSE Run(rows[i].id, Stages(rows, content)[i - 1])
<1>1. PICK n \in Nat : n = Len(rows)
  OBVIOUS
<1>2. PICK f : f = CHOOSE g : g = [i \in 0 .. n |-> Staging(rows, content, g, i)]
  OBVIOUS
<1>3. f = [i \in 0 .. n |-> Staging(rows, content, f, i)]
  BY <1>2, StagingExists
<1>4. Stages(rows, content) = f
  BY <1>1, <1>2 DEF Stages, Staging
<1>5. 0 \in 0 .. n /\ \A i \in 1 .. n : i \in 0 .. n /\ i # 0
  BY <1>1
<1>6. f[0] = Staging(rows, content, f, 0)
      /\ \A i \in 1 .. n : f[i] = Staging(rows, content, f, i)
  BY <1>3, <1>5
<1>7. f[0] = content
  BY <1>6 DEF Staging
<1>8. ASSUME NEW i \in 1 .. n
      PROVE  f[i] = IF Ready(rows[i]) THEN f[i - 1] ELSE Run(rows[i].id, f[i - 1])
  BY <1>5, <1>6 DEF Staging
<1> QED BY <1>1, <1>4, <1>7, <1>8

\* the rows replayed of the first n
Played(rows, n) == {Row(rows[i]) : i \in {j \in 1 .. n : ~ Ready(rows[j])}}

InOrder(rows) ==
  \A i, j \in 1 .. Len(rows) : i < j => rows[i].local < rows[j].local

(* A replay of one row.                                                    *)
LEMMA OneRow ==
  ASSUME NEW r, r.local \in Nat, NEW k, NEW c
  PROVE  Shown({r}, k, c) =
           IF KeyOf[r.id] = k /\ (r.id \notin Strict \/ c # {}) THEN c \cup {r.id} ELSE c
<1>1. Live({r}, r, c) <=> r.id \notin Strict \/ c # {}
  BY DEF Live
<1>2. \A x : x \in Shown({r}, k, c) <=> x \in c \/ (x = r.id /\ KeyOf[r.id] = k /\ Live({r}, r, c))
  BY DEF Shown
<1> QED BY <1>1, <1>2

LEMMA RunIs ==
  ASSUME NEW m \in Mutations, NEW c \in Contents
  PROVE  /\ Run(m, c) \in Contents
         /\ \A k \in Keys :
              Run(m, c)[k] = IF KeyOf[m] = k /\ (m \notin Strict \/ c[k] # {})
                               THEN c[k] \cup {m} ELSE c[k]
<1>1. KeyOf[m] \in Keys
  BY LocalStoreAssumption
<1>2. CASE Refuses(m, c)
  BY <1>2 DEF Run, Refuses
<1>3. CASE ~ Refuses(m, c)
  <2>1. Run(m, c) = [c EXCEPT ![KeyOf[m]] = @ \cup {m}]
    BY <1>3 DEF Run
  <2>2. c[KeyOf[m]] \cup {m} \in SUBSET (Mutations \cup {Other})
    BY <1>1 DEF Contents
  <2>3. Run(m, c) \in Contents
    BY <1>1, <2>1, <2>2 DEF Contents
  <2>4. m \notin Strict \/ c[KeyOf[m]] # {}
    BY <1>3 DEF Refuses
  <2>5. \A k \in Keys : Run(m, c)[k] = IF KeyOf[m] = k THEN c[k] \cup {m} ELSE c[k]
    BY <1>1, <2>1 DEF Contents
  <2> QED BY <2>3, <2>4, <2>5
<1> QED BY <1>2, <1>3

LEMMA RowIs ==
  ASSUME NEW p \in PendingRows
  PROVE  /\ Row(p).id = p.id /\ Row(p).local = p.local /\ Row(p).writes = p.writes
         /\ p.id \in Mutations /\ p.local \in Nat /\ KeyOf[p.id] \in Keys
         /\ p.writes \in SUBSET Keys
  BY LocalStoreAssumption DEF Row, PendingRows

LEMMA PlayedNext ==
  ASSUME NEW rows \in Seq(PendingRows), NEW n \in Nat, n + 1 <= Len(rows), InOrder(rows)
  PROVE  /\ \A p \in Played(rows, n) :
              /\ p.local \in Nat
              /\ p.local < rows[n + 1].local
         /\ Ready(rows[n + 1]) => Played(rows, n + 1) = Played(rows, n)
         /\ ~ Ready(rows[n + 1]) => Played(rows, n + 1) = Played(rows, n) \cup {Row(rows[n + 1])}
<1>1. ASSUME NEW p \in Played(rows, n)
      PROVE  p.local \in Nat /\ p.local < rows[n + 1].local
  <2>1. PICK i \in 1 .. n : p = Row(rows[i])
    BY DEF Played
  <2>2. i \in 1 .. Len(rows) /\ n + 1 \in 1 .. Len(rows) /\ i < n + 1
    OBVIOUS
  <2>3. rows[i] \in PendingRows
    BY <2>2
  <2>4. rows[i].local < rows[n + 1].local
    BY <2>2 DEF InOrder
  <2> QED BY <2>1, <2>3, <2>4, RowIs
<1>2. \A i : i \in 1 .. n + 1 <=> i \in 1 .. n \/ i = n + 1
  OBVIOUS
<1>3. \A x : x \in Played(rows, n + 1)
               <=> x \in Played(rows, n) \/ (x = Row(rows[n + 1]) /\ ~ Ready(rows[n + 1]))
  BY <1>2 DEF Played
<1> QED BY <1>1, <1>3

LEMMA StageNext ==
  ASSUME NEW rows \in Seq(PendingRows), NEW content \in Contents, InOrder(rows),
         NEW n \in Nat, n + 1 <= Len(rows), NEW s \in Contents,
         \A k \in Keys : s[k] = Shown(Played(rows, n), k, content[k]),
         NEW t, t = IF Ready(rows[n + 1]) THEN s ELSE Run(rows[n + 1].id, s)
  PROVE  t \in Contents /\ \A k \in Keys : t[k] = Shown(Played(rows, n + 1), k, content[k])
<1>1. CASE Ready(rows[n + 1])
  BY <1>1, PlayedNext
<1>2. CASE ~ Ready(rows[n + 1])
  <2>1. PICK p : p = rows[n + 1] /\ p \in PendingRows
    OBVIOUS
  <2>2. PICK r : r = Row(p)
    OBVIOUS
  <2>3. r.id = p.id /\ r.local = p.local /\ r.local \in Nat /\ p.id \in Mutations
    BY <2>1, <2>2, RowIs
  <2>4. PICK E : E = Played(rows, n)
    OBVIOUS
  <2>5. /\ Played(rows, n + 1) = E \cup {r}
        /\ \A q \in E \cup {r} : q.local \in Nat
        /\ \A q \in E : q.local < r.local
    BY <1>2, <2>1, <2>2, <2>3, <2>4, PlayedNext
  <2>6. PICK m \in Mutations : m = p.id /\ t = Run(m, s)
    BY <1>2, <2>1, <2>3
  <2>7. /\ t \in Contents
        /\ \A k \in Keys : t[k] = IF KeyOf[m] = k /\ (m \notin Strict \/ s[k] # {})
                                    THEN s[k] \cup {m} ELSE s[k]
    <3>1. m \in Mutations /\ s \in Contents
      BY <2>6
    <3>2. /\ Run(m, s) \in Contents
          /\ \A k \in Keys :
               Run(m, s)[k] = IF KeyOf[m] = k /\ (m \notin Strict \/ s[k] # {})
                                THEN s[k] \cup {m} ELSE s[k]
      BY ONLY <3>1, RunIs
    <3> QED BY <2>6, <3>2
  <2>8. ASSUME NEW k \in Keys PROVE t[k] = Shown(E \cup {r}, k, content[k])
    <3>1. PICK F, base : F = {r} /\ base = content[k]
      OBVIOUS
    <3>2. Follow(E, F)
      BY <2>5, <3>1 DEF Follow
    <3>6. PICK G : G = E \cup F
      OBVIOUS
    <3>4. Shown(E, k, base) = s[k]
      BY <2>4, <3>1
    <3>3. Shown(G, k, base) = Shown(F, k, s[k])
      BY <3>2, <3>4, <3>6, Adding DEF Continues
    <3>5. Shown({r}, k, s[k]) =
            IF KeyOf[r.id] = k /\ (r.id \notin Strict \/ s[k] # {}) THEN s[k] \cup {r.id} ELSE s[k]
      <4>1. PICK c : c = s[k]
        OBVIOUS
      <4> QED BY ONLY <2>3, <4>1, OneRow
    <3> QED BY <2>3, <2>6, <2>7, <3>1, <3>3, <3>4, <3>5, <3>6
  <2> QED BY <2>5, <2>7, <2>8
<1> QED BY <1>1, <1>2

(* Each stage shows what the rows so far make of an entity.                *)
LEMMA StagesShow ==
  ASSUME NEW rows \in Seq(PendingRows), NEW content \in Contents, InOrder(rows)
  PROVE  \A i \in 0 .. Len(rows) :
           /\ Stages(rows, content)[i] \in Contents
           /\ \A k \in Keys : Stages(rows, content)[i][k] = Shown(Played(rows, i), k, content[k])
<1>1. PICK n, f : n \in Nat /\ n = Len(rows) /\ f = Stages(rows, content)
  OBVIOUS
<1>2. PICK Wrong : Wrong =
        {i \in 0 .. n : ~ (/\ f[i] \in Contents
                           /\ \A k \in Keys : f[i][k] = Shown(Played(rows, i), k, content[k]))}
  OBVIOUS
<1>3. /\ f[0] = content
      /\ \A i \in 1 .. n : f[i] = IF Ready(rows[i]) THEN f[i - 1] ELSE Run(rows[i].id, f[i - 1])
  BY <1>1, StageOf
<1>4. 0 \notin Wrong
  <2>1. Played(rows, 0) = {}
    BY DEF Played
  <2>2. \A k : Shown({}, k, content[k]) = content[k]
    BY DEF Shown
  <2> QED BY <1>2, <1>3, <2>1, <2>2
<1> SUFFICES ASSUME Wrong # {} PROVE FALSE
  BY <1>1, <1>2
<1>5. Wrong \in SUBSET Nat
  BY <1>1, <1>2
<1>6. PICK i \in Wrong : \A j \in Wrong : i <= j
  BY <1>5, MinExists
<1>7. i \in 1 .. n
  BY <1>1, <1>2, <1>4, <1>6
<1>8. PICK m \in Nat : i = m + 1
  <2>1. i - 1 \in Nat /\ i = (i - 1) + 1
    BY <1>1, <1>7
  <2> QED BY <2>1
<1>9. m \in 0 .. n /\ m \notin Wrong /\ m + 1 <= Len(rows)
  BY <1>1, <1>5, <1>6, <1>7, <1>8
<1>10. f[m] \in Contents /\ \A k \in Keys : f[m][k] = Shown(Played(rows, m), k, content[k])
  BY <1>2, <1>9
<1>11. f[m + 1] = IF Ready(rows[m + 1]) THEN f[m] ELSE Run(rows[m + 1].id, f[m])
  BY <1>3, <1>7, <1>8
<1>12. /\ f[m + 1] \in Contents
       /\ \A k \in Keys : f[m + 1][k] = Shown(Played(rows, m + 1), k, content[k])
  BY <1>9, <1>10, <1>11, StageNext
<1> QED BY <1>2, <1>6, <1>8, <1>12

\* the row as its replay leaves it
Replays(E, p, base) ==
  [p EXCEPT !.writes = IF Live(E, Row(p), base) THEN {KeyOf[p.id]} ELSE {}]

(* Replay in a closed form: of the content, and of the changes of each row.*)
LEMMA ReplayIs ==
  ASSUME NEW rows \in Seq(PendingRows), NEW content \in Contents, InOrder(rows)
  PROVE  /\ Replayed(rows, content) \in Contents
         /\ \A k \in Keys :
              Replayed(rows, content)[k] = Shown(Played(rows, Len(rows)), k, content[k])
         /\ \A i \in 1 .. Len(rows) :
              Rewritten(rows, content)[i] =
                IF Ready(rows[i]) THEN rows[i]
                ELSE Replays(Played(rows, Len(rows)), rows[i], content[KeyOf[rows[i].id]])
<1>1. PICK n, f : n \in Nat /\ n = Len(rows) /\ f = Stages(rows, content)
  OBVIOUS
<1>2. \A i \in 0 .. n :
        /\ f[i] \in Contents
        /\ \A k \in Keys : f[i][k] = Shown(Played(rows, i), k, content[k])
  BY <1>1, StagesShow
<1>3. Replayed(rows, content) = f[n] /\ n \in 0 .. n
  BY <1>1 DEF Replayed
<1>4. ASSUME NEW i \in 1 .. n, ~ Ready(rows[i])
      PROVE  Rewritten(rows, content)[i]
               = Replays(Played(rows, n), rows[i], content[KeyOf[rows[i].id]])
  <2>1. PICK p, k : p = rows[i] /\ p \in PendingRows /\ k = KeyOf[p.id]
    BY <1>1
  <2>2. k \in Keys /\ p.id \in Mutations /\ p.local \in Nat
        /\ Row(p).id = p.id /\ Row(p).local = p.local
    BY <2>1, RowIs
  <2>3. i - 1 \in 0 .. n /\ i \in 1 .. Len(rows) /\ DOMAIN rows = 1 .. Len(rows)
    BY <1>1
  <2>4. Rewritten(rows, content)[i] = [p EXCEPT !.writes = Writes(p.id, f[i - 1])]
    BY <1>1, <1>4, <2>1, <2>3 DEF Rewritten
  <2>5. Writes(p.id, f[i - 1])
          = IF p.id \in Strict /\ f[i - 1][k] = {} THEN {} ELSE {k}
    BY <2>1 DEF Writes, Refuses
  <2>6. f[i - 1][k] # {}
          <=> \/ content[k] # {}
              \/ \E q \in Played(rows, i - 1) : KeyOf[q.id] = k /\ q.id \notin Strict
    BY <1>2, <2>2, <2>3, SomethingShown
  <2>7. ASSUME NEW q
        PROVE  q \in Played(rows, i - 1) <=> q \in Played(rows, n) /\ q.local < p.local
    <3>1. ASSUME NEW j \in 1 .. n, q = Row(rows[j])
          PROVE  j \in 1 .. i - 1 <=> q.local < p.local
      <4>1. rows[j] \in PendingRows /\ j \in 1 .. Len(rows)
        BY <1>1
      <4>2. q.local = rows[j].local /\ q.local \in Nat
        BY <3>1, <4>1, RowIs
      <4>3. j < i => q.local < p.local
        BY <2>1, <2>3, <4>1, <4>2 DEF InOrder
      <4>4. i < j => p.local < q.local
        BY <2>1, <2>3, <4>1, <4>2 DEF InOrder
      <4>5. j = i => p.local = q.local
        BY <2>1, <4>2
      <4> QED BY <1>1, <2>2, <4>2, <4>3, <4>4, <4>5
    <3>2. \A j : j \in 1 .. i - 1 => j \in 1 .. n
      BY <1>1
    <3> QED BY <3>1, <3>2 DEF Played
  <2>8. Live(Played(rows, n), Row(p), content[k]) <=> ~ (p.id \in Strict /\ f[i - 1][k] = {})
    BY <2>1, <2>2, <2>6, <2>7 DEF Live
  <2> QED BY <2>1, <2>4, <2>5, <2>8 DEF Replays
<1>5. ASSUME NEW i \in 1 .. n, Ready(rows[i]) PROVE Rewritten(rows, content)[i] = rows[i]
  BY <1>1, <1>5 DEF Rewritten
<1> QED BY <1>1, <1>2, <1>3, <1>4, <1>5

(***************************************************************************)
(* The invariant.  Queue is what is pending, without the states of         *)
(* submission; Counted(D) is what of it a projection that left out D       *)
(* replays.                                                                *)
(***************************************************************************)
RowsOf(rows) == {Row(rows[i]) : i \in 1 .. Len(rows)}
Queue == RowsOf(pending)
Counted(D) == {p \in Queue : p.id \notin D}
Base == Unretracted(canonical)

(* A content shows an entity as replay does, and the rows remember which   *)
(* of them changed it.                                                     *)
Agrees(E, content, k) ==
  /\ content[k] = Shown(E, k, Base[k])
  /\ \A p \in E : KeyOf[p.id] = k => (p.writes = {} <=> ~ Live(E, p, Base[k]))

(* Types of the contents, and what a page carries.                         *)
ContentInv ==
  /\ entities \in Contents /\ canonical \in Contents /\ visible \in Contents
  /\ rebuild \in Generations \cup {None}
  /\ retracted \subseteq Keys /\ dirty \subseteq Keys
  /\ serverCursor \in Nat
  /\ fencedAt \in [Keys -> Nat] /\ \A k \in Keys : fencedAt[k] <= nextLocal

PageType(p) == p.sequence \in Nat /\ p.content \in Contents

PageInv ==
  /\ turn.at = "page" =>
       /\ view /\ PageType(turn.page)
       /\ turn.page.changed \subseteq Keys /\ turn.page.revoked \subseteq turn.page.changed
  /\ turn.at \in {"install", "installExpired"} =>
       PageType(turn.page) /\ turn.page.terminal \in Nat

(* A row remembers at most its own entity, and only a handler that can     *)
(* refuse leaves nothing.                                                  *)
WritesInv ==
  \A p \in Queue : /\ p.writes \in {{}, {KeyOf[p.id]}}
                   /\ p.id \notin Strict => p.writes # {}

(* A rebuild that no operation carries on is that of a client without a    *)
(* view: nothing is canonical, what is visible is fenced off.              *)
Withdrawn ==
  ~ view /\ canonical = Nothing /\ \A k \in Keys : visible[k] # {} => k \in retracted

OperationInv ==
  /\ gate.settling \subseteq ReadyIds
  /\ rebuild # None => /\ gate.at \in {"project", "none"}
                       /\ gate.op \in {"install", "restore"} \/ Withdrawn
  /\ gate.op \in {"install", "restore"} => gate.at \in {"project", "delete"}

(* While it copies, a generation holds of each entity what is canonical or *)
(* nothing; then it is what replay makes of the rows it has passed.        *)
CopyInv ==
  rebuild # None =>
    /\ rebuild.at # "pending" => rebuild.after = 0
    /\ rebuild.at = "canonical" => \A k \in Keys : rebuild.content[k] \in {{}, Base[k]}

Passed(D) == {p \in Counted(D) : p.local <= rebuild.after}

Replaying(D) ==
  rebuild # None /\ rebuild.at = "pending" =>
    /\ \A k \in Keys \ retracted : Agrees(Passed(D), rebuild.content, k)
    /\ \A k \in retracted : rebuild.content[k] = {}
    /\ \A p \in Passed(D) : p.id \notin gate.settling

(* What is visible is what replay makes of it, but for dirty entities.  Of *)
(* a fenced one only what was written since is visible.  Whatever has      *)
(* become of the canonical entities, a row that was refused comes before   *)
(* all that is visible of its entity.  What is about to be deleted was     *)
(* left out or changed nothing.                                            *)
Overlaid(E) == \A k \in Keys \ (dirty \cup retracted) : Agrees(E, visible, k)

SinceFence(E) ==
  \A k \in retracted \ dirty : \A m \in visible[k] :
    \E p \in E : p.id = m /\ KeyOf[m] = k /\ p.writes # {} /\ p.local >= fencedAt[k]

RefusedFirst(E) ==
  \A q \in E : q.writes = {} =>
    \A m \in visible[KeyOf[q.id]] :
      \E p \in E : p.id = m /\ KeyOf[m] = KeyOf[q.id] /\ p.writes # {} /\ q.local < p.local

LeftOut(E) ==
  gate.at = "delete" => \A p \in E : p.id \in gate.settling => p.writes = {}

Projects(E) == Overlaid(E) /\ SinceFence(E) /\ RefusedFirst(E) /\ LeftOut(E)
Projected(D) == rebuild = None => Projects(Counted(D))

ProjectionInv == \E D \in SUBSET ReadyIds : Projected(D) /\ Replaying(D)

VisibleInv ==
  /\ ContentInv /\ PageInv /\ WritesInv /\ OperationInv /\ CopyInv /\ ProjectionInv

-----------------------------------------------------------------------------
(***************************************************************************)
(* Rows of the queue.                                                      *)
(***************************************************************************)
LEMMA QueueRow ==
  ASSUME OutboxInv, NEW i \in 1 .. Len(pending)
  PROVE  /\ pending[i] \in PendingRows /\ Row(pending[i]) \in Queue
         /\ Row(pending[i]).id = pending[i].id /\ Row(pending[i]).local = pending[i].local
         /\ Row(pending[i]).writes = pending[i].writes
         /\ pending[i].id \in Mutations /\ KeyOf[pending[i].id] \in Keys
         /\ pending[i].local \in Nat
<1>1. pending[i] \in PendingRows
  BY DEF OutboxInv, ClientTypeInv
<1>2. Row(pending[i]) \in Queue
  BY DEF Queue, RowsOf
<1> QED BY <1>1, <1>2, RowIs

LEMMA QueueIs ==
  ASSUME OutboxInv
  PROVE  /\ \A p \in Queue :
              /\ p.id \in Mutations /\ p.local \in Nat /\ KeyOf[p.id] \in Keys
              /\ p.local >= 1 /\ p.local < nextLocal
         /\ \A p, q \in Queue : p.id = q.id \/ p.local = q.local => p = q
         /\ PendingIds = {p.id : p \in Queue}
         /\ InOrder(pending)
         /\ ToSet(pending) = {pending[i] : i \in 1 .. Len(pending)}
<1>1. pending \in Seq(PendingRows) /\ committed \in Seq(Mutations) /\ nextLocal = Len(committed) + 1
  BY DEF OutboxInv, ClientTypeInv, HistoryTypeInv
<1>2. ASSUME NEW p \in Queue
      PROVE  \E i \in 1 .. Len(pending) : p = Row(pending[i])
  BY DEF Queue, RowsOf
<1>3. ASSUME NEW p \in Queue
      PROVE  /\ p.id \in Mutations /\ p.local \in Nat /\ KeyOf[p.id] \in Keys
             /\ p.local >= 1 /\ p.local < nextLocal
  <2>1. PICK i \in 1 .. Len(pending) : p = Row(pending[i])
    BY <1>2
  <2>2. p.id \in Mutations /\ p.local \in Nat /\ KeyOf[p.id] \in Keys /\ p.local = pending[i].local
    BY <2>1, QueueRow
  <2>3. pending[i].local \in 1 .. Len(committed)
    BY DEF OutboxInv, PendingInv, NamesIt
  <2> QED BY <1>1, <2>2, <2>3
<1>4. ASSUME NEW p \in Queue, NEW q \in Queue, p.id = q.id \/ p.local = q.local PROVE p = q
  <2>1. PICK i \in 1 .. Len(pending) : p = Row(pending[i])
    BY <1>2
  <2>2. PICK j \in 1 .. Len(pending) : q = Row(pending[j])
    BY <1>2
  <2>3. /\ pending[i].id = p.id /\ pending[j].id = q.id
        /\ pending[i].local = p.local /\ pending[j].local = q.local
        /\ p.local \in Nat /\ q.local \in Nat
    BY <2>1, <2>2, QueueRow
  <2>4. NamesIt(pending[i]) /\ NamesIt(pending[j])
    BY DEF OutboxInv, PendingInv
  <2>5. pending[i].local = pending[j].local
    BY <1>4, <2>3, <2>4, OneSequence
  <2>6. ~ (i < j) /\ ~ (j < i)
    BY <2>3, <2>5 DEF OutboxInv, PendingInv
  <2> QED BY <1>1, <2>1, <2>2, <2>6
<1>5. ToSet(pending) = {pending[i] : i \in 1 .. Len(pending)}
  BY <1>1 DEF ToSet
<1>6. PendingIds = {p.id : p \in Queue}
  <2>1. ASSUME NEW m \in PendingIds PROVE \E p \in Queue : m = p.id
    <3>1. PICK i \in 1 .. Len(pending) : m = pending[i].id
      BY <1>5, <2>1 DEF PendingIds
    <3> QED BY <3>1, QueueRow
  <2>2. ASSUME NEW p \in Queue PROVE p.id \in PendingIds
    <3>1. PICK i \in 1 .. Len(pending) : p = Row(pending[i])
      BY <1>2
    <3> QED BY <1>5, <3>1, QueueRow DEF PendingIds
  <2> QED BY <2>1, <2>2
<1>7. InOrder(pending)
  BY DEF OutboxInv, PendingInv, InOrder
<1> QED BY <1>3, <1>4, <1>5, <1>6, <1>7

(* A row is ready when its identity is.                                    *)
LEMMA ReadyIs ==
  ASSUME OutboxInv
  PROVE  /\ \A m : m \in ReadyIds
                     <=> m \in PendingIds /\ \E r \in receipts : r.id = m /\ TerminallyReady(r)
         /\ \A i \in 1 .. Len(pending) : Ready(pending[i]) <=> pending[i].id \in ReadyIds
         /\ \A D \in SUBSET ReadyIds : \A m \in D : \E p \in Queue : p.id = m
<1>1. ToSet(pending) = {pending[i] : i \in 1 .. Len(pending)}
  BY QueueIs
<1>2. \A p : Ready(p) <=> \E r \in receipts : r.id = p.id /\ TerminallyReady(r)
  BY DEF Ready, ReceiptsOf
<1>3. \A m : m \in ReadyIds
               <=> m \in PendingIds /\ \E r \in receipts : r.id = m /\ TerminallyReady(r)
  BY <1>2 DEF ReadyIds, PendingIds
<1>4. ASSUME NEW i \in 1 .. Len(pending) PROVE Ready(pending[i]) <=> pending[i].id \in ReadyIds
  <2>1. pending[i].id \in PendingIds
    BY <1>1 DEF PendingIds
  <2> QED BY <1>2, <1>3, <2>1
<1>5. \A D \in SUBSET ReadyIds : \A m \in D : \E p \in Queue : p.id = m
  BY <1>3, QueueIs
<1> QED BY <1>3, <1>4, <1>5

(* What is ready stays so: receipts of pending mutations are kept, the     *)
(* cursor goes forward.                                                    *)
LEMMA ReadyStays ==
  ASSUME OutboxInv, OutboxInv', ReceiptsKept, PendingIds \subseteq PendingIds',
         serverCursor \in Nat, serverCursor' \in Nat, serverCursor <= serverCursor',
         installed' = installed
  PROVE  ReadyIds \subseteq ReadyIds'
<1> SUFFICES ASSUME NEW m \in ReadyIds PROVE m \in ReadyIds'
  OBVIOUS
<1>1. PICK r \in receipts : m \in PendingIds /\ r.id = m /\ TerminallyReady(r)
  BY ReadyIs
<1>2. PICK i \in 1 .. Len(pending) : pending[i].id = m
  BY <1>1, QueueIs DEF PendingIds
<1>3. r \in receipts'
  BY <1>1, <1>2, ReceiptOfPending DEF ReceiptsKept
<1>4. r.at \in Nat
  BY DEF OutboxInv, ClientTypeInv, ReceiptRecords
<1>5. TerminallyReady(r)'
  BY <1>1, <1>4 DEF TerminallyReady
<1>6. \E q \in receipts' : q.id = m /\ TerminallyReady(q)'
  BY <1>1, <1>3, <1>5
<1>7. PICK p \in ToSet(pending)' : p.id = m
  BY <1>1 DEF PendingIds
<1>8. Ready(p)'
  BY <1>6, <1>7 DEF Ready, ReceiptsOf
<1> QED BY <1>7, <1>8 DEF ReadyIds

(***************************************************************************)
(* Steps that leave the projection as it is.                               *)
(***************************************************************************)
Displays == <<canonical, retracted, fencedAt, visible, dirty, rebuild>>

(* What the projection is made of, and what it must be, are untouched.     *)
LEMMA SameProjection ==
  ASSUME NEW D, Queue' = Queue, UNCHANGED Displays,
         gate'.at = "delete" => gate.at = "delete", gate'.settling \subseteq gate.settling
  PROVE  /\ Projected(D) => Projected(D)'
         /\ Replaying(D) => Replaying(D)'
<1>1. /\ canonical' = canonical /\ retracted' = retracted /\ fencedAt' = fencedAt
      /\ visible' = visible /\ dirty' = dirty /\ rebuild' = rebuild
  BY DEF Displays
<1>2. Counted(D)' = Counted(D)
  BY DEF Counted
<1>3. Base' = Base
  BY <1>1 DEF Base, Unretracted
<1>4. ASSUME Projected(D) PROVE Projected(D)'
  <2>1. SUFFICES ASSUME rebuild = None PROVE Projects(Counted(D))'
    BY <1>1 DEF Projected
  <2>2. Projects(Counted(D))
    BY <1>4, <2>1 DEF Projected
  <2>4. Overlaid(Counted(D))'
    BY <1>1, <1>2, <1>3, <2>2 DEF Projects, Overlaid, Agrees
  <2>5. SinceFence(Counted(D))'
    BY <1>1, <1>2, <2>2 DEF Projects, SinceFence
  <2>6. RefusedFirst(Counted(D))'
    BY <1>1, <1>2, <2>2 DEF Projects, RefusedFirst
  <2>7. LeftOut(Counted(D))'
    BY <1>1, <1>2, <2>2 DEF Projects, LeftOut
  <2> QED BY <2>4, <2>5, <2>6, <2>7 DEF Projects
<1>5. ASSUME Replaying(D) PROVE Replaying(D)'
  <2>1. SUFFICES ASSUME rebuild # None, rebuild.at = "pending"
        PROVE  /\ \A k \in Keys \ retracted : Agrees(Passed(D), rebuild.content, k)'
               /\ \A k \in retracted : rebuild.content[k] = {}
               /\ \A p \in Passed(D) : p.id \notin gate'.settling
    <3>1. Passed(D)' = Passed(D)
      BY <1>1, <1>2 DEF Passed
    <3> QED BY <1>1, <3>1 DEF Replaying
  <2>2. /\ \A k \in Keys \ retracted : Agrees(Passed(D), rebuild.content, k)
        /\ \A k \in retracted : rebuild.content[k] = {}
        /\ \A p \in Passed(D) : p.id \notin gate.settling
    BY <1>5, <2>1 DEF Replaying
  <2>3. Passed(D)' = Passed(D)
    BY <1>1, <1>2 DEF Passed
  <2> QED BY <1>1, <1>3, <2>2, <2>3 DEF Agrees
<1> QED BY <1>4, <1>5

LEMMA ProjectionKept ==
  ASSUME ProjectionInv, ReadyIds \subseteq ReadyIds', Queue' = Queue, UNCHANGED Displays,
         gate'.at = "delete" => gate.at = "delete", gate'.settling \subseteq gate.settling
  PROVE  ProjectionInv'
<1>1. PICK D \in SUBSET ReadyIds : Projected(D) /\ Replaying(D)
  BY DEF ProjectionInv
<1>2. Projected(D)' /\ Replaying(D)'
  BY <1>1, SameProjection
<1> QED BY <1>1, <1>2 DEF ProjectionInv

LEMMA IdsOfRows ==
  ASSUME NEW X, NEW rows \in Seq(X)
  PROVE  {p.id : p \in ToSet(rows)} = {p.id : p \in RowsOf(rows)}
<1>1. ToSet(rows) = {rows[i] : i \in 1 .. Len(rows)}
  BY DEF ToSet
<1>2. \A p : Row(p).id = p.id
  BY DEF Row
<1> QED BY <1>1, <1>2 DEF RowsOf

LEMMA QueueIds ==
  ASSUME OutboxInv, OutboxInv'
  PROVE  /\ PendingIds = {p.id : p \in Queue}
         /\ PendingIds' = {p.id : p \in Queue'}
<1>1. pending \in Seq(PendingRows) /\ pending' \in Seq(PendingRows)
  BY DEF OutboxInv, ClientTypeInv
<1>2. PICK s : s = pending'
  OBVIOUS
<1>3. {p.id : p \in ToSet(s)} = {p.id : p \in RowsOf(s)}
  BY <1>1, <1>2, IdsOfRows
<1>4. PendingIds' = {p.id : p \in ToSet(s)} /\ Queue' = RowsOf(s)
  BY <1>2 DEF PendingIds, Queue, RowsOf
<1> QED BY <1>3, <1>4, QueueIs

LEMMA QueueUnchanged ==
  pending' = pending => Queue' = Queue
BY DEF Queue, RowsOf

LEMMA QueueMarked ==
  ASSUME OutboxInv, NEW ids, NEW from, NEW to, pending' = Marked(ids, from, to)
  PROVE  Queue' = Queue
<1>1. pending \in Seq(PendingRows)
  BY DEF OutboxInv, ClientTypeInv
<1>2. PICK n, s : n = Len(pending) /\ s = pending' /\ n \in Nat
  BY <1>1
<1>3. DOMAIN s = 1 .. n
  BY <1>1, <1>2 DEF Marked
<1>4. s = [i \in 1 .. n |-> s[i]]
  BY <1>1, <1>2 DEF Marked
<1>5. Len(s) = n
  BY <1>2, <1>4
<1>6. ASSUME NEW p \in PendingRows
      PROVE  Row([p EXCEPT !.state = to]) = Row(p)
  BY DEF Row, PendingRows
<1>7. ASSUME NEW i \in 1 .. n PROVE Row(s[i]) = Row(pending[i])
  <2>1. pending[i] \in PendingRows
    BY <1>1, <1>2
  <2>2. s[i] \in {pending[i], [pending[i] EXCEPT !.state = to]}
    BY <1>1, <1>2 DEF Marked
  <2> QED BY <1>6, <2>1, <2>2
<1>8. Queue = {Row(pending[i]) : i \in 1 .. n}
  BY <1>2 DEF Queue, RowsOf
<1>9. Queue' = {Row(s[i]) : i \in 1 .. n}
  BY <1>2, <1>5 DEF Queue, RowsOf
<1> QED BY <1>7, <1>8, <1>9

LEMMA WritesKept ==
  WritesInv /\ Queue' = Queue => WritesInv'
BY DEF WritesInv

LEMMA PagesKept ==
  ASSUME PageInv, view => view' \/ turn'.at # "page",
         \/ turn'.at \notin {"page", "install", "installExpired"}
         \/ turn'.at = turn.at /\ turn'.page = turn.page
  PROVE  PageInv'
BY DEF PageInv, PageType

(* A step that displays nothing and releases no row.                       *)
LEMMA CalmStep ==
  ASSUME OutboxInv, OutboxInv', VisibleInv, Queue' = Queue, UNCHANGED Displays,
         UNCHANGED <<view, serverCursor, installed, nextLocal, gate>>,
         ReceiptsKept, entities' \in Contents, PageInv'
  PROVE  VisibleInv'
<1>1. ContentInv'
  BY DEF VisibleInv, ContentInv, Displays
<1>2. WritesInv'
  BY WritesKept DEF VisibleInv
<1>3. ReadyIds \subseteq ReadyIds'
  <2>1. PendingIds \subseteq PendingIds'
    BY QueueIds
  <2>2. serverCursor \in Nat /\ serverCursor' = serverCursor /\ installed' = installed
    BY DEF VisibleInv, ContentInv
  <2> QED BY <2>1, <2>2, ReadyStays
<1>4. OperationInv'
  BY <1>3 DEF VisibleInv, OperationInv, Withdrawn, Displays
<1>5. CopyInv'
  BY DEF VisibleInv, CopyInv, Displays, Base, Unretracted
<1>6. ProjectionInv'
  BY <1>3, ProjectionKept DEF VisibleInv
<1> QED BY <1>1, <1>2, <1>4, <1>5, <1>6 DEF VisibleInv

LEMMA TurnFields ==
  ASSUME NEW t, TurnShape(t), NEW x, NEW y, NEW z
  PROVE  /\ [t EXCEPT !.at = x].at = x
         /\ [t EXCEPT !.at = x, !.page = y].at = x
         /\ [t EXCEPT !.at = x, !.page = y].page = y
         /\ [t EXCEPT !.at = x, !.page = y, !.expired = z].at = x
         /\ [t EXCEPT !.at = x, !.page = y, !.expired = z].page = y
         /\ [[t EXCEPT !.at = x, !.page = y] EXCEPT !.expired = z].at = x
         /\ [[t EXCEPT !.at = x, !.page = y] EXCEPT !.batch = z].at = x
         /\ [t EXCEPT !.answers = x].at = t.at
BY DEF TurnShape

(* Pages: what the server sends is well typed.                             *)
LEMMA WhatIsRead ==
  ASSUME OutboxInv, ContentInv
  PROVE  /\ PageType(Page) /\ PageType(Manifest) /\ Manifest.terminal \in Nat
         /\ Page.changed \subseteq Keys /\ Page.revoked \subseteq Page.changed
<1>1. Sees \in Contents
  BY DEF ContentInv, Contents, Sees
<1>2. head \in Nat /\ Len(decided) \in Nat
  BY DEF OutboxInv, ServerTypeInv
<1>3. Lowest(Differing, PageSize) \subseteq Keys
  BY DEF Lowest, Differing
<1> QED BY <1>1, <1>2, <1>3 DEF Page, Manifest, PageType

LEMMA PageElsewhere ==
  ASSUME turn'.at \notin {"page", "install", "installExpired"} PROVE PageInv'
BY DEF PageInv

LEMMA PageStays ==
  ASSUME PageInv, UNCHANGED <<turn, view>> PROVE PageInv'
BY DEF PageInv, PageType

LEMMA IdleIs ==
  ASSUME NEW x, NEW y
  PROVE  /\ Idle.at = "idle" /\ [Idle EXCEPT !.at = x].at = x
         /\ [Idle EXCEPT !.at = x, !.pass = y].at = x
BY DEF Idle

LEMMA PagePulled ==
  ASSUME OutboxInv, VisibleInv, Pull PROVE PageInv'
<1>1. TurnShape(turn) /\ view' = view
  BY DEF OutboxInv, ClientTypeInv, TurnType, Pull, viewVars
<1>2. PICK t, p, m : t = turn /\ p = Page /\ m = Manifest
  OBVIOUS
<1>3. /\ PageType(p) /\ PageType(m) /\ m.terminal \in Nat
      /\ p.changed \subseteq Keys /\ p.revoked \subseteq p.changed
  BY <1>2, WhatIsRead DEF VisibleInv
<1>4. \/ turn' = [t EXCEPT !.at = "revoke", !.page = None]
      \/ view /\ turn' = [t EXCEPT !.at = "page", !.page = p]
      \/ turn' = [t EXCEPT !.at = "install", !.page = m]
  BY <1>2 DEF Pull, TurnAt
<1>5. \/ turn'.at = "revoke"
      \/ view /\ turn'.at = "page" /\ turn'.page = p
      \/ turn'.at = "install" /\ turn'.page = m
  <2>1. TurnShape(t)
    BY <1>1, <1>2
  <2>2. CASE turn' = [t EXCEPT !.at = "revoke", !.page = None]
    BY <2>1, <2>2 DEF TurnShape
  <2>3. CASE view /\ turn' = [t EXCEPT !.at = "page", !.page = p]
    BY <2>1, <2>3 DEF TurnShape
  <2>4. CASE turn' = [t EXCEPT !.at = "install", !.page = m]
    BY <2>1, <2>4 DEF TurnShape
  <2> QED BY <1>4, <2>2, <2>3, <2>4
<1> QED BY <1>1, <1>3, <1>5 DEF PageInv, PageType

LEMMA PageRecovered ==
  ASSUME OutboxInv, VisibleInv, RecoverExpired PROVE PageInv'
<1>1. TurnShape(turn)
  BY DEF OutboxInv, ClientTypeInv, TurnType
<1>2. PICK t, m : t = turn /\ m = Manifest
  OBVIOUS
<1>3. PageType(m) /\ m.terminal \in Nat
  BY <1>2, WhatIsRead DEF VisibleInv
<1>4. \/ turn' = [[t EXCEPT !.at = "claim", !.page = None] EXCEPT !.expired = {}]
      \/ turn' = [[t EXCEPT !.at = "revoke", !.page = None] EXCEPT !.expired = {}]
      \/ turn' = [t EXCEPT !.at = "installExpired", !.page = m, !.expired = {}]
      \/ turn' = Idle
  BY <1>2 DEF RecoverExpired, TurnAt, Halt
<1>5. \/ turn'.at \in {"claim", "revoke", "idle"}
      \/ turn'.at = "installExpired" /\ turn'.page = m
  <2>1. TurnShape(t)
    BY <1>1, <1>2
  <2>2. CASE turn' = [[t EXCEPT !.at = "claim", !.page = None] EXCEPT !.expired = {}]
    BY <2>1, <2>2 DEF TurnShape
  <2>3. CASE turn' = [[t EXCEPT !.at = "revoke", !.page = None] EXCEPT !.expired = {}]
    BY <2>1, <2>3 DEF TurnShape
  <2>4. CASE turn' = [t EXCEPT !.at = "installExpired", !.page = m, !.expired = {}]
    BY <2>1, <2>4 DEF TurnShape
  <2> QED BY <1>4, <2>2, <2>3, <2>4, IdleIs
<1> QED BY <1>3, <1>5 DEF PageInv, PageType

LEMMA PageAfter ==
  ASSUME OutboxInv, VisibleInv,
         \/ Begin \/ ClaimSubmitBatch \/ ServerAnswers \/ ReceiveAnswers \/ LoseAnswers
         \/ PersistReceipt \/ ReceiptsPersisted
  PROVE  PageInv'
<1>1. PICK t : t = turn /\ TurnShape(t)
  BY DEF OutboxInv, ClientTypeInv, TurnType
<1>2. CASE Begin
  BY <1>2, IdleIs, PageElsewhere DEF Begin
<1>3. CASE ClaimSubmitBatch
  <2>1. turn' = TurnAt("settle") \/ \E through, batch : turn' =
          [turn EXCEPT !.at = "wire", !.through = through, !.batch = batch, !.answers = <<>>]
    BY <1>3 DEF ClaimSubmitBatch
  <2>2. turn'.at \in {"settle", "wire"}
    BY <1>1, <2>1 DEF TurnAt, TurnShape
  <2> QED BY <2>2, PageElsewhere
<1>4. CASE ServerAnswers
  <2>1. turn.at = "wire"
        /\ (turn' = Idle \/ \E r : turn' = [turn EXCEPT !.answers = Append(@, r)])
    BY <1>4 DEF ServerAnswers, Halt
  <2>2. turn'.at \in {"idle", "wire"}
    BY <1>1, <2>1, IdleIs DEF TurnShape
  <2> QED BY <2>2, PageElsewhere
<1>5. CASE ReceiveAnswers
  BY <1>1, <1>5, TurnFields, PageElsewhere DEF ReceiveAnswers
<1>6. CASE LoseAnswers
  BY <1>6, IdleIs, PageElsewhere DEF LoseAnswers
<1>7. CASE PersistReceipt
  <2>1. /\ turn.at = "receipts"
        /\ turn' = Idle
             \/ \E r, expired : turn' =
                  [turn EXCEPT !.answers = Tail(@), !.after = r.local, !.expired = expired]
    BY <1>7 DEF PersistReceipt, Halt
  <2>2. turn'.at \in {"idle", "receipts"}
    BY <1>1, <2>1, IdleIs DEF TurnShape
  <2> QED BY <2>2, PageElsewhere
<1>8. CASE ReceiptsPersisted
  <2>1. \E x \in {"claim", "settleExpired"} : turn' = [TurnAt(x) EXCEPT !.batch = <<>>]
    BY <1>8 DEF ReceiptsPersisted
  <2>2. turn'.at \in {"claim", "settleExpired"}
    BY <1>1, <2>1, TurnFields DEF TurnAt
  <2> QED BY <2>2, PageElsewhere
<1> QED BY <1>2, <1>3, <1>4, <1>5, <1>6, <1>7, <1>8

LEMMA EntitiesAfter ==
  ASSUME OutboxInv, VisibleInv, ServerAnswers \/ Environment PROVE entities' \in Contents
<1>1. entities \in Contents
  BY DEF VisibleInv, ContentInv
<1>2. CASE ServerAnswers
  <2>1. entities' = entities \/ entities' = Run(Asked.id, entities)
    BY <1>2 DEF ServerAnswers, Asked
  <2>2. Asked.id \in Mutations
    BY <1>2, NextOfBatch DEF ServerAnswers, PendingRows
  <2> QED BY <1>1, <2>1, <2>2, RunIs
<1>3. CASE Environment
  <2>1. entities' = entities
        \/ \E k \in Keys : \E content \in {{}, entities[k] \cup {Other}} :
             entities' = [entities EXCEPT ![k] = content]
    BY <1>3 DEF Environment, OtherWrites, SetPolicy, ReceiptsLapse
  <2>2. ASSUME NEW k \in Keys, NEW content \in {{}, entities[k] \cup {Other}},
               entities' = [entities EXCEPT ![k] = content]
        PROVE  entities' \in Contents
    BY <1>1, <2>2 DEF Contents
  <2> QED BY <1>1, <2>1, <2>2
<1> QED BY <1>2, <1>3

Calm ==
  \/ Begin \/ Pull \/ ClaimSubmitBatch \/ ServerAnswers \/ ReceiveAnswers \/ LoseAnswers
  \/ PersistReceipt \/ ReceiptsPersisted \/ RecoverExpired \/ ReadSettlements \/ Environment

(* Claims, answers, receipts and reads leave the projection alone.         *)
LEMMA CalmSteps ==
  ASSUME OutboxInv, OutboxInv', VisibleInv, Calm PROVE VisibleInv'
<1>1. UNCHANGED Displays /\ UNCHANGED <<view, serverCursor, installed, nextLocal, gate>>
  <2>1. CASE Begin \/ Pull \/ RecoverExpired
    BY <2>1 DEF Begin, Pull, RecoverExpired, viewVars, projectionVars, Displays
  <2>2. CASE ClaimSubmitBatch \/ ServerAnswers \/ ReceiveAnswers \/ LoseAnswers
    BY <2>2 DEF ClaimSubmitBatch, ServerAnswers, ReceiveAnswers, LoseAnswers, viewVars,
                projectionVars, Displays
  <2>3. CASE PersistReceipt \/ ReceiptsPersisted \/ ReadSettlements
    BY <2>3 DEF PersistReceipt, ReceiptsPersisted, ReadSettlements, viewVars, projectionVars,
                Displays
  <2>4. CASE Environment
    BY <2>4 DEF Environment, OtherWrites, SetPolicy, ReceiptsLapse, ClientUnchanged, viewVars,
                projectionVars, Displays
  <2> QED BY <2>1, <2>2, <2>3, <2>4 DEF Calm
<1>2. Queue' = Queue
  <2>1. CASE PersistReceipt
    <3>1. \E ids : pending' = Marked(ids, States, "Submitted") \/ pending' = MarksRetrying
      BY <2>1 DEF PersistReceipt
    <3> QED BY <3>1, QueueMarked DEF MarksRetrying
  <2>2. CASE ~ PersistReceipt
    <3>1. \/ pending' = pending \/ pending' = MarksRetrying
          \/ \E ids : pending' = Marked(ids, States, "Submitting")
      BY <2>2 DEF Calm, Begin, Pull, ClaimSubmitBatch, ServerAnswers, ReceiveAnswers, LoseAnswers,
                  ReceiptsPersisted, RecoverExpired, ReadSettlements, Environment, OtherWrites,
                  SetPolicy, ReceiptsLapse, ClientUnchanged
    <3> QED BY <3>1, QueueMarked, QueueUnchanged DEF MarksRetrying
  <2> QED BY <2>1, <2>2
<1>3. ReceiptsKept
  <2>1. CASE PersistReceipt
    BY <2>1, PersistStep DEF Steady
  <2>2. CASE ~ PersistReceipt
    <3>1. UNCHANGED receiptVars
      BY <2>2 DEF Calm, Begin, Pull, ClaimSubmitBatch, ServerAnswers, ReceiveAnswers, LoseAnswers,
                  ReceiptsPersisted, RecoverExpired, ReadSettlements, Environment, OtherWrites,
                  SetPolicy, ReceiptsLapse, ClientUnchanged
    <3> QED BY <3>1, ReceiptsUnchanged
  <2> QED BY <2>1, <2>2
<1>4. entities' \in Contents
  <2>1. CASE ServerAnswers \/ Environment
    BY <2>1, EntitiesAfter
  <2>2. CASE ~ (ServerAnswers \/ Environment)
    <3>1. entities' = entities
      BY <2>2 DEF Calm, Begin, Pull, ClaimSubmitBatch, ReceiveAnswers, LoseAnswers,
                  PersistReceipt, ReceiptsPersisted, RecoverExpired, ReadSettlements, serverVars
    <3> QED BY <3>1 DEF VisibleInv, ContentInv
  <2> QED BY <2>1, <2>2
<1>5. PageInv'
  <2>1. CASE Environment \/ ReadSettlements
    <3>1. UNCHANGED <<turn, view>>
      BY <1>1, <2>1 DEF Environment, OtherWrites, SetPolicy, ReceiptsLapse, ClientUnchanged,
                        ReadSettlements
    <3> QED BY <3>1, PageStays DEF VisibleInv
  <2> QED BY <2>1, PagePulled, PageRecovered, PageAfter DEF Calm
<1> QED BY <1>1, <1>2, <1>3, <1>4, <1>5, CalmStep

LEMMA HoldingIs ==
  ASSUME NEW op, NEW at, NEW settling
  PROVE  /\ Holding(op, at, settling).op = op /\ Holding(op, at, settling).at = at
         /\ Holding(op, at, settling).settling = settling
         /\ Free.op = "free" /\ Free.at = "none" /\ Free.settling = {}
BY DEF Holding, Free

LEMMA CleaningIs ==
  /\ Nothing \in Contents /\ Cleaning \in Generations /\ Cleaning # None
  /\ Cleaning.at = "clean" /\ Cleaning.after = 0
<1>1. Nothing \in Contents
  BY DEF Nothing, Contents
<1>2. Cleaning \in Generations
  BY <1>1 DEF Cleaning, Generations
<1> QED BY <1>1, <1>2, NoneAssumption DEF Cleaning

(* A rebuild that begins has nothing to agree with yet.                    *)
LEMMA ProjectionBegins ==
  ASSUME rebuild' = Cleaning PROVE ProjectionInv' /\ CopyInv'
<1>1. rebuild' # None /\ rebuild'.at = "clean" /\ rebuild'.after = 0
  BY CleaningIs
<1>2. Projected({})' /\ Replaying({})'
  BY <1>1 DEF Projected, Replaying
<1> QED BY <1>1, <1>2 DEF ProjectionInv, CopyInv

(* A step that changes what the gate holds at most, and no row.            *)
LEMMA GateStepKeeps ==
  ASSUME OutboxInv, OutboxInv', VisibleInv, Queue' = Queue, UNCHANGED Displays,
         UNCHANGED <<view, serverCursor, installed, nextLocal, serverVars, receiptVars>>,
         gate'.settling = {}, gate'.at # "delete",
         gate'.op \in {"install", "restore"} => gate'.at = "project",
         rebuild # None => /\ gate'.at \in {"project", "none"}
                           /\ gate'.op = "restore" \/ Withdrawn,
         PageInv'
  PROVE  VisibleInv'
<1>1. ContentInv'
  BY DEF VisibleInv, ContentInv, Displays, serverVars
<1>2. WritesInv'
  BY WritesKept DEF VisibleInv
<1>3. ReadyIds \subseteq ReadyIds'
  <2>1. PendingIds \subseteq PendingIds'
    BY QueueIds
  <2>2. serverCursor \in Nat /\ serverCursor' = serverCursor /\ installed' = installed
    BY DEF VisibleInv, ContentInv
  <2> QED BY <2>1, <2>2, ReadyStays, ReceiptsUnchanged
<1>4. OperationInv'
  BY DEF VisibleInv, OperationInv, Withdrawn, Displays
<1>5. CopyInv'
  BY DEF VisibleInv, CopyInv, Displays, Base, Unretracted
<1>6. ProjectionInv'
  BY <1>3, ProjectionKept DEF VisibleInv
<1> QED BY <1>1, <1>2, <1>4, <1>5, <1>6 DEF VisibleInv

(* An interrupted rebuild is taken up again.                               *)
LEMMA ResumeVisible ==
  ASSUME OutboxInv, OutboxInv', VisibleInv, ResumeRebuild PROVE VisibleInv'
<1>1. /\ UNCHANGED Displays
      /\ UNCHANGED <<view, serverCursor, installed, nextLocal, serverVars, receiptVars, turn>>
      /\ pending' = pending
  BY DEF ResumeRebuild, viewVars, projectionVars, Displays
<1>2. /\ gate'.op = "resume" /\ gate'.at = "project" /\ gate'.settling = {} /\ gate.op = "free"
  BY HoldingIs DEF ResumeRebuild
<1>3. rebuild # None => Withdrawn
  BY <1>2 DEF VisibleInv, OperationInv
<1>4. PageInv'
  BY <1>1, PageStays DEF VisibleInv
<1> QED BY <1>1, <1>2, <1>3, <1>4, QueueUnchanged, GateStepKeeps

(* Storage fails, in the midst of an operation.                            *)
LEMMA FailureVisible ==
  ASSUME OutboxInv, OutboxInv', VisibleInv, StorageFails, "install" \notin Fragile
  PROVE  VisibleInv'
<1>1. /\ UNCHANGED Displays
      /\ UNCHANGED <<view, serverCursor, installed, nextLocal, serverVars, receiptVars>>
      /\ pending' = pending
  BY DEF StorageFails, viewVars, projectionVars, Displays
<1>2. \/ gate'.op = "free" /\ gate'.at = "none" /\ gate'.settling = {}
      \/ /\ gate'.op = "failing" /\ gate'.at = "project" /\ gate'.settling = {}
         /\ gate.at = "prepare"
  BY HoldingIs DEF StorageFails
<1>3. rebuild # None => Withdrawn
  <2>1. SUFFICES ASSUME rebuild # None, gate.op = "install" PROVE FALSE
    BY DEF VisibleInv, OperationInv, StorageFails
  <2>2. gate.at = "project"
    BY <2>1 DEF VisibleInv, OperationInv
  <2> QED BY <2>1, <2>2 DEF StorageFails, MayFail
<1>4. rebuild # None => gate.at # "prepare"
  BY DEF VisibleInv, OperationInv
<1>5. PageInv'
  <2>1. turn' = turn \/ turn' = Idle
    BY DEF StorageFails
  <2> QED BY <1>1, <2>1, PageStays, PageElsewhere, IdleIs DEF VisibleInv
<1> QED BY <1>1, <1>2, <1>3, <1>4, <1>5, QueueUnchanged, GateStepKeeps

(* The process stops and starts again.                                     *)
LEMMA CrashVisible ==
  ASSUME OutboxInv, OutboxInv', VisibleInv, Crash PROVE VisibleInv'
<1>1. /\ UNCHANGED <<canonical, retracted, fencedAt, visible, dirty>>
      /\ UNCHANGED <<view, serverCursor, installed, nextLocal, serverVars, receiptVars>>
      /\ pending' = Marked(PendingIds, {"Submitting"}, "Retrying")
      /\ turn' = Idle
  BY DEF Crash, viewVars
<1>2. gate' = IF rebuild' = None THEN Free ELSE Holding("restore", "project", {})
  BY DEF Crash
<1>3. /\ rebuild' = None => gate'.op = "free" /\ gate'.at = "none"
      /\ rebuild' # None => gate'.op = "restore" /\ gate'.at = "project"
      /\ gate'.settling = {}
  BY <1>2, HoldingIs
<1>4. rebuild' = rebuild \/ rebuild' = Cleaning
  BY DEF Crash, RestoredProjection, Requested
<1>5. Queue' = Queue
  BY <1>1, QueueMarked
<1>6. PageInv'
  BY <1>1, PageElsewhere, IdleIs
<1>7. CASE rebuild' = rebuild
  <2>1. UNCHANGED Displays
    BY <1>1, <1>7 DEF Displays
  <2> QED BY <1>1, <1>3, <1>5, <1>6, <1>7, <2>1, GateStepKeeps
<1>8. CASE rebuild' = Cleaning
  <2>1. ContentInv'
    BY <1>1, <1>8, CleaningIs DEF VisibleInv, ContentInv, serverVars
  <2>2. WritesInv'
    BY <1>5, WritesKept DEF VisibleInv
  <2>3. OperationInv'
    BY <1>3, <1>8, CleaningIs DEF OperationInv
  <2> QED BY <1>6, <1>8, <2>1, <2>2, <2>3, ProjectionBegins DEF VisibleInv
<1> QED BY <1>4, <1>7, <1>8

LEMMA WrittenIs ==
  ASSUME NEW rows \in Seq(PendingRows)
  PROVE  /\ Written(rows) \subseteq Keys
         /\ \A k : k \in Written(rows) <=> \E i \in 1 .. Len(rows) : k \in rows[i].writes
<1>1. ToSet(rows) = {rows[i] : i \in 1 .. Len(rows)}
  BY DEF ToSet
<1>2. \A k : k \in Written(rows) <=> \E i \in 1 .. Len(rows) : k \in rows[i].writes
  BY <1>1 DEF Written
<1>3. \A i \in 1 .. Len(rows) : rows[i].writes \subseteq Keys
  BY RowIs
<1> QED BY <1>2, <1>3

LEMMA ProjectionDone ==
  ASSUME rebuild' = None, NEW D, D \in SUBSET ReadyIds', Projected(D)'
  PROVE  ProjectionInv' /\ CopyInv'
<1>1. Replaying(D)'
  BY DEF Replaying
<1> QED BY <1>1 DEF ProjectionInv, CopyInv

LEMMA DirtyGrows ==
  ASSUME rebuild = None, rebuild' = None, NEW D, Projected(D), Queue' = Queue,
         UNCHANGED <<canonical, retracted, fencedAt, visible>>, dirty \subseteq dirty',
         gate'.at = "delete" =>
           \A p \in Counted(D) : p.id \in gate'.settling => p.writes = {}
  PROVE  Projected(D)'
<1>1. Counted(D)' = Counted(D)
  BY DEF Counted
<1>2. Base' = Base
  BY DEF Base, Unretracted
<1>3. Projects(Counted(D))
  BY DEF Projected
<1>4. Overlaid(Counted(D))'
  BY <1>1, <1>2, <1>3 DEF Projects, Overlaid, Agrees
<1>5. SinceFence(Counted(D))'
  BY <1>1, <1>3 DEF Projects, SinceFence
<1>6. RefusedFirst(Counted(D))'
  BY <1>1, <1>3 DEF Projects, RefusedFirst
<1>7. LeftOut(Counted(D))'
  BY <1>1 DEF LeftOut
<1> QED BY <1>4, <1>5, <1>6, <1>7 DEF Projected, Projects

(* Settlements are prepared: their entities become dirty.                  *)
LEMMA PrepareVisible ==
  ASSUME OutboxInv, OutboxInv', VisibleInv, PreparePage \/ SettleReceipts
  PROVE  VisibleInv'
<1>1. /\ UNCHANGED <<canonical, retracted, fencedAt, visible, rebuild, pending>>
      /\ UNCHANGED <<view, serverCursor, installed, nextLocal, serverVars, turn>>
      /\ PruneThen({})
  BY DEF PreparePage, SettleReceipts, Prepare, viewVars
<1>2. rebuild = None /\ rebuild' = None
  BY <1>1 DEF PreparePage, SettleReceipts, VisibleInv, OperationInv
<1>3. PICK touched : touched = Written(Selected(pending, ReadyIds))
  OBVIOUS
<1>4. /\ dirty' = dirty \cup touched /\ gate'.settling = ReadyIds
      /\ gate'.op \in {"page", "settle"}
      /\ gate'.at = "delete" => touched = {}
      /\ gate'.at \in {"project", "delete"}
  <2>1. PICK op \in {"page", "settle"} : Prepare(op)
    BY DEF PreparePage, SettleReceipts
  <2> QED BY <1>3, <2>1, HoldingIs DEF Prepare
<1>5. /\ touched \subseteq Keys
      /\ touched = {} =>
           \A i \in 1 .. Len(pending) : pending[i].id \in ReadyIds => pending[i].writes = {}
  <2>1. PICK s, ids, chosen : s = pending /\ ids = ReadyIds /\ chosen = Selected(s, ids)
    OBVIOUS
  <2>2. s \in Seq(PendingRows) /\ touched = Written(chosen)
    BY <1>3, <2>1 DEF OutboxInv, ClientTypeInv
  <2>3. chosen \in Seq(PendingRows) /\ Selects(s, ids, Len(s), chosen)
    BY ONLY <2>1, <2>2, SelectedRows
  <2>4. /\ touched \subseteq Keys
        /\ \A k : k \in touched <=> \E i \in 1 .. Len(chosen) : k \in chosen[i].writes
    BY <2>2, <2>3, WrittenIs
  <2>5. \A i \in 1 .. Len(s) : s[i].id \in ids => \E j \in 1 .. Len(chosen) : chosen[j] = s[i]
    BY <2>3 DEF Selects
  <2>6. \A i \in 1 .. Len(s) : s[i].writes \subseteq Keys
    BY <2>2, RowIs
  <2>7. ASSUME touched = {}, NEW i \in 1 .. Len(s), s[i].id \in ids PROVE s[i].writes = {}
    <3>1. PICK j \in 1 .. Len(chosen) : chosen[j] = s[i]
      BY <2>5, <2>7
    <3>2. \A k : k \notin s[i].writes
      BY <2>4, <2>7, <3>1
    <3> QED BY <3>2
  <2>8. touched = {} => \A i \in 1 .. Len(s) : s[i].id \in ids => s[i].writes = {}
    BY ONLY <2>7
  <2> QED BY <2>1, <2>4, <2>8
<1>6. Queue' = Queue
  BY <1>1, QueueUnchanged
<1>7. PICK D \in SUBSET ReadyIds : Projected(D)
  BY DEF VisibleInv, ProjectionInv
<1>8. ReadyIds \subseteq ReadyIds'
  <2>1. PendingIds \subseteq PendingIds'
    BY <1>6, QueueIds
  <2>2. serverCursor \in Nat /\ serverCursor' = serverCursor /\ installed' = installed
    BY <1>1 DEF VisibleInv, ContentInv
  <2> QED BY <1>1, <2>1, <2>2, ReadyStays, NothingAdded
<1>9. gate'.at = "delete" => \A p \in Counted(D) : p.id \in gate'.settling => p.writes = {}
  <2>1. SUFFICES ASSUME gate'.at = "delete", NEW p \in Counted(D), p.id \in ReadyIds
                 PROVE  p.writes = {}
    BY <1>4
  <2>2. PICK i \in 1 .. Len(pending) : p = Row(pending[i])
    BY DEF Counted, Queue, RowsOf
  <2>3. pending[i].id = p.id /\ pending[i].writes = p.writes
    BY <2>2, QueueRow
  <2>4. touched = {} /\ pending[i].id \in ReadyIds
    BY <1>4, <2>1, <2>3
  <2>5. pending[i].writes = {}
    BY <1>5, <2>4
  <2> QED BY <2>3, <2>5
<1>10. Projected(D)'
  BY <1>1, <1>2, <1>4, <1>6, <1>7, <1>9, DirtyGrows
<1>11. ProjectionInv' /\ CopyInv'
  <2>1. D \in SUBSET ReadyIds'
    BY <1>8
  <2> QED BY <1>2, <1>10, <2>1, ProjectionDone
<1>12. ContentInv'
  BY <1>1, <1>4, <1>5 DEF VisibleInv, ContentInv, serverVars
<1>13. WritesInv'
  BY <1>6, WritesKept DEF VisibleInv
<1>14. OperationInv'
  BY <1>2, <1>4, <1>8 DEF OperationInv
<1>15. PageInv'
  BY <1>1, PageStays DEF VisibleInv
<1> QED BY <1>11, <1>12, <1>13, <1>14, <1>15 DEF VisibleInv

LEMMA ReadyKept ==
  ASSUME OutboxInv, OutboxInv', ContentInv, RowsKept, ReceiptsKept,
         UNCHANGED <<serverCursor, installed>>
  PROVE  ReadyIds \subseteq ReadyIds'
<1>1. PendingIds \subseteq PendingIds'
  <2>1. ASSUME NEW m \in PendingIds PROVE m \in PendingIds'
    <3>1. PICK i \in 1 .. Len(pending) : m = pending[i].id
      BY <2>1, QueueIs DEF PendingIds
    <3>2. pending' \in Seq(PendingRows) /\ i \in 1 .. Len(pending') /\ pending'[i].id = m
      BY <3>1 DEF RowsKept
    <3>3. PICK s : s = pending'
      OBVIOUS
    <3>4. s[i] \in ToSet(s)
      BY <3>2, <3>3 DEF ToSet
    <3> QED BY <3>2, <3>3, <3>4 DEF PendingIds
  <2> QED BY <2>1
<1>2. serverCursor \in Nat /\ serverCursor' = serverCursor /\ installed' = installed
  BY DEF ContentInv
<1> QED BY <1>1, <1>2, ReadyStays

LEMMA ProjectFacts ==
  ASSUME OutboxInv, OutboxInv', VisibleInv, Project
  PROVE  /\ UNCHANGED <<canonical, retracted, fencedAt, serverCursor, installed, view, entities>>
         /\ nextLocal' = nextLocal /\ Base' = Base /\ PageInv'
         /\ ReadyIds \subseteq ReadyIds'
         /\ gate'.settling = gate.settling /\ gate'.op = gate.op
         /\ gate.settling \subseteq ReadyIds
         /\ rebuild = None => ApplyDelta /\ rebuild' = None /\ gate'.at = "delete"
         /\ rebuild # None => RebuildStep
         /\ rebuild # None /\ rebuild' = None => gate'.at = "delete"
         /\ rebuild # None /\ rebuild' # None => gate' = gate
<1>1. /\ UNCHANGED <<canonical, retracted, fencedAt, serverCursor, installed, view, entities>>
      /\ nextLocal' = nextLocal /\ UNCHANGED <<turn, receiptVars>>
  BY DEF Project, viewVars, serverVars
<1>2. gate = [op |-> gate.op, at |-> gate.at, settling |-> gate.settling]
  BY DEF OutboxInv, ClientTypeInv, GateType
<1>3. Base' = Base
  BY <1>1 DEF Base, Unretracted
<1>4. PageInv'
  BY <1>1, PageStays DEF VisibleInv
<1>5. ReadyIds \subseteq ReadyIds'
  <2>1. RowsKept
    BY ProjectRows DEF Project
  <2> QED BY <1>1, <2>1, ReadyKept, ReceiptsUnchanged DEF VisibleInv
<1>6. gate' \in {gate, [gate EXCEPT !.at = "delete"]}
  BY DEF Project
<1>7. /\ gate'.settling = gate.settling /\ gate'.op = gate.op
      /\ gate' = [gate EXCEPT !.at = "delete"] => gate'.at = "delete"
  BY <1>2, <1>6
<1>8. /\ rebuild = None => ApplyDelta /\ rebuild' = None /\ gate'.at = "delete"
      /\ rebuild # None => RebuildStep
      /\ rebuild # None /\ rebuild' = None => gate'.at = "delete"
      /\ rebuild # None /\ rebuild' # None => gate' = gate
  BY <1>7 DEF Project, ApplyDelta
<1>9. gate.settling \subseteq ReadyIds
  BY DEF VisibleInv, OperationInv
<1> QED BY <1>1, <1>3, <1>4, <1>5, <1>7, <1>8, <1>9

(* In what replay shows, a row that was refused comes before what is       *)
(* visible of its entity.                                                  *)
LEMMA RefusedBefore ==
  ASSUME NEW E, NEW k, NEW base, NEW q \in E, KeyOf[q.id] = k, ~ Live(E, q, base),
         \A p \in E : p.local \in Nat, \A p \in E : p.local = q.local => p = q
  PROVE  \A m \in Shown(E, k, base) :
           \E p \in E : p.id = m /\ KeyOf[m] = k /\ Live(E, p, base) /\ q.local < p.local
<1> TAKE m \in Shown(E, k, base)
<1>1. base = {} /\ q.id \in Strict
      /\ \A p \in E : KeyOf[p.id] = k /\ p.local < q.local => p.id \in Strict
  BY DEF Live
<1>2. PICK p \in E : p.id = m /\ KeyOf[p.id] = k /\ Live(E, p, base)
  BY <1>1 DEF Shown
<1>3. p.local # q.local
  BY <1>2
<1>4. ~ (p.local < q.local)
  <2>1. SUFFICES ASSUME p.local < q.local PROVE FALSE
    OBVIOUS
  <2>2. p.id \in Strict
    BY <1>1, <1>2, <2>1
  <2>3. PICK r \in E : KeyOf[r.id] = k /\ r.local < p.local /\ r.id \notin Strict
    BY <1>1, <1>2, <2>2 DEF Live
  <2>4. r.local \in Nat /\ p.local \in Nat /\ q.local \in Nat
    OBVIOUS
  <2>5. r.local < q.local
    BY ONLY <2>1, <2>3, <2>4
  <2> QED BY <1>1, <2>3, <2>5
<1>5. p.local \in Nat /\ q.local \in Nat
  OBVIOUS
<1>6. q.local < p.local
  BY ONLY <1>3, <1>4, <1>5
<1> QED BY <1>2, <1>6

(* What agrees everywhere is projected.                                    *)
LEMMA WholeAfter ==
  ASSUME OutboxInv', rebuild' = None, NEW D, NEW E, E = Counted(D)',
         NEW base, base = Base', NEW content, content = visible',
         \A k \in Keys \ retracted' :
           /\ content[k] = Shown(E, k, base[k])
           /\ \A p \in E : KeyOf[p.id] = k => (p.writes = {} <=> ~ Live(E, p, base[k])),
         \A k \in Keys \cap retracted' : content[k] = {}, retracted' \subseteq Keys,
         \A p \in E : p.id \notin gate'.settling,
         \A p \in E : p.local \in Nat /\ KeyOf[p.id] \in Keys,
         \A p, q \in E : p.local = q.local => p = q
  PROVE  Projected(D)'
<1>1. ASSUME NEW k \in Keys \ retracted' PROVE Agrees(Counted(D), visible, k)'
  BY <1>1 DEF Agrees
<1>2. Overlaid(Counted(D))'
  BY <1>1 DEF Overlaid
<1>3. SinceFence(Counted(D))'
  BY DEF SinceFence
<1>4. ASSUME NEW q \in E, q.writes = {}, NEW m \in content[KeyOf[q.id]]
      PROVE  \E p \in E : p.id = m /\ KeyOf[m] = KeyOf[q.id] /\ p.writes # {} /\ q.local < p.local
  <2>1. PICK k : k = KeyOf[q.id]
    OBVIOUS
  <2>2. k \in Keys \ retracted' /\ m \in content[k]
    BY <1>4, <2>1
  <2>3. PICK b : b = base[k]
    OBVIOUS
  <2>4. content[k] = Shown(E, k, b) /\ ~ Live(E, q, b)
    BY <1>4, <2>1, <2>2, <2>3
  <2>5. m \in Shown(E, k, b)
    BY <2>2, <2>4
  <2>6. \A p \in E : p.local \in Nat
    OBVIOUS
  <2>7. \A p \in E : p.local = q.local => p = q
    OBVIOUS
  <2>8. KeyOf[q.id] = k
    BY <2>1
  <2>9. PICK p \in E : p.id = m /\ KeyOf[m] = k /\ Live(E, p, b) /\ q.local < p.local
    BY ONLY <1>4, <2>4, <2>5, <2>6, <2>7, <2>8, RefusedBefore
  <2>10. p.writes # {}
    BY <2>2, <2>3, <2>9
  <2> QED BY <2>1, <2>9, <2>10
<1>5. RefusedFirst(Counted(D))'
  BY <1>4 DEF RefusedFirst
<1>6. LeftOut(Counted(D))'
  BY DEF LeftOut
<1> QED BY <1>2, <1>3, <1>5, <1>6 DEF Projected, Projects

LEMMA RowsAre ==
  ASSUME NEW rows \in Seq(PendingRows), InOrder(rows)
  PROVE  /\ \A p \in RowsOf(rows) :
              /\ \E i \in 1 .. Len(rows) : p = Row(rows[i])
              /\ p.local \in Nat /\ p.id \in Mutations /\ KeyOf[p.id] \in Keys
         /\ \A p, q \in RowsOf(rows) : p.local = q.local => p = q
<1>1. PICK n : n = Len(rows)
  OBVIOUS
<1>2. n \in Nat /\ \A p \in RowsOf(rows) : \E i \in 1 .. n : p = Row(rows[i])
  BY <1>1 DEF RowsOf
<1>3. \A i \in 1 .. n : /\ Row(rows[i]).local = rows[i].local /\ rows[i].local \in Nat
                        /\ Row(rows[i]).id \in Mutations /\ KeyOf[Row(rows[i]).id] \in Keys
  BY <1>1, RowIs
<1>4. ASSUME NEW p \in RowsOf(rows), NEW q \in RowsOf(rows), p.local = q.local PROVE p = q
  <2>1. PICK i \in 1 .. n : p = Row(rows[i])
    BY <1>2
  <2>2. PICK j \in 1 .. n : q = Row(rows[j])
    BY <1>2
  <2>3. PICK a : a = rows[i].local
    OBVIOUS
  <2>4. PICK b : b = rows[j].local
    OBVIOUS
  <2>5. a = b /\ a \in Nat /\ (i < j => a < b) /\ (j < i => b < a)
    BY <1>1, <1>3, <1>4, <2>1, <2>2, <2>3, <2>4 DEF InOrder
  <2>6. i = j
    BY ONLY <2>5, <1>2, i \in 1 .. n, j \in 1 .. n
  <2> QED BY <2>1, <2>2, <2>6
<1> QED BY <1>1, <1>2, <1>3, <1>4

LEMMA QueueNext ==
  ASSUME OutboxInv'
  PROVE  /\ \A p \in Queue' : p.local \in Nat /\ KeyOf[p.id] \in Keys
         /\ \A p, q \in Queue' : p.local = q.local => p = q
<1>1. PICK s : s = pending'
  OBVIOUS
<1>2. s \in Seq(PendingRows) /\ InOrder(s)
  BY <1>1 DEF OutboxInv, ClientTypeInv, PendingInv, InOrder
<1>3. Queue' = RowsOf(s)
  BY <1>1 DEF Queue, RowsOf
<1> QED BY <1>2, <1>3, RowsAre

(* The rest of the invariant, when no rebuild is left.                     *)
LEMMA ProjectDone ==
  ASSUME OutboxInv, OutboxInv', VisibleInv, Project, rebuild' = None, visible' \in Contents,
         dirty' = {}, WritesInv', NEW D, D \in SUBSET ReadyIds', Projected(D)'
  PROVE  VisibleInv'
<1>1. ProjectionInv' /\ CopyInv'
  BY ProjectionDone
<1>2. ContentInv'
  BY ProjectFacts DEF VisibleInv, ContentInv
<1>3. OperationInv'
  BY ProjectFacts DEF OperationInv
<1> QED BY <1>1, <1>2, <1>3, ProjectFacts DEF VisibleInv

(* The same, when a rebuild goes on.                                       *)
LEMMA ProjectGoesOn ==
  ASSUME OutboxInv, OutboxInv', VisibleInv, Project, rebuild # None, rebuild' # None,
         rebuild' \in Generations, visible' = visible, dirty' \subseteq Keys, WritesInv',
         CopyInv', NEW D, D \in SUBSET ReadyIds', Replaying(D)'
  PROVE  VisibleInv'
<1>1. ProjectionInv'
  BY DEF ProjectionInv, Projected
<1>2. ContentInv'
  BY ProjectFacts DEF VisibleInv, ContentInv
<1>3. OperationInv'
  BY ProjectFacts DEF VisibleInv, OperationInv, Withdrawn
<1> QED BY <1>1, <1>2, <1>3, ProjectFacts DEF VisibleInv

LEMMA GenerationIs ==
  ASSUME NEW g \in Generations
  PROVE  g.content \in Contents /\ g.after \in Nat /\ g.at \in {"clean", "canonical", "pending"}
BY DEF Generations

LEMMA GenerationAt ==
  ASSUME NEW g \in Generations, NEW x \in {"clean", "canonical", "pending"},
         NEW h, h = [g EXCEPT !.at = x]
  PROVE  h \in Generations /\ h.at = x /\ h.content = g.content /\ h.after = g.after
BY DEF Generations

LEMMA GenerationOf ==
  ASSUME NEW g \in Generations, NEW c \in Contents, NEW h, h = [g EXCEPT !.content = c]
  PROVE  h \in Generations /\ h.at = g.at /\ h.content = c /\ h.after = g.after
BY DEF Generations

LEMMA GenerationAfter ==
  ASSUME NEW g \in Generations, NEW c \in Contents, NEW n \in Nat,
         NEW h, h = [g EXCEPT !.content = c, !.after = n]
  PROVE  h \in Generations /\ h.at = g.at /\ h.content = c /\ h.after = n
BY DEF Generations

(* The target generation is emptied.                                       *)
LEMMA CleanVisible ==
  ASSUME OutboxInv, OutboxInv', VisibleInv, Project, rebuild # None, CleanTarget
  PROVE  VisibleInv'
<1>1. PICK g : g = rebuild /\ g \in Generations
  BY DEF VisibleInv, ContentInv
<1>2. rebuild' = [g EXCEPT !.content = Nothing, !.at = "canonical"]
  BY <1>1 DEF CleanTarget
<1>3. /\ rebuild' \in Generations /\ rebuild'.content = Nothing /\ rebuild'.at = "canonical"
      /\ rebuild'.after = g.after
  <2>1. PICK c, h : c = Nothing /\ h = [g EXCEPT !.content = c]
    OBVIOUS
  <2>2. c \in Contents
    BY <2>1, CleaningIs
  <2>3. h \in Generations /\ h.content = c /\ h.after = g.after
    BY <1>1, <2>1, <2>2, GenerationOf
  <2>4. PICK r : r = [h EXCEPT !.at = "canonical"]
    OBVIOUS
  <2>5. r \in Generations /\ r.content = c /\ r.at = "canonical" /\ r.after = h.after
    BY ONLY <2>3, <2>4, GenerationAt
  <2>6. rebuild' = r
    BY <1>2, <2>1, <2>4
  <2> QED BY <2>1, <2>3, <2>5, <2>6
<1>4. g.after = 0
  BY <1>1 DEF VisibleInv, CopyInv, CleanTarget
<1>5. CopyInv'
  BY <1>3, <1>4 DEF CopyInv, Nothing
<1>6. Replaying({})' /\ {} \in SUBSET ReadyIds'
  BY <1>3 DEF Replaying
<1>7. visible' = visible /\ dirty' \subseteq Keys /\ Queue' = Queue
  BY QueueUnchanged DEF CleanTarget, VisibleInv, ContentInv
<1>8. WritesInv'
  BY <1>7, WritesKept DEF VisibleInv
<1>9. rebuild' # None
  BY <1>3, NoneAssumption
<1> QED BY <1>3, <1>5, <1>6, <1>7, <1>8, <1>9, ProjectGoesOn

LEMMA LowestIs ==
  ASSUME NEW S \in SUBSET Keys, NEW n \in Nat \ {0}
  PROVE  /\ Lowest(S, n) \subseteq S
         /\ Lowest(S, n) = {} => S = {}
<1>1. Lowest(S, n) \subseteq S
  BY DEF Lowest
<1>2. ASSUME S # {} PROVE Lowest(S, n) # {}
  <2>1. S \in SUBSET Nat
    BY LocalStoreAssumption
  <2>2. PICK x \in S : \A y \in S : x <= y
    BY <1>2, <2>1, MinExists
  <2>3. {y \in S : y < x} = {}
    <3>1. ASSUME NEW y \in S, y < x PROVE FALSE
      <4>1. y \in Nat /\ x \in Nat /\ x <= y
        BY <2>1, <2>2
      <4> QED BY ONLY <3>1, <4>1
    <3> QED BY <3>1
  <2>4. Cardinality({y \in S : y < x}) = 0
    BY <2>3, FS_EmptySet
  <2> QED BY <2>4 DEF Lowest
<1> QED BY <1>1, <1>2

(* A batch of what is canonical is copied.                                 *)
LEMMA CopyVisible ==
  ASSUME OutboxInv, OutboxInv', VisibleInv, Project, rebuild # None, CopyCanonical
  PROVE  VisibleInv'
<1>1. PICK g, base : g = rebuild /\ g \in Generations /\ base = Base
  BY DEF VisibleInv, ContentInv
<1>2. PICK batch : batch = Lowest(Uncopied, ReplayBatch)
  OBVIOUS
<1>3. /\ g.at = "canonical" /\ g.after = 0 /\ g.content \in Contents
      /\ \A k \in Keys : g.content[k] \in {{}, base[k]}
  BY <1>1, GenerationIs DEF CopyCanonical, VisibleInv, CopyInv
<1>4. /\ \A k : k \in Uncopied <=> k \in Keys /\ base[k] # {} /\ g.content[k] = {}
      /\ \A k \in Keys : base[k] = IF k \in retracted THEN {} ELSE canonical[k]
  BY <1>1 DEF Uncopied, Base, Unretracted
<1>5. batch \subseteq Uncopied /\ (batch = {} => Uncopied = {})
  <2>1. Uncopied \in SUBSET Keys /\ ReplayBatch \in Nat \ {0}
    BY LocalStoreAssumption DEF Uncopied
  <2> QED BY <1>2, <2>1, LowestIs
<1>6. visible' = visible /\ dirty' \subseteq Keys /\ Queue' = Queue
  BY QueueUnchanged DEF CopyCanonical, VisibleInv, ContentInv
<1>7. WritesInv'
  BY <1>6, WritesKept DEF VisibleInv
<1>8. Base' = base /\ retracted' = retracted
  BY <1>1, ProjectFacts
<1>9. CASE batch = {}
  <2>1. rebuild' = [g EXCEPT !.at = "pending"]
    BY <1>1, <1>2, <1>9 DEF CopyCanonical
  <2>2. /\ rebuild' \in Generations /\ rebuild'.content = g.content /\ rebuild'.at = "pending"
        /\ rebuild'.after = 0
    BY <1>1, <1>3, <2>1, GenerationAt
  <2>3. \A k \in Keys : g.content[k] = base[k]
    BY <1>3, <1>4, <1>5, <1>9
  <2>4. Passed({})' = {}
    <3>1. \A p \in Queue' : p.local >= 1
      BY <1>6, QueueIs
    <3>2. \A p \in Queue' : p.local \in Nat
      BY QueueNext
    <3> QED BY <2>2, <3>1, <3>2 DEF Passed, Counted
  <2>5. ASSUME NEW k \in Keys PROVE Agrees(Passed({}), rebuild.content, k)'
    <3>1. Shown({}, k, base[k]) = base[k]
      BY DEF Shown
    <3> QED BY <1>8, <2>2, <2>3, <2>4, <3>1 DEF Agrees
  <2>6. \A k \in retracted : rebuild'.content[k] = {}
    BY <1>4, <2>2, <2>3 DEF VisibleInv, ContentInv
  <2>7. Replaying({})' /\ {} \in SUBSET ReadyIds'
    BY <1>8, <2>4, <2>5, <2>6 DEF Replaying
  <2>8. CopyInv' /\ rebuild' # None
    BY <2>2, NoneAssumption DEF CopyInv
  <2> QED BY <1>6, <1>7, <2>2, <2>7, <2>8, ProjectGoesOn
<1>10. CASE batch # {}
  <2>1. PICK c : c = [k \in Keys |-> IF k \in batch THEN canonical[k] ELSE g.content[k]]
    OBVIOUS
  <2>2. rebuild' = [g EXCEPT !.content = c]
    BY <1>1, <1>2, <1>10, <2>1 DEF CopyCanonical
  <2>3. c \in Contents
    BY <1>3, <2>1 DEF Contents, VisibleInv, ContentInv
  <2>4. /\ rebuild' \in Generations /\ rebuild'.content = c /\ rebuild'.at = "canonical"
        /\ rebuild'.after = 0
    BY <1>1, <1>3, <2>2, <2>3, GenerationOf
  <2>5. \A k \in Keys : c[k] \in {{}, base[k]}
    BY <1>3, <1>4, <1>5, <2>1
  <2>6. CopyInv' /\ rebuild' # None
    BY <1>8, <2>4, <2>5, NoneAssumption DEF CopyInv
  <2>7. Replaying({})' /\ {} \in SUBSET ReadyIds'
    BY <2>4 DEF Replaying
  <2> QED BY <1>6, <1>7, <2>4, <2>6, <2>7, ProjectGoesOn
<1> QED BY <1>9, <1>10

(* A finished generation becomes what is visible.                          *)
LEMMA PromoteVisible ==
  ASSUME OutboxInv, OutboxInv', VisibleInv, Project, rebuild # None, Promote
  PROVE  VisibleInv'
<1>1. PICK g : g = rebuild /\ g \in Generations
  BY DEF VisibleInv, ContentInv
<1>2. PICK D \in SUBSET ReadyIds : Replaying(D)
  BY DEF VisibleInv, ProjectionInv
<1>3. /\ rebuild' = None /\ visible' = g.content /\ dirty' = {} /\ Queue' = Queue
      /\ g.at = "pending" /\ Rows = {}
  BY <1>1, QueueUnchanged DEF Promote
<1>4. g.content \in Contents /\ g.after \in Nat
  BY <1>1, GenerationIs
<1>5. Passed(D) = Counted(D)
  <2>1. ASSUME NEW p \in Queue PROVE p.local <= rebuild.after
    <3>1. PICK i \in 1 .. Len(pending) : p = Row(pending[i])
      BY DEF Queue, RowsOf
    <3>2. p.local = pending[i].local /\ p.local \in Nat
      BY <3>1, QueueRow
    <3>3. i \in DOMAIN pending
      BY DEF OutboxInv, ClientTypeInv
    <3>4. ~ (pending[i].local > rebuild.after)
      BY <1>3, <3>3 DEF Rows
    <3> QED BY <1>1, <1>4, <3>2, <3>4
  <2> QED BY <2>1 DEF Passed, Counted
<1>6. PICK E, base : E = Counted(D) /\ base = Base
  OBVIOUS
<1>7. Counted(D)' = E /\ Base' = base /\ retracted' = retracted /\ gate'.settling = gate.settling
  BY <1>3, <1>6, ProjectFacts DEF Counted
<1>8. /\ \A k \in Keys \ retracted : Agrees(E, g.content, k)
      /\ \A k \in retracted : g.content[k] = {}
      /\ \A p \in E : p.id \notin gate.settling
  BY <1>1, <1>2, <1>3, <1>5, <1>6 DEF Replaying
<1>9. \A k \in Keys \ retracted :
        /\ g.content[k] = Shown(E, k, base[k])
        /\ \A p \in E : KeyOf[p.id] = k => (p.writes = {} <=> ~ Live(E, p, base[k]))
  BY <1>6, <1>8 DEF Agrees
<1>10. /\ \A p \in E : p.local \in Nat /\ KeyOf[p.id] \in Keys
       /\ \A p, q \in E : p.local = q.local => p = q
  BY <1>6, QueueIs DEF Counted
<1>11. retracted \subseteq Keys
  BY DEF VisibleInv, ContentInv
<1>12. Projected(D)'
  BY <1>3, <1>7, <1>8, <1>9, <1>10, <1>11, WholeAfter
<1>13. WritesInv' /\ D \in SUBSET ReadyIds'
  BY <1>2, <1>3, WritesKept, ProjectFacts DEF VisibleInv
<1> QED BY <1>3, <1>4, <1>12, <1>13, ProjectDone

LEMMA RowOfQueue ==
  ASSUME OutboxInv, NEW p \in Queue
  PROVE  \E i \in 1 .. Len(pending) :
           /\ p = Row(pending[i]) /\ p.id = pending[i].id /\ p.local = pending[i].local
           /\ p.writes = pending[i].writes
           /\ pending[i] \in ToSet(pending) /\ i \in DOMAIN pending
           /\ Ready(pending[i]) <=> p.id \in ReadyIds
<1>1. PICK i \in 1 .. Len(pending) : p = Row(pending[i])
  BY DEF Queue, RowsOf
<1>2. p.id = pending[i].id /\ p.local = pending[i].local /\ p.writes = pending[i].writes
  BY <1>1, QueueRow
<1>3. pending[i] \in ToSet(pending) /\ i \in DOMAIN pending
  BY QueueIs DEF OutboxInv, ClientTypeInv
<1>4. Ready(pending[i]) <=> p.id \in ReadyIds
  BY <1>2, ReadyIs
<1> QED BY <1>1, <1>2, <1>3, <1>4

\* what the shortcut has compared
LEMMA MatchIs ==
  ASSUME OutboxInv, MatchesReplay
  PROVE  /\ \A p, q \in Queue : p.local < q.local /\ q.id \in ReadyIds => p.id \in ReadyIds
         /\ \A p \in Queue : \A k \in p.writes : p.id \in ReadyIds <=> k \in dirty
         /\ \A k \in dirty : visible[k] = Base[k]
<1>1. ASSUME NEW p \in Queue, NEW q \in Queue, p.local < q.local, q.id \in ReadyIds
      PROVE  p.id \in ReadyIds
  <2>1. PICK i \in 1 .. Len(pending) :
          /\ p.local = pending[i].local /\ i \in DOMAIN pending
          /\ Ready(pending[i]) <=> p.id \in ReadyIds
    BY RowOfQueue
  <2>2. PICK j \in 1 .. Len(pending) :
          /\ q.local = pending[j].local /\ j \in DOMAIN pending
          /\ Ready(pending[j]) <=> q.id \in ReadyIds
    BY RowOfQueue
  <2>3. i < j
    <3>1. PICK n : n = Len(pending)
      OBVIOUS
    <3>2. n \in Nat /\ i \in 1 .. n /\ j \in 1 .. n
      BY <3>1 DEF OutboxInv, ClientTypeInv
    <3>3. p.local \in Nat /\ q.local \in Nat
      BY QueueIs
    <3>4. j < i => q.local < p.local
      BY <2>1, <2>2 DEF OutboxInv, PendingInv
    <3>5. i # j
      BY <1>1, <2>1, <2>2, <3>3
    <3> QED BY ONLY <1>1, <3>2, <3>3, <3>4, <3>5
  <2> QED BY <1>1, <2>1, <2>2, <2>3 DEF MatchesReplay
<1>2. ASSUME NEW p \in Queue, NEW k \in p.writes PROVE p.id \in ReadyIds <=> k \in dirty
  <2>1. PICK i \in 1 .. Len(pending) :
          /\ p.writes = pending[i].writes /\ pending[i] \in ToSet(pending)
          /\ Ready(pending[i]) <=> p.id \in ReadyIds
    BY RowOfQueue
  <2> QED BY <2>1 DEF MatchesReplay
<1>3. \A k \in dirty : visible[k] = Base[k]
  BY DEF MatchesReplay, Base
<1> QED BY <1>1, <1>2, <1>3

LEMMA NoneShown ==
  ASSUME NEW E, NEW k, NEW base, \A p \in E : KeyOf[p.id] = k => ~ Live(E, p, base)
  PROVE  Shown(E, k, base) = base
BY DEF Shown

(* Nothing needs to be recomputed.                                         *)
LEMMA ShortcutVisible ==
  ASSUME OutboxInv, OutboxInv', VisibleInv, Project, rebuild = None, MatchesReplay
  PROVE  VisibleInv'
<1>1. /\ visible' = visible /\ pending' = pending /\ dirty' = {} /\ rebuild' = None
      /\ Queue' = Queue
  BY ProjectFacts, QueueUnchanged DEF ApplyDelta
<1>2. PICK D \in SUBSET ReadyIds : Projected(D)
  BY DEF VisibleInv, ProjectionInv
<1>3. PICK F, E, base : F = Counted(D) /\ E = Counted(ReadyIds) /\ base = Base
  OBVIOUS
<1>4. /\ E = {p \in Queue : p.id \notin ReadyIds} /\ F = {p \in Queue : p.id \notin D}
      /\ E \subseteq F
  BY <1>3 DEF Counted
<1>5. Projects(F)
  BY <1>2, <1>3 DEF Projected
<1>6. /\ \A p, q \in Queue : p.local < q.local /\ q.id \in ReadyIds => p.id \in ReadyIds
      /\ \A p \in Queue : \A k \in p.writes : p.id \in ReadyIds <=> k \in dirty
      /\ \A k \in dirty : visible[k] = base[k]
  BY <1>3, MatchIs
<1>7. \A p \in Queue : /\ p.writes \in {{}, {KeyOf[p.id]}} /\ KeyOf[p.id] \in Keys
                       /\ p.id \notin Strict => p.writes # {}
  BY QueueIs DEF VisibleInv, WritesInv
<1>8. /\ canonical' = canonical /\ retracted' = retracted /\ fencedAt' = fencedAt /\ Base' = base
      /\ gate'.settling \subseteq ReadyIds /\ ReadyIds \subseteq ReadyIds'
  BY <1>3, ProjectFacts
<1>9. ASSUME NEW q \in E, q.writes = {}, NEW m \in visible[KeyOf[q.id]]
      PROVE  \E p \in E : p.id = m /\ KeyOf[m] = KeyOf[q.id] /\ p.writes # {} /\ q.local < p.local
  <2>1. PICK p \in F : p.id = m /\ KeyOf[m] = KeyOf[q.id] /\ p.writes # {} /\ q.local < p.local
    BY <1>4, <1>5, <1>9 DEF Projects, RefusedFirst
  <2>2. p \in E
    BY <1>4, <1>6, <2>1
  <2> QED BY <2>1, <2>2
<1>10. ASSUME NEW k \in Keys \ retracted
       PROVE  /\ visible[k] = Shown(E, k, base[k])
              /\ \A p \in E : KeyOf[p.id] = k => (p.writes = {} <=> ~ Live(E, p, base[k]))
  <2>1. CASE k \in dirty
    <3>1. visible[k] = base[k]
      BY <1>6, <2>1
    <3>2. \A p \in E : KeyOf[p.id] = k => p.writes = {} /\ p.id \in Strict
      BY <1>4, <1>6, <1>7, <2>1
    <3>3. ASSUME NEW p \in E, KeyOf[p.id] = k PROVE p.writes = {} /\ ~ Live(E, p, base[k])
      <4>1. base[k] = {}
        BY <1>9, <3>1, <3>2, <3>3
      <4> QED BY <3>2, <3>3, <4>1 DEF Live
    <3>4. \A p \in E : KeyOf[p.id] = k => ~ Live(E, p, base[k])
      BY <3>3
    <3> QED BY <3>1, <3>3, <3>4, NoneShown
  <2>2. CASE k \notin dirty
    <3>1. /\ visible[k] = Shown(F, k, base[k])
          /\ \A p \in F : KeyOf[p.id] = k => (p.writes = {} <=> ~ Live(F, p, base[k]))
      BY <1>3, <1>5, <2>2 DEF Projects, Overlaid, Agrees
    <3>2. ASSUME NEW p \in F \ E, KeyOf[p.id] = k PROVE ~ Live(F, p, base[k])
      <4>1. p.writes = {}
        BY <1>4, <1>6, <1>7, <2>2, <3>2
      <4> QED BY <3>1, <3>2, <4>1
    <3>3. \A p \in F \ E : KeyOf[p.id] = k => ~ Live(F, p, base[k])
      BY <3>2
    <3>4. PICK b : b = base[k]
      OBVIOUS
    <3>5. \A p \in F \ E : KeyOf[p.id] = k => ~ Live(F, p, b)
      BY <3>3, <3>4
    <3>6. E \in SUBSET F
      BY <1>4
    <3>7. /\ Shown(E, k, b) = Shown(F, k, b)
          /\ \A p \in E : KeyOf[p.id] = k => (Live(E, p, b) <=> Live(F, p, b))
      BY ONLY <3>5, <3>6, Dropping
    <3> QED BY <1>4, <3>1, <3>4, <3>7
  <2> QED BY <2>1, <2>2
<1>12. PICK N : N = ReadyIds
  OBVIOUS
<1>13. Counted(N)' = E
  BY <1>1, <1>4, <1>12 DEF Counted
<1>14. Overlaid(Counted(N))'
  <2>1. ASSUME NEW k \in Keys \ retracted PROVE Agrees(Counted(N), visible, k)'
    BY <1>1, <1>8, <1>10, <1>13 DEF Agrees
  <2> QED BY <1>8, <2>1 DEF Overlaid
<1>15. SinceFence(Counted(N))'
  <2>1. ASSUME NEW k \in retracted, NEW m \in visible[k]
        PROVE  \E p \in E : p.id = m /\ KeyOf[m] = k /\ p.writes # {} /\ p.local >= fencedAt[k]
    <3>1. base[k] = {}
      BY <1>3, <2>1 DEF Base, Unretracted, VisibleInv, ContentInv
    <3>2. k \notin dirty
      BY <1>6, <2>1, <3>1
    <3>3. PICK p \in F : p.id = m /\ KeyOf[m] = k /\ p.writes # {} /\ p.local >= fencedAt[k]
      BY <1>5, <2>1, <3>2 DEF Projects, SinceFence
    <3>4. p \in E
      BY <1>4, <1>6, <1>7, <3>2, <3>3
    <3> QED BY <3>3, <3>4
  <2> QED BY <1>1, <1>8, <1>13, <2>1 DEF SinceFence
<1>16. RefusedFirst(Counted(N))'
  BY <1>1, <1>9, <1>13 DEF RefusedFirst
<1>17. LeftOut(Counted(N))'
  BY <1>4, <1>8, <1>13 DEF LeftOut
<1>18. Projected(N)' /\ N \in SUBSET ReadyIds'
  BY <1>8, <1>12, <1>14, <1>15, <1>16, <1>17 DEF Projected, Projects
<1>19. WritesInv' /\ visible' \in Contents
  BY <1>1, WritesKept DEF VisibleInv, ContentInv
<1> QED BY <1>1, <1>18, <1>19, ProjectDone

LEMMA ReplaysIs ==
  ASSUME NEW p \in PendingRows, NEW E, NEW b, NEW r, r = Replays(E, p, b)
  PROVE  /\ Row(r).id = p.id /\ Row(r).local = p.local
         /\ Row(r).writes = IF Live(E, Row(p), b) THEN {KeyOf[p.id]} ELSE {}
         /\ Live(E, Row(r), b) <=> Live(E, Row(p), b)
<1>1. /\ r.id = p.id /\ r.local = p.local
      /\ r.writes = IF Live(E, Row(p), b) THEN {KeyOf[p.id]} ELSE {}
  BY DEF Replays, PendingRows
<1>2. /\ Row(r).id = r.id /\ Row(r).local = r.local /\ Row(r).writes = r.writes
      /\ Row(p).id = p.id /\ Row(p).local = p.local
  BY DEF Row
<1>3. PICK x, y : x = Row(r) /\ y = Row(p)
  OBVIOUS
<1>4. x.id = y.id /\ x.local = y.local
  BY <1>1, <1>2, <1>3
<1>5. Live(E, x, b) <=> Live(E, y, b)
  BY <1>4 DEF Live
<1> QED BY <1>1, <1>2, <1>3, <1>5

\* row i after the step: as it was, or as its replay among E leaves it
ReplayedRow(E, content, i) ==
  /\ Row(pending'[i]).id = pending[i].id /\ Row(pending'[i]).local = pending[i].local
  /\ \/ Row(pending'[i]) = Row(pending[i])
     \/ /\ ~ Ready(pending[i])
        /\ LET live == Live(E, Row(pending'[i]), content[KeyOf[pending[i].id]])
           IN Row(pending'[i]).writes = IF live THEN {KeyOf[pending[i].id]} ELSE {}

LEMMA WritesReplayed ==
  ASSUME OutboxInv, WritesInv, NEW E, NEW content, Len(pending') = Len(pending),
         \A i \in 1 .. Len(pending) : ReplayedRow(E, content, i)
  PROVE  WritesInv'
<1>1. ASSUME NEW i \in 1 .. Len(pending), NEW p, p = Row(pending'[i])
      PROVE  p.writes \in {{}, {KeyOf[p.id]}} /\ (p.id \notin Strict => p.writes # {})
  <2>1. PICK q \in Queue : q = Row(pending[i])
    BY QueueRow
  <2>2. p.id = pending[i].id /\ q.id = pending[i].id
    BY <1>1, <2>1, QueueRow DEF ReplayedRow
  <2>3. CASE p = q
    BY <2>3 DEF WritesInv
  <2>4. CASE p # q
    <3>1. PICK b : b = content[KeyOf[pending[i].id]]
      OBVIOUS
    <3>2. p.writes = IF Live(E, p, b) THEN {KeyOf[p.id]} ELSE {}
      BY <1>1, <2>1, <2>2, <2>4, <3>1 DEF ReplayedRow
    <3>3. p.id \notin Strict => Live(E, p, b)
      BY DEF Live
    <3> QED BY <3>2, <3>3
  <2> QED BY <2>3, <2>4
<1>2. ASSUME NEW p \in Queue' PROVE \E i \in 1 .. Len(pending) : p = Row(pending'[i])
  BY DEF Queue, RowsOf
<1> QED BY <1>1, <1>2 DEF WritesInv

LEMMA PlayedAll ==
  ASSUME OutboxInv PROVE Played(pending, Len(pending)) = Counted(ReadyIds)
<1>1. \A i \in 1 .. Len(pending) : Ready(pending[i]) <=> Row(pending[i]).id \in ReadyIds
  BY QueueRow, ReadyIs
<1> QED BY <1>1 DEF Played, Counted, Queue, RowsOf

\* of the rows E, the rows F after a replay over the content c
ReplayOf(E, F, c) ==
  /\ \A p \in E : \E q \in F : q.id = p.id /\ q.local = p.local
  /\ \A q \in F : \E p \in E : q.id = p.id /\ q.local = p.local
  /\ \A q \in F : q.writes = IF Live(E, q, c[KeyOf[q.id]]) THEN {KeyOf[q.id]} ELSE {}

(* The rows after a replay of all of them are those before it, with the    *)
(* changes that it made.                                                   *)
LEMMA AllReplayed ==
  ASSUME OutboxInv, OutboxInv', NEW c \in Contents, pending' = Rewritten(pending, c),
         NEW N, N = ReadyIds, NEW E, E = Counted(N), NEW F, F = Counted(N)'
  PROVE  /\ ReplayOf(E, F, c) /\ Len(pending') = Len(pending)
         /\ \A i \in 1 .. Len(pending) : ReplayedRow(E, c, i)
<1>1. PICK s, n, t : s = pending /\ n = Len(s) /\ t = pending'
  OBVIOUS
<1>2. s \in Seq(PendingRows) /\ InOrder(s) /\ t = Rewritten(s, c)
  BY <1>1, QueueIs DEF OutboxInv, ClientTypeInv
<1>3. Len(t) = n
  BY <1>1, <1>2, RewrittenRows
<1>4. E = Played(s, n)
  BY <1>1, PlayedAll
<1>5. \A i \in 1 .. n : t[i] = IF Ready(s[i]) THEN s[i]
                               ELSE Replays(E, s[i], c[KeyOf[s[i].id]])
  BY <1>1, <1>2, <1>4, ReplayIs
<1>6. \A i \in 1 .. n : /\ s[i] \in PendingRows
                        /\ Ready(s[i]) <=> s[i].id \in N
                        /\ Row(s[i]).id = s[i].id /\ Row(s[i]).local = s[i].local
  BY <1>1, <1>2, QueueRow, ReadyIs
<1>7. ASSUME NEW i \in 1 .. n
      PROVE  /\ Row(t[i]).id = s[i].id /\ Row(t[i]).local = s[i].local
             /\ Ready(s[i]) => Row(t[i]) = Row(s[i])
             /\ ~ Ready(s[i]) =>
                  Row(t[i]).writes =
                    IF Live(E, Row(t[i]), c[KeyOf[s[i].id]]) THEN {KeyOf[s[i].id]} ELSE {}
  <2>1. CASE Ready(s[i])
    BY <1>5, <1>6, <2>1
  <2>2. CASE ~ Ready(s[i])
    <3>1. PICK p, b, r : p = s[i] /\ b = c[KeyOf[p.id]] /\ r = t[i]
      OBVIOUS
    <3>2. p \in PendingRows /\ r = Replays(E, p, b)
      BY <1>5, <1>6, <2>2, <3>1
    <3>3. /\ Row(r).id = p.id /\ Row(r).local = p.local
          /\ Row(r).writes = IF Live(E, Row(p), b) THEN {KeyOf[p.id]} ELSE {}
          /\ Live(E, Row(r), b) <=> Live(E, Row(p), b)
      BY ONLY <3>2, ReplaysIs
    <3> QED BY <2>2, <3>1, <3>3
  <2> QED BY <2>1, <2>2
<1>8. /\ E = {Row(s[i]) : i \in {j \in 1 .. n : ~ Ready(s[j])}}
      /\ \A q : q \in F <=> \E i \in 1 .. n : q = Row(t[i]) /\ q.id \notin N
  <2>1. F = {p \in Queue' : p.id \notin N}
    BY DEF Counted
  <2>2. Queue' = {Row(t[i]) : i \in 1 .. n}
    BY <1>1, <1>3 DEF Queue, RowsOf
  <2> QED BY <1>4, <2>1, <2>2 DEF Played
<1>9. ASSUME NEW p \in E PROVE \E q \in F : q.id = p.id /\ q.local = p.local
  <2>1. PICK i \in 1 .. n : ~ Ready(s[i]) /\ p = Row(s[i])
    BY <1>8
  <2>2. Row(t[i]) \in F
    BY <1>6, <1>7, <1>8, <2>1
  <2> QED BY <1>6, <1>7, <2>1, <2>2
<1>10. ASSUME NEW q \in F
       PROVE  /\ \E p \in E : q.id = p.id /\ q.local = p.local
              /\ q.writes = IF Live(E, q, c[KeyOf[q.id]]) THEN {KeyOf[q.id]} ELSE {}
  <2>1. PICK i \in 1 .. n : q = Row(t[i]) /\ q.id \notin N
    BY <1>8
  <2>2. ~ Ready(s[i]) /\ q.id = s[i].id
    BY <1>6, <1>7, <2>1
  <2>3. Row(s[i]) \in E
    BY <1>8, <2>2
  <2> QED BY <1>6, <1>7, <2>1, <2>2, <2>3
<1>11. \A i \in 1 .. Len(pending) : ReplayedRow(E, c, i)
  BY <1>1, <1>7 DEF ReplayedRow
<1>12. ReplayOf(E, F, c)
  BY <1>9, <1>10 DEF ReplayOf
<1> QED BY <1>1, <1>3, <1>11, <1>12

LEMMA RowsWritten ==
  ASSUME NEW rows \in Seq(PendingRows)
  PROVE  \A p \in RowsOf(rows) : p.writes \subseteq Written(rows)
<1>1. \A k : k \in Written(rows) <=> \E i \in 1 .. Len(rows) : k \in rows[i].writes
  BY WrittenIs
<1>2. ASSUME NEW p \in RowsOf(rows) PROVE p.writes \subseteq Written(rows)
  <2>1. PICK i \in 1 .. Len(rows) : p = Row(rows[i])
    BY DEF RowsOf
  <2>2. p.writes = rows[i].writes
    BY <2>1, RowIs
  <2> QED BY <1>1, <2>2
<1> QED BY <1>2

\* the delta, with its parts named
LEMMA DeltaIs ==
  ASSUME OutboxInv, VisibleInv, rebuild = None, ApplyDelta, ~ MatchesReplay,
         NEW c, c = Reset, NEW s, s = pending, NEW t, t = Rewritten(s, c)
  PROVE  /\ c \in Contents /\ t \in Seq(PendingRows) /\ pending' = t /\ dirty' = {}
         /\ \A k \in Keys : c[k] = IF k \in dirty \cup Written(s) THEN Base[k] ELSE visible[k]
         /\ \A k \in Keys : visible'[k] =
              IF k \in retracted /\ k \in dirty \cup Written(s) \cup Written(t) THEN {}
              ELSE Shown(Counted(ReadyIds), k, c[k])
         /\ visible' \in Contents
<1>1. s \in Seq(PendingRows) /\ InOrder(s)
  BY QueueIs DEF OutboxInv, ClientTypeInv
<1>2. c = [k \in Keys |-> IF k \in dirty \cup Written(s) THEN Base[k] ELSE visible[k]]
  BY DEF Reset, Base
<1>3. Base \in Contents /\ visible \in Contents
  BY DEF VisibleInv, ContentInv, Base, Unretracted, Contents
<1>4. c \in Contents
  BY <1>2, <1>3 DEF Contents
<1>5. PICK E, content : E = Counted(ReadyIds) /\ content = Replayed(s, c)
  OBVIOUS
<1>6. E = Played(s, Len(s))
  BY <1>5, PlayedAll
<1>7. content \in Contents /\ \A k \in Keys : content[k] = Shown(E, k, c[k])
  BY <1>1, <1>4, <1>5, <1>6, ReplayIs
<1>8. t \in Seq(PendingRows)
  BY <1>1, RewrittenRows
<1>9. PICK touched : touched = dirty \cup Written(s) \cup Written(t)
  OBVIOUS
<1>10. /\ pending' = t /\ dirty' = {}
       /\ visible' = [k \in Keys |-> IF k \in touched THEN Unretracted(content)[k] ELSE content[k]]
  BY <1>5, <1>9 DEF ApplyDelta
<1>11. \A k \in Keys : Unretracted(content)[k] = IF k \in retracted THEN {} ELSE content[k]
  BY DEF Unretracted
<1>12. visible' \in Contents
  <2>1. \A k \in Keys : visible'[k] \in {{}, content[k]}
    BY <1>10, <1>11
  <2>2. visible' = [k \in Keys |-> visible'[k]]
    BY <1>10
  <2>3. \A k \in Keys : visible'[k] \in SUBSET (Mutations \cup {Other})
    BY <1>7, <2>1 DEF Contents
  <2> QED BY <2>2, <2>3 DEF Contents
<1>13. ASSUME NEW k \in Keys
       PROVE  visible'[k] = IF k \in retracted /\ k \in touched THEN {} ELSE Shown(E, k, c[k])
  BY <1>7, <1>10, <1>11
<1> QED BY <1>2, <1>4, <1>5, <1>8, <1>9, <1>10, <1>12, <1>13

(* The dirty entities alone are recomputed.                                *)
LEMMA DeltaVisible ==
  ASSUME OutboxInv, OutboxInv', VisibleInv, Project, rebuild = None, ~ MatchesReplay
  PROVE  VisibleInv'
<1>1. ApplyDelta /\ rebuild' = None
  BY ProjectFacts
<1>2. PICK c, s : c = Reset /\ s = pending
  OBVIOUS
<1>3. PICK t : t = Rewritten(s, c)
  OBVIOUS
<1>4. PICK N, base : N = ReadyIds /\ base = Base
  OBVIOUS
<1>5. PICK E, shown : E = Counted(N) /\ shown = visible'
  OBVIOUS
<1>6. PICK G : G = Counted(N)'
  OBVIOUS
<1>7. /\ c \in Contents /\ t \in Seq(PendingRows) /\ pending' = t /\ dirty' = {}
      /\ \A k \in Keys : c[k] = IF k \in dirty \cup Written(s) THEN base[k] ELSE visible[k]
      /\ \A k \in Keys : shown[k] =
           IF k \in retracted /\ k \in dirty \cup Written(s) \cup Written(t) THEN {}
           ELSE Shown(E, k, c[k])
      /\ shown \in Contents
  BY <1>1, <1>2, <1>3, <1>4, <1>5, DeltaIs
<1>8. /\ \A p \in E : \E q \in G : q.id = p.id /\ q.local = p.local
      /\ \A q \in G : \E p \in E : q.id = p.id /\ q.local = p.local
      /\ \A q \in G : q.writes = IF Live(E, q, c[KeyOf[q.id]]) THEN {KeyOf[q.id]} ELSE {}
      /\ Len(pending') = Len(pending)
      /\ \A i \in 1 .. Len(pending) : ReplayedRow(E, c, i)
  <2>1. pending' = Rewritten(pending, c) /\ c \in Contents
    BY <1>2, <1>3, <1>7
  <2>2. N = ReadyIds /\ E = Counted(N) /\ G = Counted(N)'
    BY <1>4, <1>5, <1>6
  <2>3. ReplayOf(E, G, c)
    BY <2>1, <2>2, AllReplayed
  <2>4. Len(pending') = Len(pending) /\ \A i \in 1 .. Len(pending) : ReplayedRow(E, c, i)
    BY <2>1, <2>2, AllReplayed
  <2> QED BY <2>3, <2>4 DEF ReplayOf
<1>9. WritesInv'
  BY <1>8, WritesReplayed DEF VisibleInv
<1>10. PICK D \in SUBSET ReadyIds : Projected(D)
  BY DEF VisibleInv, ProjectionInv
<1>11. PICK F : F = Counted(D)
  OBVIOUS
<1>12. Projects(F)
  BY <1>1, <1>10, <1>11 DEF Projected, ApplyDelta, Project
<1>13. \A p \in F : p.writes \in {{}, {KeyOf[p.id]}} /\ p.writes \subseteq Written(s)
  <2>1. s \in Seq(PendingRows) /\ Queue = RowsOf(s)
    BY <1>2 DEF OutboxInv, ClientTypeInv, Queue
  <2> QED BY <1>11, <2>1, RowsWritten DEF Counted, VisibleInv, WritesInv
<1>14. \A q \in G : q.writes \subseteq Written(t)
  <2>1. Queue' = RowsOf(t)
    BY <1>7 DEF Queue, RowsOf
  <2> QED BY <1>6, <1>7, <2>1, RowsWritten DEF Counted
<1>15. \A b : /\ \A k : Shown(E, k, b) = Shown(G, k, b)
              /\ \A p, q : p.id = q.id /\ p.local = q.local => (Live(E, p, b) <=> Live(G, q, b))
  BY ONLY <1>8, Alike
<1>16. ASSUME NEW k \in Keys \ retracted PROVE c[k] = base[k]
  <2>1. SUFFICES ASSUME k \notin dirty, k \notin Written(s) PROVE visible[k] = base[k]
    BY <1>7
  <2>2. /\ visible[k] = Shown(F, k, base[k])
        /\ \A p \in F : KeyOf[p.id] = k => (p.writes = {} <=> ~ Live(F, p, base[k]))
    BY <1>4, <1>12, <2>1 DEF Projects, Overlaid, Agrees
  <2>3. \A p \in F : KeyOf[p.id] = k => p.writes = {}
    BY <1>13, <2>1
  <2>4. \A p \in F : KeyOf[p.id] = k => ~ Live(F, p, base[k])
    BY <2>2, <2>3
  <2> QED BY <2>2, <2>4, NoneShown
<1>17. ASSUME NEW k \in Keys \ retracted
       PROVE  /\ shown[k] = Shown(G, k, base[k])
              /\ \A p \in G : KeyOf[p.id] = k => (p.writes = {} <=> ~ Live(G, p, base[k]))
  <2>1. PICK b : b = base[k]
    OBVIOUS
  <2>2. shown[k] = Shown(E, k, b)
    BY <1>7, <1>16, <2>1
  <2>3. ASSUME NEW p \in G, KeyOf[p.id] = k PROVE p.writes = {} <=> ~ Live(G, p, b)
    <3>1. p.writes = IF Live(E, p, b) THEN {KeyOf[p.id]} ELSE {}
      BY <1>8, <1>16, <2>1, <2>3
    <3>2. Live(E, p, b) <=> Live(G, p, b)
      BY <1>15
    <3> QED BY <3>1, <3>2
  <2> QED BY <1>15, <2>1, <2>2, <2>3
<1>18. ASSUME NEW k \in Keys \cap retracted PROVE shown[k] = {}
  <2>1. SUFFICES ASSUME k \notin dirty, k \notin Written(s), k \notin Written(t)
                 PROVE  shown[k] = {}
    BY <1>7
  <2>2. PICK b : b = c[k]
    OBVIOUS
  <2>3. shown[k] = Shown(E, k, b) /\ b = visible[k]
    BY <1>7, <2>1, <2>2
  <2>4. ASSUME NEW m \in visible[k] PROVE FALSE
    <3>1. PICK p \in F : p.id = m /\ KeyOf[m] = k /\ p.writes # {}
      BY <1>12, <2>1, <2>4 DEF Projects, SinceFence
    <3> QED BY <1>13, <2>1, <3>1
  <2>5. ASSUME NEW p \in E, KeyOf[p.id] = k PROVE ~ Live(E, p, b)
    <3>1. PICK q \in G : q.id = p.id /\ q.local = p.local
      BY <1>8
    <3>2. q.writes = IF Live(E, q, b) THEN {k} ELSE {}
      BY <1>8, <2>2, <2>5, <3>1
    <3>3. ~ Live(E, q, b)
      BY <1>14, <2>1, <3>2
    <3>4. Live(E, p, b) <=> Live(E, q, b)
      BY <1>15, <3>1
    <3> QED BY <3>3, <3>4
  <2>6. \A p \in E : KeyOf[p.id] = k => ~ Live(E, p, b)
    BY <2>5
  <2>7. Shown(E, k, b) = b
    BY <2>6, NoneShown
  <2> QED BY <2>3, <2>4, <2>7
<1>19. /\ retracted' = retracted /\ Base' = base /\ gate'.settling \subseteq N
       /\ N \in SUBSET ReadyIds' /\ retracted \subseteq Keys
  BY <1>4, ProjectFacts DEF VisibleInv, ContentInv
<1>20. \A p \in G : p.id \notin gate'.settling
  BY <1>6, <1>19 DEF Counted
<1>21. /\ \A p \in G : p.local \in Nat /\ KeyOf[p.id] \in Keys
       /\ \A p, q \in G : p.local = q.local => p = q
  BY <1>6, QueueNext DEF Counted
<1>22. Projected(N)'
  BY <1>1, <1>5, <1>6, <1>17, <1>18, <1>19, <1>20, <1>21, WholeAfter
<1> QED BY <1>1, <1>5, <1>7, <1>9, <1>19, <1>22, ProjectDone

\* rows from and to are the ends of a batch of what is pending
Batches(from, to, batch) ==
  /\ from \in 1 .. Len(pending) /\ to \in 1 .. Len(pending) /\ from <= to
  /\ batch \in Seq(PendingRows) /\ Len(batch) = to - from + 1
  /\ \A i \in from .. to : i - from + 1 \in 1 .. Len(batch) /\ batch[i - from + 1] = pending[i]
  /\ \A j \in 1 .. Len(batch) : \E i \in from .. to : j = i - from + 1

\* the batch that a rebuild replays next
NextBatch(from, to, batch) ==
  /\ Batches(from, to, batch)
  /\ \A i \in 1 .. Len(pending) : i < from <=> pending[i].local <= rebuild.after
  /\ pending' = [i \in DOMAIN pending |->
                   IF i \in from .. to THEN Rewritten(batch, rebuild.content)[i - from + 1]
                   ELSE pending[i]]
  /\ dirty' = dirty \cup Written(batch) \cup Written(Rewritten(batch, rebuild.content))
  /\ rebuild' = [rebuild EXCEPT !.content = Unretracted(Replayed(batch, rebuild.content)),
                                !.after = pending[to].local]
  /\ visible' = visible

(* A batch is a run of consecutive rows after those already passed.        *)
LEMMA BatchIs ==
  ASSUME OutboxInv, VisibleInv, rebuild # None, ReplayPending
  PROVE  \E from, to, batch : NextBatch(from, to, batch)
<1>1. PICK s, n, g : s = pending /\ n = Len(s) /\ g = rebuild
  OBVIOUS
<1>2. s \in Seq(PendingRows) /\ n \in Nat /\ DOMAIN s = 1 .. n /\ g \in Generations
  BY <1>1 DEF OutboxInv, ClientTypeInv, VisibleInv, ContentInv
<1>3. PICK from, to, batch :
        /\ from = CHOOSE i \in Rows : \A j \in Rows : i <= j
        /\ to = Lesser(from + ReplayBatch - 1, n) /\ batch = SubSeq(s, from, to)
  OBVIOUS
<1>4. PICK left : left = Rows
  OBVIOUS
<1>5. left \in SUBSET Nat /\ left # {} /\ left = {i \in 1 .. n : s[i].local > g.after}
  BY <1>1, <1>2, <1>4 DEF Rows, ReplayPending
<1>6. from \in left /\ \A j \in left : from <= j
  <2>1. \E i \in left : \A j \in left : i <= j
    BY ONLY <1>5, MinExists
  <2> QED BY <1>3, <1>4, <2>1
<1>7. from \in 1 .. n /\ to \in 1 .. n /\ from <= to
  <2>1. PICK b : b = ReplayBatch
    OBVIOUS
  <2>2. b \in Nat \ {0} /\ from \in 1 .. n
    BY <1>5, <1>6, <2>1, LocalStoreAssumption
  <2>3. to = IF from + b - 1 < n THEN from + b - 1 ELSE n
    BY <1>3, <2>1 DEF Lesser
  <2> QED BY ONLY <1>2, <2>2, <2>3
<1>8. /\ batch \in Seq(PendingRows) /\ Len(batch) \in Nat
      /\ \A i \in from .. to : Len(batch) = to - from + 1 /\ batch[i - from + 1] = s[i]
  <2>1. s \in Seq(PendingRows) /\ from \in 1 .. Len(s) /\ to \in 1 .. Len(s) /\ from <= to
    BY <1>1, <1>2, <1>7
  <2>2. batch = SubSeq(s, from, to)
    BY <1>3
  <2> QED BY ONLY <2>1, <2>2, SubSequence
<1>9. PICK l : l = Len(batch)
  OBVIOUS
<1>10. l = to - from + 1
  <2>1. from \in from .. to
    BY ONLY <1>2, <1>7
  <2> QED BY <1>8, <1>9, <2>1
<1>11. \A i \in from .. to : i - from + 1 \in 1 .. l
  BY ONLY <1>2, <1>7, <1>10
<1>12. \A j \in 1 .. l : \E i \in from .. to : j = i - from + 1
  <2>1. ASSUME NEW j \in 1 .. l PROVE j + from - 1 \in from .. to /\ j = (j + from - 1) - from + 1
    BY ONLY <1>2, <1>7, <1>10, j \in 1 .. l
  <2> QED BY ONLY <2>1
<1>13. ASSUME NEW i \in 1 .. n PROVE i < from <=> s[i].local <= g.after
  <2>1. PICK a, b, c : a = s[i].local /\ b = s[from].local /\ c = g.after
    OBVIOUS
  <2>2. a \in Nat /\ b \in Nat /\ c \in Nat
    BY <1>2, <1>7, <2>1, RowIs, GenerationIs
  <2>3. b > c /\ (a > c => from <= i)
    BY <1>5, <1>6, <2>1
  <2>4. from < i => b < a
    BY <1>1, <1>7, <2>1 DEF OutboxInv, PendingInv
  <2>5. from = i => a = b
    BY <2>1
  <2>6. i < from <=> a <= c
    BY ONLY <1>2, <1>7, <2>2, <2>3, <2>4, <2>5, i \in 1 .. n
  <2> QED BY <2>1, <2>6
<1>14. /\ pending' = [i \in DOMAIN pending |->
                        IF i \in from .. to THEN Rewritten(batch, rebuild.content)[i - from + 1]
                        ELSE pending[i]]
       /\ dirty' = dirty \cup Written(batch) \cup Written(Rewritten(batch, rebuild.content))
       /\ rebuild' = [rebuild EXCEPT !.content = Unretracted(Replayed(batch, rebuild.content)),
                                     !.after = pending[to].local]
       /\ visible' = visible
  BY <1>1, <1>3 DEF ReplayPending
<1>15. Batches(from, to, batch)
  BY <1>1, <1>7, <1>8, <1>9, <1>10, <1>11, <1>12 DEF Batches
<1>16. NextBatch(from, to, batch)
  BY <1>1, <1>13, <1>14, <1>15 DEF NextBatch
<1> QED BY <1>16

(* What a batch is made of, and what becomes of its rows.                  *)
LEMMA BatchRows ==
  ASSUME OutboxInv, VisibleInv, rebuild # None, NEW from, NEW to, NEW batch,
         NextBatch(from, to, batch), NEW c, c = rebuild.content,
         NEW F, F = Played(batch, Len(batch))
  PROVE  /\ InOrder(batch) /\ c \in Contents
         /\ F = {Row(pending[i]) : i \in {j \in from .. to : ~ Ready(pending[j])}}
         /\ Len(pending') = Len(pending)
         /\ \A i \in 1 .. Len(pending) : ReplayedRow(F, c, i)
         /\ \A i \in 1 .. Len(pending) : i \notin from .. to => Row(pending'[i]) = Row(pending[i])
         /\ \A i \in from .. to : ~ Ready(pending[i]) =>
              Row(pending'[i]).writes =
                IF Live(F, Row(pending'[i]), c[KeyOf[pending[i].id]])
                  THEN {KeyOf[pending[i].id]} ELSE {}
<1>1. PICK s, n, t : s = pending /\ n = Len(s) /\ t = pending'
  OBVIOUS
<1>2. s \in Seq(PendingRows) /\ n \in Nat /\ DOMAIN s = 1 .. n
  BY <1>1 DEF OutboxInv, ClientTypeInv
<1>3. Batches(from, to, batch)
  BY DEF NextBatch
<1>4. /\ from \in 1 .. n /\ to \in 1 .. n
      /\ batch \in Seq(PendingRows) /\ Len(batch) = to - from + 1
      /\ \A i \in from .. to : i - from + 1 \in 1 .. Len(batch) /\ batch[i - from + 1] = s[i]
      /\ \A j \in 1 .. Len(batch) : \E i \in from .. to : j = i - from + 1
  BY <1>1, <1>3 DEF Batches
<1>5. \A i \in from .. to : i \in 1 .. n
  BY ONLY <1>2, <1>4
<1>6. InOrder(batch)
  <2>1. ASSUME NEW x \in 1 .. Len(batch), NEW y \in 1 .. Len(batch), x < y
        PROVE  batch[x].local < batch[y].local
    <3>1. PICK i \in from .. to : x = i - from + 1
      BY <1>4
    <3>2. PICK j \in from .. to : y = j - from + 1
      BY <1>4
    <3>3. i < j
      BY ONLY <1>2, <1>4, <2>1, <3>1, <3>2
    <3>4. i \in 1 .. n /\ j \in 1 .. n
      BY <1>5
    <3>5. s[i].local < s[j].local
      BY <1>1, <3>3, <3>4 DEF OutboxInv, PendingInv
    <3>6. batch[x] = s[i] /\ batch[y] = s[j]
      BY <1>4, <3>1, <3>2
    <3> QED BY <3>5, <3>6
  <2> QED BY <2>1 DEF InOrder
<1>7. c \in Contents
  BY GenerationIs DEF VisibleInv, ContentInv
<1>8. PICK rows : rows = Rewritten(batch, c)
  OBVIOUS
<1>9. /\ Len(rows) = Len(batch)
      /\ \A j \in 1 .. Len(batch) : rows[j] = IF Ready(batch[j]) THEN batch[j]
                                              ELSE Replays(F, batch[j], c[KeyOf[batch[j].id]])
  BY <1>4, <1>6, <1>7, <1>8, ReplayIs, RewrittenRows
<1>10. /\ t = [i \in 1 .. n |-> IF i \in from .. to THEN rows[i - from + 1] ELSE s[i]]
  BY <1>1, <1>2, <1>8 DEF NextBatch
<1>11. Len(t) = n
  BY <1>2, <1>10
<1>12. F = {Row(s[i]) : i \in {j \in from .. to : ~ Ready(s[j])}}
  <2>1. ASSUME NEW p \in F PROVE p \in {Row(s[i]) : i \in {j \in from .. to : ~ Ready(s[j])}}
    <3>1. PICK j \in 1 .. Len(batch) : ~ Ready(batch[j]) /\ p = Row(batch[j])
      BY DEF Played
    <3>2. PICK i \in from .. to : j = i - from + 1
      BY <1>4
    <3>3. batch[j] = s[i]
      BY <1>4, <3>2
    <3> QED BY <3>1, <3>3
  <2>2. ASSUME NEW i \in from .. to, ~ Ready(s[i]) PROVE Row(s[i]) \in F
    <3>1. PICK j \in 1 .. Len(batch) : batch[j] = s[i]
      BY <1>4
    <3> QED BY <2>2, <3>1 DEF Played
  <2> QED BY <2>1, <2>2
<1>13. \A i \in 1 .. n : /\ s[i] \in PendingRows
                         /\ Row(s[i]).id = s[i].id /\ Row(s[i]).local = s[i].local
  BY <1>1, <1>2, QueueRow
<1>14. ASSUME NEW i \in from .. to
       PROVE  /\ Row(t[i]).id = s[i].id /\ Row(t[i]).local = s[i].local
              /\ Ready(s[i]) => Row(t[i]) = Row(s[i])
              /\ ~ Ready(s[i]) =>
                   Row(t[i]).writes =
                     IF Live(F, Row(t[i]), c[KeyOf[s[i].id]]) THEN {KeyOf[s[i].id]} ELSE {}
  <2>1. PICK p, b, r : p = s[i] /\ b = c[KeyOf[p.id]] /\ r = t[i]
    OBVIOUS
  <2>2. i \in 1 .. n /\ p \in PendingRows
    BY <1>5, <1>13, <2>1
  <2>3. PICK j \in 1 .. Len(batch) : j = i - from + 1 /\ batch[j] = p
    BY <1>4, <2>1
  <2>4. r = rows[j]
    BY <1>10, <2>1, <2>2, <2>3
  <2>5. CASE Ready(p)
    BY <1>9, <1>13, <2>1, <2>2, <2>3, <2>4, <2>5
  <2>6. CASE ~ Ready(p)
    <3>1. r = Replays(F, p, b)
      BY <1>9, <2>1, <2>3, <2>4, <2>6
    <3>2. p \in PendingRows
      BY <2>2
    <3>3. r.id = p.id /\ r.local = p.local
      BY <3>1, <3>2 DEF Replays, PendingRows
    <3>6. Row(r).id = r.id /\ Row(r).local = r.local
      BY DEF Row
    <3>4. Row(r).writes = IF Live(F, Row(p), b) THEN {KeyOf[p.id]} ELSE {}
      BY ONLY <3>1, <3>2, ReplaysIs
    <3>5. Live(F, Row(r), b) <=> Live(F, Row(p), b)
      BY ONLY <3>1, <3>2, ReplaysIs
    <3> QED BY <2>1, <2>6, <3>3, <3>4, <3>5, <3>6
  <2> QED BY <2>1, <2>5, <2>6
<1>15. ASSUME NEW i \in 1 .. n, i \notin from .. to
       PROVE  /\ Row(t[i]) = Row(s[i])
              /\ Row(t[i]).id = s[i].id /\ Row(t[i]).local = s[i].local
  BY <1>10, <1>13, <1>15
<1>16. ASSUME NEW i \in 1 .. n PROVE ReplayedRow(F, c, i)
  BY <1>1, <1>14, <1>15 DEF ReplayedRow
<1> QED BY <1>1, <1>6, <1>7, <1>11, <1>12, <1>14, <1>15, <1>16

\* the rows of G are those of E and those of F, replayed after them
Passes(E, F, G, c) ==
  /\ Follow(E, F)
  /\ \A p \in G :
       \/ p \in E
       \/ /\ \E r \in F : r.id = p.id /\ r.local = p.local
          /\ p.writes = IF Live(F, p, c[KeyOf[p.id]]) THEN {KeyOf[p.id]} ELSE {}
  /\ \A p \in E : p \in G
  /\ \A r \in F : r.id \notin ReadyIds /\ \E p \in G : p.id = r.id /\ p.local = r.local

(* The rows that a generation has passed after a batch are those it had    *)
(* passed before and those of the batch that it replayed.                  *)
LEMMA PassedNext ==
  ASSUME OutboxInv, VisibleInv, rebuild # None, NEW from, NEW to, NEW batch,
         NextBatch(from, to, batch), NEW c, c = rebuild.content, rebuild'.after = pending[to].local,
         NEW F, F = Played(batch, Len(batch)), NEW D \in SUBSET ReadyIds,
         NEW M, M = D \cup {m \in ReadyIds : \E i \in from .. to : pending[i].id = m},
         NEW E, E = Passed(D), NEW G, G = Passed(M)'
  PROVE  Passes(E, F, G, c)
<1>1. PICK s, n, t : s = pending /\ n = Len(s) /\ t = pending'
  OBVIOUS
<1>2. PICK a, z : a = rebuild.after /\ z = s[to].local
  OBVIOUS
<1>3. /\ n \in Nat /\ a \in Nat
      /\ \A i \in 1 .. n : /\ s[i] \in PendingRows /\ s[i].local \in Nat
                           /\ Row(s[i]).id = s[i].id /\ Row(s[i]).local = s[i].local
                           /\ Ready(s[i]) <=> s[i].id \in ReadyIds
      /\ Queue = {Row(s[i]) : i \in 1 .. n}
  BY <1>1, <1>2, QueueRow, ReadyIs, GenerationIs
     DEF OutboxInv, ClientTypeInv, VisibleInv, ContentInv, Queue, RowsOf
<1>4. /\ from \in 1 .. n /\ to \in 1 .. n /\ from <= to
      /\ \A i \in 1 .. n : i < from <=> s[i].local <= a
  BY <1>1, <1>2 DEF NextBatch, Batches
<1>5. \A i, j \in 1 .. n : i < j => s[i].local < s[j].local
  BY <1>1 DEF OutboxInv, PendingInv
<1>6. \A i, j \in 1 .. n : s[i].id = s[j].id => i = j
  <2>1. ASSUME NEW i \in 1 .. n, NEW j \in 1 .. n, s[i].id = s[j].id PROVE i = j
    <3>1. Row(s[i]) \in Queue /\ Row(s[j]) \in Queue
      BY <1>3
    <3>2. Row(s[i]) = Row(s[j])
      BY <1>3, <2>1, <3>1, QueueIs
    <3>3. PICK x, y : x = s[i].local /\ y = s[j].local
      OBVIOUS
    <3>4. x = y /\ x \in Nat
      BY <1>3, <3>2, <3>3
    <3>5. (i < j => x < y) /\ (j < i => y < x)
      BY <1>5, <3>3
    <3> QED BY ONLY <1>3, <3>4, <3>5, i \in 1 .. n, j \in 1 .. n
  <2> QED BY <2>1
<1>7. \A i \in 1 .. n : s[i].local <= z <=> i <= to
  <2>1. ASSUME NEW i \in 1 .. n PROVE s[i].local <= z <=> i <= to
    <3>1. PICK x : x = s[i].local
      OBVIOUS
    <3>2. x \in Nat /\ z \in Nat
      BY <1>2, <1>3, <1>4, <3>1
    <3>3. (i < to => x < z) /\ (to < i => z < x) /\ (i = to => x = z)
      BY <1>2, <1>4, <1>5, <3>1
    <3>4. x <= z <=> i <= to
      BY ONLY <1>3, <1>4, <3>2, <3>3, i \in 1 .. n
    <3> QED BY <3>1, <3>4
  <2> QED BY <2>1
<1>8. /\ F = {Row(s[i]) : i \in {j \in from .. to : ~ Ready(s[j])}}
      /\ Len(t) = n
  BY <1>1, BatchRows
<1>9. \A i \in 1 .. n : /\ Row(t[i]).id = s[i].id /\ Row(t[i]).local = s[i].local
                        /\ i \notin from .. to => Row(t[i]) = Row(s[i])
  <2>1. \A i \in 1 .. n : ReplayedRow(F, c, i)
    BY <1>1, BatchRows
  <2>2. \A i \in 1 .. n : i \notin from .. to => Row(t[i]) = Row(s[i])
    BY <1>1, BatchRows
  <2> QED BY <1>1, <2>1, <2>2 DEF ReplayedRow
<1>10. \A i \in from .. to : ~ Ready(s[i]) =>
         Row(t[i]).writes =
           IF Live(F, Row(t[i]), c[KeyOf[s[i].id]]) THEN {KeyOf[s[i].id]} ELSE {}
  BY <1>1, BatchRows
<1>11. \A i : i \in from .. to <=> i \in 1 .. n /\ ~ (i < from) /\ i <= to
  BY ONLY <1>3, <1>4
<1>12. \A x : x \in E <=> \E i \in 1 .. n : x = Row(s[i]) /\ i < from /\ s[i].id \notin D
  <2>1. E = {p \in Queue : p.id \notin D /\ p.local <= a}
    BY <1>2 DEF Passed, Counted
  <2> QED BY <1>3, <1>4, <2>1
<1>13. \A x : x \in G <=> \E i \in 1 .. n : x = Row(t[i]) /\ i <= to /\ s[i].id \notin M
  <2>1. Queue' = {Row(t[i]) : i \in 1 .. n}
    BY <1>1, <1>8 DEF Queue, RowsOf
  <2>2. G = {p \in Queue' : p.id \notin M /\ p.local <= z}
    <3>1. rebuild'.after = z
      BY <1>1, <1>2
    <3> QED BY <3>1 DEF Passed, Counted
  <2> QED BY <1>7, <1>9, <2>1, <2>2
<1>14. ASSUME NEW i \in 1 .. n, i < from PROVE s[i].id \in M <=> s[i].id \in D
  <2>1. ASSUME NEW j \in from .. to, pending[j].id = s[i].id PROVE FALSE
    <3>1. j = i
      BY <1>1, <1>6, <1>11, <2>1
    <3> QED BY <1>11, <1>14, <3>1
  <2> QED BY <2>1
<1>15. ASSUME NEW i \in from .. to PROVE s[i].id \in M <=> Ready(s[i])
  <2>1. i \in 1 .. n
    BY <1>11
  <2> QED BY <1>1, <1>3, <2>1
<1>16. Follow(E, F)
  <2>1. ASSUME NEW p \in E PROVE p.local \in Nat /\ p.local <= a
    BY <1>3, <1>4, <1>12
  <2>2. ASSUME NEW r \in F PROVE r.local \in Nat /\ ~ (r.local <= a)
    BY <1>3, <1>4, <1>8, <1>11
  <2>3. ASSUME NEW p \in E, NEW r \in F PROVE p.local < r.local
    <3>1. PICK x, y : x = p.local /\ y = r.local
      OBVIOUS
    <3>2. x \in Nat /\ y \in Nat /\ x <= a /\ ~ (y <= a)
      BY <2>1, <2>2, <3>1
    <3>3. x < y
      BY ONLY <1>3, <3>2
    <3> QED BY <3>1, <3>3
  <2> QED BY <2>1, <2>2, <2>3 DEF Follow
<1>17. ASSUME NEW p \in G, p \notin E
       PROVE  /\ \E r \in F : r.id = p.id /\ r.local = p.local
              /\ p.writes = IF Live(F, p, c[KeyOf[p.id]]) THEN {KeyOf[p.id]} ELSE {}
  <2>1. PICK i \in 1 .. n : p = Row(t[i]) /\ i <= to /\ s[i].id \notin M
    BY <1>13
  <2>2. ~ (i < from)
    <3>1. SUFFICES ASSUME i < from PROVE FALSE
      OBVIOUS
    <3>2. i \notin from .. to /\ s[i].id \notin D
      BY <1>11, <1>14, <2>1, <3>1
    <3> QED BY <1>9, <1>12, <1>17, <2>1, <3>1, <3>2
  <2>3. i \in from .. to /\ ~ Ready(s[i])
    BY <1>11, <1>15, <2>1, <2>2
  <2>4. Row(s[i]) \in F /\ p.id = s[i].id /\ p.local = s[i].local
    BY <1>8, <1>9, <2>1, <2>3
  <2> QED BY <1>3, <1>10, <2>1, <2>3, <2>4
<1>18. ASSUME NEW p \in E PROVE p \in G
  <2>1. PICK i \in 1 .. n : p = Row(s[i]) /\ i < from /\ s[i].id \notin D
    BY <1>12
  <2>2. i <= to
    BY ONLY <1>3, <1>4, <2>1, i \in 1 .. n
  <2>3. i \notin from .. to /\ s[i].id \notin M
    BY <1>11, <1>14, <2>1
  <2> QED BY <1>9, <1>13, <2>1, <2>2, <2>3
<1>19. ASSUME NEW r \in F
       PROVE  r.id \notin ReadyIds /\ \E p \in G : p.id = r.id /\ p.local = r.local
  <2>1. PICK i \in from .. to : ~ Ready(s[i]) /\ r = Row(s[i])
    BY <1>8
  <2>2. i \in 1 .. n /\ i <= to /\ s[i].id \notin M
    BY <1>11, <1>15, <2>1
  <2>3. Row(t[i]) \in G
    BY <1>13, <2>2
  <2> QED BY <1>3, <1>9, <2>1, <2>2, <2>3
<1> QED BY <1>16, <1>17, <1>18, <1>19 DEF Passes

(* A batch of pending rows is replayed into the generation.                *)
LEMMA ReplayVisible ==
  ASSUME OutboxInv, OutboxInv', VisibleInv, Project, rebuild # None, ReplayPending
  PROVE  VisibleInv'
<1>1. PICK from, to, batch : NextBatch(from, to, batch)
  BY BatchIs
<1>2. PICK g, base, c : g = rebuild /\ g \in Generations /\ base = Base /\ c = g.content
  BY DEF VisibleInv, ContentInv
<1>3. PICK F : F = Played(batch, Len(batch))
  OBVIOUS
<1>4. /\ InOrder(batch) /\ c \in Contents /\ batch \in Seq(PendingRows)
      /\ Len(pending') = Len(pending)
      /\ \A i \in 1 .. Len(pending) : ReplayedRow(F, c, i)
  <2>1. c = rebuild.content
    BY <1>2
  <2>2. InOrder(batch) /\ c \in Contents
    BY <1>1, <1>3, <2>1, BatchRows
  <2>3. Len(pending') = Len(pending) /\ \A i \in 1 .. Len(pending) : ReplayedRow(F, c, i)
    BY <1>1, <1>3, <2>1, BatchRows
  <2>4. batch \in Seq(PendingRows)
    BY <1>1 DEF NextBatch, Batches
  <2> QED BY <2>2, <2>3, <2>4
<1>5. WritesInv'
  BY <1>4, WritesReplayed DEF VisibleInv
<1>6. PICK content, rows, z :
        /\ content = Replayed(batch, c) /\ rows = Rewritten(batch, c) /\ z = pending[to].local
  OBVIOUS
<1>7. content \in Contents /\ \A k \in Keys : content[k] = Shown(F, k, c[k])
  BY <1>3, <1>4, <1>6, ReplayIs
<1>8. PICK shown : shown = Unretracted(content)
  OBVIOUS
<1>9. /\ \A k \in Keys : shown[k] = IF k \in retracted THEN {} ELSE content[k]
      /\ shown \in Contents
  BY <1>7, <1>8 DEF Unretracted, Contents
<1>10. /\ rebuild' = [g EXCEPT !.content = shown, !.after = z]
       /\ dirty' = dirty \cup Written(batch) \cup Written(rows)
       /\ visible' = visible
  BY <1>1, <1>2, <1>6, <1>8 DEF NextBatch
<1>11. z \in Nat
  <2>1. to \in 1 .. Len(pending)
    BY <1>1 DEF NextBatch, Batches
  <2> QED BY <1>6, <2>1, QueueRow
<1>12. /\ rebuild' \in Generations /\ rebuild'.at = g.at /\ rebuild'.content = shown
       /\ rebuild'.after = z
  <2>1. PICK h : h = rebuild'
    OBVIOUS
  <2>2. g \in Generations /\ shown \in Contents /\ z \in Nat
        /\ h = [g EXCEPT !.content = shown, !.after = z]
    BY <1>2, <1>9, <1>10, <1>11, <2>1
  <2>3. h \in Generations /\ h.at = g.at /\ h.content = shown /\ h.after = z
    BY ONLY <2>2 DEF Generations
  <2> QED BY <2>1, <2>3
<1>13. g.at = "pending" /\ rebuild' # None
  BY <1>2, <1>12, NoneAssumption DEF ReplayPending
<1>14. CopyInv'
  BY <1>12, <1>13 DEF CopyInv
<1>15. dirty' \subseteq Keys
  <2>1. rows \in Seq(PendingRows)
    BY <1>4, <1>6, RewrittenRows
  <2>2. Written(rows) \subseteq Keys /\ Written(batch) \subseteq Keys
    BY <1>4, <2>1, WrittenIs
  <2> QED BY <1>10, <2>2 DEF VisibleInv, ContentInv
<1>16. PICK D \in SUBSET ReadyIds : Replaying(D)
  BY DEF VisibleInv, ProjectionInv
<1>17. PICK M : M = D \cup {m \in ReadyIds : \E i \in from .. to : pending[i].id = m}
  OBVIOUS
<1>18. PICK E : E = Passed(D)
  OBVIOUS
<1>19. PICK G : G = Passed(M)'
  OBVIOUS
<1>20. PICK H : H = E \cup F
  OBVIOUS
<1>21. /\ Follow(E, F)
       /\ \A p \in G :
            \/ p \in E
            \/ /\ \E r \in F : r.id = p.id /\ r.local = p.local
               /\ p.writes = IF Live(F, p, c[KeyOf[p.id]]) THEN {KeyOf[p.id]} ELSE {}
       /\ \A p \in E : p \in G
       /\ \A r \in F : r.id \notin ReadyIds /\ \E p \in G : p.id = r.id /\ p.local = r.local
  <2>1. c = rebuild.content /\ rebuild'.after = pending[to].local
    BY <1>2, <1>6, <1>12
  <2>2. Passes(E, F, G, c)
    BY <1>1, <1>3, <1>16, <1>17, <1>18, <1>19, <2>1, PassedNext
  <2> QED BY <2>2 DEF Passes
<1>22. \A b : /\ \A k : Shown(H, k, b) = Shown(G, k, b)
              /\ \A p, q : p.id = q.id /\ p.local = q.local => (Live(H, p, b) <=> Live(G, q, b))
  <2>1. \A p \in H : \E q \in G : q.id = p.id /\ q.local = p.local
    BY <1>20, <1>21
  <2>2. \A q \in G : \E p \in H : q.id = p.id /\ q.local = p.local
    BY <1>20, <1>21
  <2> QED BY ONLY <2>1, <2>2, Alike
<1>23. /\ \A k \in Keys \ retracted :
            /\ c[k] = Shown(E, k, base[k])
            /\ \A p \in E : KeyOf[p.id] = k => (p.writes = {} <=> ~ Live(E, p, base[k]))
       /\ \A p \in E : p.id \notin gate.settling
  BY <1>2, <1>13, <1>16, <1>18 DEF Replaying, Agrees
<1>24. ASSUME NEW k \in Keys \ retracted
       PROVE  /\ shown[k] = Shown(G, k, base[k])
              /\ \A p \in G : KeyOf[p.id] = k => (p.writes = {} <=> ~ Live(G, p, base[k]))
  <2>1. PICK b, old : b = base[k] /\ old = c[k]
    OBVIOUS
  <2>2. old = Shown(E, k, b)
    BY <1>23, <2>1
  <2>6. Follow(E, F) /\ H = E \cup F
    BY <1>20, <1>21
  <2>9. Continues(E, F, H, k, b, old)
    BY ONLY <2>2, <2>6, Adding
  <2>3. /\ Shown(H, k, b) = Shown(F, k, old)
        /\ \A p \in E : Live(H, p, b) <=> Live(E, p, b)
        /\ \A p \in F : KeyOf[p.id] = k => (Live(H, p, b) <=> Live(F, p, old))
    BY <2>9 DEF Continues
  <2>4. shown[k] = Shown(F, k, old)
    BY <1>7, <1>9, <2>1
  <2>5. ASSUME NEW p \in G, KeyOf[p.id] = k PROVE p.writes = {} <=> ~ Live(G, p, b)
    <3>1. Live(H, p, b) <=> Live(G, p, b)
      BY <1>22
    <3>2. CASE p \in E
      BY <1>23, <2>1, <2>3, <2>5, <3>1, <3>2
    <3>3. CASE p \notin E
      <4>1. PICK r \in F : r.id = p.id /\ r.local = p.local
        BY <1>21, <3>3
      <4>2. p.writes = IF Live(F, p, old) THEN {KeyOf[p.id]} ELSE {}
        BY <1>21, <2>1, <2>5, <3>3
      <4>3. Live(F, p, old) <=> Live(F, r, old)
        BY <4>1 DEF Live
      <4>4. Live(H, r, b) <=> Live(F, r, old)
        BY <2>3, <2>5, <4>1
      <4>5. Live(H, r, b) <=> Live(G, p, b)
        BY <1>22, <4>1
      <4> QED BY <4>2, <4>3, <4>4, <4>5
    <3> QED BY <3>2, <3>3
  <2> QED BY <1>22, <2>1, <2>3, <2>4, <2>5
<1>25. retracted' = retracted /\ Base' = base /\ gate'.settling = gate.settling
       /\ gate.settling \subseteq ReadyIds /\ ReadyIds \subseteq ReadyIds'
       /\ retracted \subseteq Keys
  BY <1>2, ProjectFacts DEF VisibleInv, ContentInv
<1>26. ASSUME NEW p \in G PROVE p.id \notin gate.settling
  BY <1>21, <1>23, <1>25
<1>27. Replaying(M)'
  <2>1. ASSUME NEW k \in Keys \ retracted PROVE Agrees(Passed(M), rebuild.content, k)'
    BY <1>12, <1>19, <1>24, <1>25 DEF Agrees
  <2>2. \A k \in retracted : rebuild'.content[k] = {}
    BY <1>9, <1>12, <1>25
  <2> QED BY <1>19, <1>25, <1>26, <2>1, <2>2 DEF Replaying
<1>28. M \in SUBSET ReadyIds'
  BY <1>17, <1>25
<1> QED BY <1>5, <1>10, <1>12, <1>13, <1>14, <1>15, <1>27, <1>28, ProjectGoesOn

(* Every way to bring the projection up to date.                           *)
LEMMA ProjectVisible ==
  ASSUME OutboxInv, OutboxInv', VisibleInv, Project PROVE VisibleInv'
<1>1. CASE rebuild = None
  BY <1>1, ShortcutVisible, DeltaVisible
<1>2. CASE rebuild # None
  <2>1. CleanTarget \/ CopyCanonical \/ ReplayPending \/ Promote
    BY <1>2, ProjectFacts DEF RebuildStep
  <2> QED BY <1>2, <2>1, CleanVisible, CopyVisible, ReplayVisible, PromoteVisible
<1> QED BY <1>1, <1>2

LEMMA LeavesPage ==
  ASSUME OutboxInv, PageInv, view' = view, Leave PROVE PageInv'
<1>1. PICK t : t = turn /\ TurnShape(t)
  BY DEF OutboxInv, ClientTypeInv, TurnType
<1>2. \/ AfterCatchUp \/ CompletePass \/ turn' = Idle \/ turn' = Claiming \/ turn' = turn
      \/ turn' = TurnAt("expired") \/ turn' = TurnAt("pull")
      \/ turn' = [Idle EXCEPT !.at = "pull", !.pass = 2]
  BY DEF Leave
<1>3. AfterCatchUp \/ CompletePass => turn' = Claiming \/ turn' = Idle
  BY DEF AfterCatchUp, CompletePass
<1>4. turn' = turn \/ turn'.at \in {"idle", "claim", "expired", "pull"}
  <2>1. /\ Idle.at = "idle" /\ Claiming.at = "claim"
        /\ [Idle EXCEPT !.at = "pull", !.pass = 2].at = "pull"
    BY IdleIs DEF Claiming
  <2>2. \A x : TurnAt(x).at = x
    BY <1>1, TurnFields DEF TurnAt
  <2> QED BY <1>2, <1>3, <2>1, <2>2
<1> QED BY <1>4, PageStays, PageElsewhere

\* what is pending after a settlement
LEMMA QueueSettled ==
  ASSUME OutboxInv, DeleteSettled
  PROVE  Queue' = {p \in Queue : p.id \notin gate.settling}
<1>1. PICK s, rest : s = pending /\ rest = Remaining
  OBVIOUS
<1>2. pending' = rest /\ Queue' = RowsOf(rest)
  BY <1>1 DEF DeleteSettled, Remaining, Queue, RowsOf
<1>3. /\ \A j \in 1 .. Len(rest) :
           rest[j].id \notin gate.settling /\ \E i \in 1 .. Len(s) : rest[j] = s[i]
      /\ \A i \in 1 .. Len(s) :
           s[i].id \notin gate.settling => \E j \in 1 .. Len(rest) : rest[j] = s[i]
  BY <1>1, RemainingRows
<1>4. Queue = RowsOf(s) /\ \A p : Row(p).id = p.id
  BY <1>1 DEF Queue, Row
<1> QED BY <1>2, <1>3, <1>4 DEF RowsOf

\* and what is ready
LEMMA ReadySettled ==
  ASSUME OutboxInv, OutboxInv', DeleteSettled
  PROVE  \A m \in ReadyIds : m \notin gate.settling => m \in ReadyIds'
<1> SUFFICES ASSUME NEW m \in ReadyIds, m \notin gate.settling PROVE m \in ReadyIds'
  OBVIOUS
<1>1. PICK r \in receipts : m \in PendingIds /\ r.id = m /\ TerminallyReady(r)
  BY ReadyIs
<1>2. r \in receipts'
  <2>1. \A j \in 1 .. Len(Deleted) : Deleted[j].id # r.id
    BY <1>1, DeletedRows
  <2> QED BY <2>1, DeletedReceipts
<1>3. serverCursor' = serverCursor /\ installed' = installed
  BY DEF DeleteSettled, viewVars
<1>4. TerminallyReady(r)'
  BY <1>1, <1>3 DEF TerminallyReady
<1>5. m \in PendingIds'
  <2>1. \E p \in Queue : p.id = m
    BY <1>1, QueueIs
  <2>2. \E p \in Queue' : p.id = m
    BY <2>1, QueueSettled
  <2> QED BY <2>2, QueueIds
<1>6. PICK p \in ToSet(pending)' : p.id = m
  BY <1>5 DEF PendingIds
<1>7. Ready(p)'
  BY <1>1, <1>2, <1>4, <1>6 DEF Ready, ReceiptsOf
<1> QED BY <1>6, <1>7 DEF ReadyIds

(* Settled rows are deleted: they were left out already.                   *)
LEMMA DeleteVisible ==
  ASSUME OutboxInv, OutboxInv', VisibleInv, DeleteSettled PROVE VisibleInv'
<1>1. /\ UNCHANGED <<canonical, retracted, fencedAt, visible, rebuild, dirty>>
      /\ UNCHANGED <<view, serverCursor, installed, nextLocal, entities>>
      /\ gate' = Free
  BY DEF DeleteSettled, projectionVars, viewVars, serverVars, Leave
<1>2. gate.at = "delete" /\ rebuild = None /\ rebuild' = None
  BY <1>1 DEF DeleteSettled, VisibleInv, OperationInv
<1>3. PICK D \in SUBSET ReadyIds : Projected(D)
  BY DEF VisibleInv, ProjectionInv
<1>4. PICK N, F, base : N = D \ gate.settling /\ F = Counted(D) /\ base = Base
  OBVIOUS
<1>5. PICK E : E = {p \in F : p.id \notin gate.settling}
  OBVIOUS
<1>6. Queue' = {p \in Queue : p.id \notin gate.settling}
  BY QueueSettled
<1>7. Counted(N)' = E /\ Base' = base
  <2>1. Counted(N)' = {p \in Queue' : p.id \notin N}
    BY DEF Counted
  <2>2. F = {p \in Queue : p.id \notin D}
    BY <1>4 DEF Counted
  <2> QED BY <1>1, <1>4, <1>5, <1>6, <2>1, <2>2 DEF Base, Unretracted
<1>8. Projects(F) /\ E \in SUBSET F
  BY <1>2, <1>3, <1>4, <1>5 DEF Projected
<1>9. ASSUME NEW p \in F, p.writes # {} PROVE p \in E
  BY <1>2, <1>5, <1>8, <1>9 DEF Projects, LeftOut
<1>10. ASSUME NEW k \in Keys \ (dirty \cup retracted) PROVE Agrees(Counted(N), visible, k)'
  <2>1. PICK b : b = base[k]
    OBVIOUS
  <2>2. /\ visible[k] = Shown(F, k, b)
        /\ \A p \in F : KeyOf[p.id] = k => (p.writes = {} <=> ~ Live(F, p, b))
    BY <1>4, <1>8, <2>1 DEF Projects, Overlaid, Agrees
  <2>3. E \in SUBSET F /\ \A p \in F \ E : KeyOf[p.id] = k => ~ Live(F, p, b)
    BY <1>8, <1>9, <2>2
  <2>4. /\ Shown(E, k, b) = Shown(F, k, b)
        /\ \A p \in E : KeyOf[p.id] = k => (Live(E, p, b) <=> Live(F, p, b))
    BY ONLY <2>3, Dropping
  <2> QED BY <1>1, <1>7, <1>8, <2>1, <2>2, <2>4 DEF Agrees
<1>11. Overlaid(Counted(N))'
  BY <1>1, <1>10 DEF Overlaid
<1>12. SinceFence(Counted(N))'
  BY <1>1, <1>7, <1>8, <1>9 DEF Projects, SinceFence
<1>13. RefusedFirst(Counted(N))'
  BY <1>1, <1>7, <1>8, <1>9 DEF Projects, RefusedFirst
<1>14. gate'.at = "none" /\ gate'.op = "free" /\ gate'.settling = {}
  BY <1>1, HoldingIs
<1>15. LeftOut(Counted(N))'
  BY <1>14 DEF LeftOut
<1>16. Projected(N)'
  BY <1>11, <1>12, <1>13, <1>15 DEF Projected, Projects
<1>17. N \in SUBSET ReadyIds'
  BY <1>4, ReadySettled
<1>18. ProjectionInv' /\ CopyInv'
  BY <1>2, <1>16, <1>17, ProjectionDone
<1>19. ContentInv'
  BY <1>1 DEF VisibleInv, ContentInv
<1>20. WritesInv'
  BY <1>6 DEF VisibleInv, WritesInv
<1>21. OperationInv'
  BY <1>2, <1>14 DEF OperationInv
<1>22. PageInv'
  BY <1>1, LeavesPage DEF DeleteSettled, VisibleInv
<1> QED BY <1>18, <1>19, <1>20, <1>21, <1>22 DEF VisibleInv

LEMMA RowsAppended ==
  ASSUME NEW X, NEW s \in Seq(X), NEW e \in X
  PROVE  RowsOf(Append(s, e)) = RowsOf(s) \cup {Row(e)}
<1>1. PICK t, n : t = Append(s, e) /\ n = Len(s)
  OBVIOUS
<1>2. /\ n \in Nat /\ Len(t) = n + 1 /\ t[n + 1] = e
      /\ \A i \in 1 .. n : t[i] = s[i]
      /\ \A i : i \in 1 .. n + 1 <=> i \in 1 .. n \/ i = n + 1
  BY <1>1, Appended
<1>3. RowsOf(t) = {Row(t[i]) : i \in 1 .. n + 1} /\ RowsOf(s) = {Row(s[i]) : i \in 1 .. n}
  BY <1>1, <1>2 DEF RowsOf
<1> QED BY <1>1, <1>2, <1>3

(* A new mutation is run on what is visible and appended.                  *)
LEMMA MutateVisible ==
  ASSUME OutboxInv, OutboxInv', VisibleInv, NEW m \in Mutations, Mutate(m) PROVE VisibleInv'
<1>1. /\ UNCHANGED <<canonical, retracted, fencedAt, rebuild, dirty, gate, turn>>
      /\ UNCHANGED <<view, serverCursor, installed, entities, receiptVars>>
      /\ nextLocal' = nextLocal + 1 /\ visible' = Run(m, visible)
      /\ gate = Free /\ rebuild = None /\ ~ Refuses(m, visible) /\ ~ Recorded(m)
  BY DEF Mutate, viewVars, serverVars
<1>2. PICK k : k = KeyOf[m] /\ k \in Keys
  BY LocalStoreAssumption
<1>3. PICK r : r = [id |-> m, local |-> nextLocal, writes |-> {k}]
  OBVIOUS
<1>4. nextLocal \in Nat /\ pending \in Seq(PendingRows) /\ visible \in Contents
  BY DEF OutboxInv, ClientTypeInv, VisibleInv, ContentInv, HistoryTypeInv
<1>5. Queue' = Queue \cup {r}
  <2>1. PICK s, e : /\ s = pending
                    /\ e = [id |-> m, local |-> nextLocal, state |-> "Queued",
                            writes |-> Writes(m, visible)]
    OBVIOUS
  <2>2. Writes(m, visible) = {k}
    BY <1>1, <1>2 DEF Writes
  <2>3. e \in PendingRows
    BY <1>2, <1>4, <2>1, <2>2 DEF PendingRows, States
  <2>4. Row(e) = r
    BY <1>3, <2>1, <2>2 DEF Row
  <2>5. pending' = Append(s, e)
    BY <2>1 DEF Mutate
  <2>6. s \in Seq(PendingRows)
    BY <1>4, <2>1
  <2>7. RowsOf(Append(s, e)) = RowsOf(s) \cup {Row(e)}
    BY ONLY <2>3, <2>6, RowsAppended
  <2> QED BY <2>1, <2>4, <2>5, <2>7 DEF Queue, RowsOf
<1>6. visible' \in Contents /\ \A j \in Keys : visible'[j] =
        IF k = j THEN visible[j] \cup {m} ELSE visible[j]
  <2>1. /\ Run(m, visible) \in Contents
        /\ \A j \in Keys : Run(m, visible)[j] =
             IF KeyOf[m] = j /\ (m \notin Strict \/ visible[j] # {})
               THEN visible[j] \cup {m} ELSE visible[j]
    BY <1>4, RunIs
  <2> QED BY <1>1, <1>2, <2>1 DEF Refuses
<1>7. ReadyIds \subseteq ReadyIds'
  <2>1. PendingIds \subseteq PendingIds'
    BY <1>5, QueueIds
  <2>2. serverCursor \in Nat /\ serverCursor' = serverCursor /\ installed' = installed
    BY <1>1 DEF VisibleInv, ContentInv
  <2> QED BY <1>1, <2>1, <2>2, ReadyStays, ReceiptsUnchanged
<1>8. PICK D \in SUBSET ReadyIds : Projected(D)
  BY DEF VisibleInv, ProjectionInv
<1>9. PICK F, base : F = Counted(D) /\ base = Base
  OBVIOUS
<1>10. PICK G, R : G = F \cup R /\ R = {r}
  OBVIOUS
<1>11. Counted(D)' = G /\ Base' = base
  <2>1. m \notin D
    BY <1>1, ReadyIs DEF Recorded
  <2>2. Counted(D)' = {p \in Queue' : p.id \notin D} /\ F = {p \in Queue : p.id \notin D}
    BY <1>9 DEF Counted
  <2> QED BY <1>1, <1>3, <1>5, <1>9, <1>10, <2>1, <2>2 DEF Base, Unretracted
<1>12. Projects(F)
  BY <1>1, <1>8, <1>9 DEF Projected
<1>13. r.id = m /\ r.local = nextLocal /\ r.writes = {k} /\ r.local \in Nat
  BY <1>3, <1>4
<1>14. \A p \in F : p.local \in Nat /\ p.local < nextLocal
  BY <1>9, QueueIs DEF Counted
<1>15. Follow(F, R)
  BY <1>10, <1>13, <1>14 DEF Follow
<1>16. ASSUME NEW j \in Keys \ (dirty \cup retracted) PROVE Agrees(Counted(D), visible, j)'
  <2>1. PICK b, old : b = base[j] /\ old = visible[j]
    OBVIOUS
  <2>2. /\ old = Shown(F, j, b)
        /\ \A p \in F : KeyOf[p.id] = j => (p.writes = {} <=> ~ Live(F, p, b))
    BY <1>9, <1>12, <2>1 DEF Projects, Overlaid, Agrees
  <2>3. Follow(F, R) /\ G = F \cup R
    BY <1>10, <1>15
  <2>4. Continues(F, R, G, j, b, old)
    BY ONLY <2>2, <2>3, Adding
  <2>5. /\ Shown(G, j, b) = Shown(R, j, old)
        /\ \A p \in F : Live(G, p, b) <=> Live(F, p, b)
        /\ \A p \in R : KeyOf[p.id] = j => (Live(G, p, b) <=> Live(R, p, old))
    BY <2>4 DEF Continues
  <2>6. k = j => m \notin Strict \/ old # {}
    BY <1>1, <1>2, <2>1 DEF Refuses
  <2>7. Shown({r}, j, old) =
          IF KeyOf[r.id] = j /\ (r.id \notin Strict \/ old # {}) THEN old \cup {r.id} ELSE old
    BY ONLY <1>13, OneRow
  <2>8. visible'[j] = Shown(G, j, b)
    BY <1>2, <1>6, <1>10, <1>13, <2>1, <2>5, <2>6, <2>7
  <2>9. KeyOf[r.id] = j => Live(R, r, old)
    BY <1>2, <1>13, <2>6 DEF Live
  <2>10. ASSUME NEW p \in G, KeyOf[p.id] = j PROVE p.writes = {} <=> ~ Live(G, p, b)
    BY <1>10, <1>13, <2>2, <2>5, <2>9, <2>10
  <2> QED BY <1>11, <2>1, <2>8, <2>10 DEF Agrees
<1>17. Overlaid(Counted(D))'
  BY <1>1, <1>16 DEF Overlaid
<1>18. retracted \subseteq Keys /\ \A j \in Keys : fencedAt[j] <= nextLocal
  BY DEF VisibleInv, ContentInv
<1>19. SinceFence(Counted(D))'
  <2>1. ASSUME NEW j \in retracted \ dirty, NEW x \in visible'[j]
        PROVE  \E p \in G : p.id = x /\ KeyOf[x] = j /\ p.writes # {} /\ p.local >= fencedAt[j]
    <3>1. CASE x \in visible[j]
      BY <1>10, <1>12, <2>1, <3>1 DEF Projects, SinceFence
    <3>2. CASE x \notin visible[j]
      <4>1. k = j /\ x = m
        BY <1>6, <1>18, <2>1, <3>2
      <4>2. r.local >= fencedAt[j] /\ r \in G
        BY <1>10, <1>13, <1>18, <2>1 DEF VisibleInv, ContentInv
      <4> QED BY <1>2, <1>13, <4>1, <4>2
    <3> QED BY <3>1, <3>2
  <2> QED BY <1>1, <1>11, <2>1 DEF SinceFence
<1>20. RefusedFirst(Counted(D))'
  <2>1. ASSUME NEW q \in G, q.writes = {}, NEW x \in visible'[KeyOf[q.id]]
        PROVE  \E p \in G :
                 p.id = x /\ KeyOf[x] = KeyOf[q.id] /\ p.writes # {} /\ q.local < p.local
    <3>1. q \in F
      BY <1>10, <1>13, <2>1
    <3>2. CASE x \in visible[KeyOf[q.id]]
      BY <1>10, <1>12, <2>1, <3>1, <3>2 DEF Projects, RefusedFirst
    <3>3. CASE x \notin visible[KeyOf[q.id]]
      <4>1. KeyOf[q.id] \in Keys
        BY <1>9, <3>1, QueueIs DEF Counted
      <4>2. k = KeyOf[q.id] /\ x = m
        BY <1>6, <2>1, <3>3, <4>1
      <4> QED BY <1>2, <1>10, <1>13, <1>14, <3>1, <4>2
    <3> QED BY <3>2, <3>3
  <2> QED BY <1>11, <2>1 DEF RefusedFirst
<1>21. gate'.at = "none" /\ gate'.op = "free" /\ gate'.settling = {}
  BY <1>1, HoldingIs
<1>22. Projected(D)'
  BY <1>17, <1>19, <1>20, <1>21 DEF Projected, Projects, LeftOut
<1>23. ProjectionInv' /\ CopyInv'
  <2>1. D \in SUBSET ReadyIds' /\ rebuild' = None
    BY <1>1, <1>7
  <2> QED BY <1>22, <2>1, ProjectionDone
<1>24. ContentInv'
  BY <1>1, <1>4, <1>6 DEF VisibleInv, ContentInv
<1>25. WritesInv'
  BY <1>2, <1>5, <1>13 DEF VisibleInv, WritesInv
<1>26. OperationInv'
  BY <1>1, <1>21 DEF OperationInv
<1>27. PageInv'
  BY <1>1, PageStays DEF VisibleInv
<1> QED BY <1>23, <1>24, <1>25, <1>26, <1>27 DEF VisibleInv

\* a page or a snapshot that is older than what the client has
(* A pass gives up.                                                        *)
LEMMA HaltVisible ==
  ASSUME OutboxInv, OutboxInv', VisibleInv, Halt("ProtocolInvalid"),
         UNCHANGED <<viewVars, projectionVars, receiptVars, gate, pending, nextLocal, entities>>
  PROVE  VisibleInv'
<1>1. /\ UNCHANGED Displays /\ UNCHANGED <<view, serverCursor, installed, nextLocal, gate>>
      /\ UNCHANGED receiptVars /\ entities' = entities /\ pending' = pending
  BY DEF viewVars, projectionVars, Displays
<1>2. PageInv'
  BY PageElsewhere, IdleIs DEF Halt
<1>3. entities' \in Contents /\ ReceiptsKept /\ Queue' = Queue
  BY <1>1, ReceiptsUnchanged, QueueUnchanged DEF VisibleInv, ContentInv
<1> QED BY <1>1, <1>2, <1>3, CalmStep

LEMMA FenceIs ==
  ASSUME OutboxInv, ContentInv, NEW fences \in SUBSET Keys, Fence(fences)
  PROVE  /\ retracted' = fences /\ fencedAt' \in [Keys -> Nat]
         /\ \A k \in Keys : fencedAt'[k] <= nextLocal
         /\ \A k \in Keys : k \in retracted \/ k \notin fences => fencedAt'[k] = fencedAt[k]
<1>1. nextLocal \in Nat /\ fencedAt \in [Keys -> Nat] /\ \A k \in Keys : fencedAt[k] <= nextLocal
  BY DEF OutboxInv, ClientTypeInv, HistoryTypeInv, ContentInv
<1>2. /\ retracted' = fences
      /\ fencedAt' = [k \in Keys |-> IF k \in fences \ retracted THEN nextLocal ELSE fencedAt[k]]
  BY DEF Fence
<1> QED BY <1>1, <1>2

(* A page of the replication view is applied.                              *)
LEMMA PageVisible ==
  ASSUME OutboxInv, OutboxInv', VisibleInv, ApplyViewPage PROVE VisibleInv'
<1>1. /\ gate = Free /\ turn.at = "page" /\ pending' = pending /\ nextLocal' = nextLocal
      /\ entities' = entities /\ UNCHANGED receiptVars
  BY DEF ApplyViewPage, serverVars
<1>2. CASE Halt("ProtocolInvalid") /\ UNCHANGED <<viewVars, projectionVars, gate>>
  BY <1>1, <1>2, HaltVisible
<1>3. CASE ~ (Halt("ProtocolInvalid") /\ UNCHANGED <<viewVars, projectionVars, gate>>)
  <2>1. PICK p : p = turn.page
    OBVIOUS
  <2>2. PICK fences : fences = (retracted \ p.changed) \cup p.revoked
    OBVIOUS
  <2>3. /\ ~ (~ p.more /\ p.sequence < serverCursor)
        /\ canonical' = [k \in Keys |-> IF k \in p.changed THEN p.content[k] ELSE canonical[k]]
        /\ Fence(fences)
        /\ dirty' = dirty \cup p.changed
        /\ serverCursor' = IF p.more THEN serverCursor ELSE p.sequence
        /\ gate' = IF p.more THEN Free ELSE Holding("page", "prepare", {})
        /\ turn' = IF p.more THEN TurnAt("pull") ELSE turn
        /\ UNCHANGED <<installed, view, visible, rebuild>>
    BY <1>3, <2>1, <2>2 DEF ApplyViewPage
  <2>4. /\ view /\ p.sequence \in Nat /\ p.content \in Contents
        /\ p.changed \subseteq Keys /\ p.revoked \subseteq p.changed
    BY <1>1, <2>1 DEF VisibleInv, PageInv, PageType
  <2>5. rebuild = None /\ rebuild' = None
    BY <1>1, <2>3, <2>4, HoldingIs DEF VisibleInv, OperationInv, Withdrawn
  <2>6. /\ ContentInv /\ canonical \in Contents /\ retracted \subseteq Keys /\ dirty \subseteq Keys
        /\ serverCursor \in Nat
    BY DEF VisibleInv, ContentInv
  <2>7. fences \in SUBSET Keys
    BY <2>2, <2>4, <2>6
  <2>8. /\ retracted' = fences /\ fencedAt' \in [Keys -> Nat]
        /\ \A k \in Keys : fencedAt'[k] <= nextLocal
        /\ \A k \in Keys : k \in retracted \/ k \notin fences => fencedAt'[k] = fencedAt[k]
    BY <2>3, <2>6, <2>7, FenceIs
  <2>9. canonical' \in Contents
    BY <2>3, <2>4, <2>6 DEF Contents
  <2>10. serverCursor' \in Nat /\ serverCursor <= serverCursor'
    BY <2>3, <2>4, <2>6
  <2>11. ContentInv'
    BY <1>1, <2>3, <2>4, <2>6, <2>7, <2>8, <2>9, <2>10 DEF VisibleInv, ContentInv
  <2>12. Queue' = Queue
    BY <1>1, QueueUnchanged
  <2>13. ReadyIds \subseteq ReadyIds'
    <3>1. PendingIds \subseteq PendingIds'
      BY <2>12, QueueIds
    <3> QED BY <1>1, <2>3, <2>6, <2>10, <3>1, ReadyStays, ReceiptsUnchanged
  <2>14. PICK D \in SUBSET ReadyIds : Projected(D)
    BY DEF VisibleInv, ProjectionInv
  <2>15. PICK F : F = Counted(D)
    OBVIOUS
  <2>16. Counted(D)' = F /\ Projects(F)
    BY <2>5, <2>12, <2>14, <2>15 DEF Counted, Projected
  <2>17. ASSUME NEW k \in Keys \ (dirty' \cup retracted') PROVE Agrees(Counted(D), visible, k)'
    <3>1. k \notin dirty /\ k \notin p.changed /\ k \notin retracted
      BY <2>2, <2>3, <2>8, <2>17
    <3>2. Base'[k] = Base[k]
      BY <2>3, <2>17, <3>1 DEF Base, Unretracted
    <3>3. Agrees(F, visible, k)
      BY <2>16, <2>17, <3>1 DEF Projects, Overlaid
    <3> QED BY <2>3, <2>16, <3>2, <3>3 DEF Agrees
  <2>18. Overlaid(Counted(D))'
    BY <2>17 DEF Overlaid
  <2>19. SinceFence(Counted(D))'
    <3>1. ASSUME NEW k \in retracted' \ dirty'
          PROVE  k \in retracted \ dirty /\ fencedAt'[k] = fencedAt[k]
      BY <2>2, <2>3, <2>4, <2>6, <2>8, <3>1
    <3> QED BY <2>3, <2>16, <3>1 DEF Projects, SinceFence
  <2>20. RefusedFirst(Counted(D))'
    BY <2>3, <2>16 DEF Projects, RefusedFirst
  <2>21. gate'.at \in {"none", "prepare"} /\ gate'.op \in {"free", "page"} /\ gate'.settling = {}
    BY <2>3, HoldingIs
  <2>22. Projected(D)'
    BY <2>18, <2>19, <2>20, <2>21 DEF Projected, Projects, LeftOut
  <2>23. ProjectionInv' /\ CopyInv'
    <3>1. D \in SUBSET ReadyIds'
      BY <2>13
    <3> QED BY <2>5, <2>22, <3>1, ProjectionDone
  <2>24. WritesInv'
    BY <2>12, WritesKept DEF VisibleInv
  <2>25. OperationInv'
    BY <2>5, <2>21 DEF OperationInv
  <2>26. PageInv'
    <3>1. PICK t : t = turn /\ TurnShape(t)
      BY DEF OutboxInv, ClientTypeInv, TurnType
    <3>2. TurnAt("pull").at = "pull"
      BY <3>1, TurnFields DEF TurnAt
    <3> QED BY <2>3, <3>2, PageStays, PageElsewhere DEF VisibleInv
  <2> QED BY <2>11, <2>23, <2>24, <2>25, <2>26 DEF VisibleInv
<1> QED BY <1>2, <1>3

(* A bootstrap snapshot is installed; it fences what it revokes.           *)
LEMMA InstallVisible ==
  ASSUME OutboxInv, OutboxInv', VisibleInv, InstallBootstrap PROVE VisibleInv'
<1>1. /\ rebuild = None /\ turn.at \in {"install", "installExpired"} /\ pending' = pending
      /\ nextLocal' = nextLocal /\ entities' = entities
  BY DEF InstallBootstrap, serverVars
<1>2. CASE Halt("ProtocolInvalid") /\ UNCHANGED <<viewVars, projectionVars, receiptVars, gate>>
  BY <1>1, <1>2, HaltVisible
<1>3. CASE ~ (Halt("ProtocolInvalid") /\ UNCHANGED <<viewVars, projectionVars, receiptVars, gate>>)
  <2>1. PICK m, present : m = turn.page /\ present = {k \in Keys : turn.page.content[k] # {}}
    OBVIOUS
  <2>2. PICK fences, settling :
          /\ fences = (retracted \cup Fences(m)) \ present
          /\ settling = {p.id : p \in {q \in ToSet(pending) :
                                         \E r \in ReceiptsOf(q.id) : Covered(m, r)}}
    OBVIOUS
  <2>3. /\ canonical' = m.content /\ Fence(fences) /\ serverCursor' = m.sequence
        /\ installed' = [sequence |-> m.sequence, terminal |-> m.terminal] /\ view' = TRUE
        /\ dirty' = dirty \cup present \cup {k \in Keys : canonical[k] # {} \/ visible[k] # {}}
        /\ rebuild' = Requested /\ gate' = Holding("install", "project", settling)
        /\ PruneThen({}) /\ UNCHANGED <<visible, turn>>
    BY <1>3, <2>1, <2>2 DEF InstallBootstrap
  <2>4. m.sequence \in Nat /\ m.content \in Contents /\ m.terminal \in Nat
    BY <1>1, <2>1 DEF VisibleInv, PageInv, PageType
  <2>5. rebuild' = Cleaning
    BY <1>1, <2>3 DEF Requested
  <2>6. ContentInv /\ retracted \subseteq Keys /\ dirty \subseteq Keys
    BY DEF VisibleInv, ContentInv
  <2>7. fences \in SUBSET Keys
    BY <2>2, <2>6 DEF Fences
  <2>8. /\ retracted' = fences /\ fencedAt' \in [Keys -> Nat]
        /\ \A k \in Keys : fencedAt'[k] <= nextLocal
    BY <2>3, <2>6, <2>7, FenceIs
  <2>9. ContentInv'
    BY <1>1, <2>1, <2>3, <2>4, <2>5, <2>6, <2>7, <2>8, CleaningIs DEF VisibleInv, ContentInv
  <2>10. WritesInv'
    BY <1>1, QueueUnchanged, WritesKept DEF VisibleInv
  <2>11. PageInv'
    BY <2>3, PagesKept DEF VisibleInv
  <2>12. ProjectionInv' /\ CopyInv'
    BY <2>5, ProjectionBegins
  <2>13. installed' # None /\ installed'.sequence = m.sequence /\ installed'.terminal = m.terminal
    <3>1. installed' \in Snapshots
      BY <2>3, <2>4 DEF Snapshots
    <3> QED BY <2>3, <3>1, NoneAssumption
  <2>14. ASSUME NEW x \in settling PROVE x \in ReadyIds'
    <3>1. PICK p \in ToSet(pending) : x = p.id /\ \E r \in ReceiptsOf(p.id) : Covered(m, r)
      BY <2>2
    <3>2. PICK r \in receipts : r.id = x /\ Covered(m, r)
      BY <3>1 DEF ReceiptsOf
    <3>3. PICK i \in 1 .. Len(pending) : pending[i] = p
      BY <3>1, QueueIs
    <3>4. r \in receipts'
      <4>1. r.settled = 0
        BY <3>1, <3>2, <3>3, ReceiptOfPending
      <4> QED BY <2>3, <4>1, NothingAdded DEF ReceiptsKept
    <3>5. TerminallyReady(r)'
      BY <2>3, <2>13, <3>2 DEF Covered, TerminallyReady
    <3>6. p \in ToSet(pending)'
      BY <1>1, <3>1
    <3>7. Ready(p)'
      BY <3>1, <3>2, <3>4, <3>5 DEF Ready, ReceiptsOf
    <3> QED BY <3>1, <3>6, <3>7 DEF ReadyIds
  <2>15. gate'.op = "install" /\ gate'.at = "project" /\ gate'.settling = settling
    BY <2>3, HoldingIs
  <2>16. OperationInv'
    BY <2>14, <2>15 DEF OperationInv
  <2> QED BY <2>9, <2>10, <2>11, <2>12, <2>16 DEF VisibleInv
<1> QED BY <1>2, <1>3

(* The replication is revoked: all that is visible is fenced off.          *)
LEMMA RevokeVisible ==
  ASSUME OutboxInv, OutboxInv', VisibleInv, RevokeReplication PROVE VisibleInv'
<1>1. PICK fenced : fenced = FencedByRevocation
  OBVIOUS
<1>2. PICK fences : fences = retracted \cup fenced
  OBVIOUS
<1>3. /\ gate = Free /\ turn.at = "revoke" /\ Fence(fences) /\ canonical' = Nothing /\ view' = FALSE
      /\ dirty' = dirty \cup fenced /\ rebuild' = Requested
      /\ gate' = Holding("revoke", "project", {})
      /\ UNCHANGED <<entities, receiptVars, visible, pending, nextLocal, serverCursor, installed,
                     turn>>
  BY <1>1, <1>2 DEF RevokeReplication, serverVars
<1>4. /\ ContentInv /\ retracted \subseteq Keys /\ dirty \subseteq Keys /\ serverCursor \in Nat
      /\ fencedAt \in [Keys -> Nat] /\ rebuild \in Generations \cup {None}
  BY DEF VisibleInv, ContentInv
<1>5. fenced \subseteq Keys /\ fences \in SUBSET Keys
  BY <1>1, <1>2, <1>4 DEF FencedByRevocation
<1>6. /\ retracted' = fences /\ fencedAt' \in [Keys -> Nat]
      /\ \A k \in Keys : fencedAt'[k] <= nextLocal
      /\ \A k \in Keys : k \in retracted \/ k \notin fences => fencedAt'[k] = fencedAt[k]
  BY <1>3, <1>4, <1>5, FenceIs
<1>7. rebuild' \in Generations /\ rebuild' # None
  BY <1>3, <1>4, CleaningIs, NoneAssumption DEF Requested
<1>8. ContentInv'
  BY <1>2, <1>3, <1>4, <1>5, <1>6, <1>7, CleaningIs DEF VisibleInv, ContentInv
<1>9. Queue' = Queue
  BY <1>3, QueueUnchanged
<1>10. WritesInv'
  BY <1>9, WritesKept DEF VisibleInv
<1>11. PageInv'
  BY <1>3, PageElsewhere
<1>12. Withdrawn'
  BY <1>1, <1>2, <1>3, <1>6 DEF Withdrawn, FencedByRevocation, Nothing
<1>13. gate'.op = "revoke" /\ gate'.at = "project" /\ gate'.settling = {}
  BY <1>3, HoldingIs
<1>14. OperationInv'
  BY <1>12, <1>13 DEF OperationInv
<1>15. CASE rebuild = None
  <2>1. rebuild' = Cleaning
    BY <1>3, <1>15 DEF Requested
  <2> QED BY <1>8, <1>10, <1>11, <1>14, <2>1, ProjectionBegins DEF VisibleInv
<1>16. CASE rebuild # None
  <2>1. rebuild' = rebuild
    BY <1>3, <1>16 DEF Requested
  <2>2. Withdrawn
    BY <1>3, <1>16, HoldingIs DEF VisibleInv, OperationInv
  <2>3. canonical' = canonical /\ retracted' = retracted
    BY <1>1, <1>2, <1>3, <1>6, <2>2 DEF Withdrawn, FencedByRevocation, Nothing
  <2>4. Base' = Base
    BY <2>3 DEF Base, Unretracted
  <2>5. CopyInv'
    BY <2>1, <2>4 DEF VisibleInv, CopyInv
  <2>6. PICK D \in SUBSET ReadyIds : Replaying(D)
    BY DEF VisibleInv, ProjectionInv
  <2>7. Passed(D)' = Passed(D)
    BY <1>9, <2>1 DEF Passed, Counted
  <2>8. Replaying(D)'
    BY <1>13, <2>1, <2>3, <2>4, <2>6, <2>7 DEF Replaying, Agrees
  <2>9. ReadyIds \subseteq ReadyIds'
    <3>1. PendingIds \subseteq PendingIds'
      BY <1>9, QueueIds
    <3>2. serverCursor' = serverCursor /\ installed' = installed
      BY <1>3
    <3> QED BY <1>3, <1>4, <3>1, <3>2, ReadyStays, ReceiptsUnchanged
  <2>10. ProjectionInv'
    BY <1>7, <2>6, <2>8, <2>9 DEF ProjectionInv, Projected
  <2> QED BY <1>8, <1>10, <1>11, <1>14, <2>5, <2>10 DEF VisibleInv
<1> QED BY <1>15, <1>16

(* An empty store.                                                         *)
LEMMA InitVisible ==
  ASSUME Init PROVE VisibleInv
<1>1. /\ Nothing \in Contents /\ entities = Nothing /\ canonical = Nothing /\ visible = Nothing
      /\ retracted = {} /\ rebuild = None /\ dirty = {} /\ pending = <<>> /\ nextLocal = 1
      /\ fencedAt = [k \in Keys |-> 0] /\ serverCursor = 0 /\ gate = Free /\ turn = Idle
  BY CleaningIs DEF Init
<1>2. Queue = {}
  BY <1>1 DEF Queue, RowsOf
<1>3. Free.op = "free" /\ Free.at = "none" /\ Free.settling = {} /\ Idle.at = "idle"
  BY HoldingIs, IdleIs
<1>4. ContentInv
  BY <1>1 DEF ContentInv
<1>5. PageInv /\ WritesInv /\ OperationInv /\ CopyInv
  BY <1>1, <1>2, <1>3 DEF PageInv, WritesInv, OperationInv, CopyInv
<1>6. Counted({}) = {}
  BY <1>2 DEF Counted
<1>7. Overlaid(Counted({}))
  <2>1. \A k \in Keys : Shown({}, k, Base[k]) = {} /\ visible[k] = {}
    BY <1>1 DEF Shown, Base, Unretracted, Nothing
  <2> QED BY <1>6, <2>1 DEF Overlaid, Agrees
<1>8. SinceFence(Counted({})) /\ RefusedFirst(Counted({})) /\ LeftOut(Counted({}))
  BY <1>1, <1>3, <1>6 DEF SinceFence, RefusedFirst, LeftOut
<1>9. ProjectionInv
  <2>1. Projected({}) /\ Replaying({})
    BY <1>1, <1>7, <1>8 DEF Projected, Projects, Replaying
  <2> QED BY <2>1 DEF ProjectionInv
<1> QED BY <1>4, <1>5, <1>9 DEF VisibleInv

LEMMA StutterVisible ==
  ASSUME OutboxInv, OutboxInv', VisibleInv, UNCHANGED vars PROVE VisibleInv'
<1>1. /\ UNCHANGED Displays /\ UNCHANGED <<view, serverCursor, installed, nextLocal, gate>>
      /\ UNCHANGED receiptVars /\ entities' = entities /\ pending' = pending
      /\ UNCHANGED <<turn, view>>
  BY DEF vars, viewVars, projectionVars, serverVars, Displays
<1>2. PageInv'
  BY <1>1, PageStays DEF VisibleInv
<1>3. entities' \in Contents /\ ReceiptsKept /\ Queue' = Queue
  BY <1>1, ReceiptsUnchanged, QueueUnchanged DEF VisibleInv, ContentInv
<1> QED BY <1>1, <1>2, <1>3, CalmStep

(* Every step keeps the invariant.                                         *)
LEMMA NextVisible ==
  ASSUME "install" \notin Fragile, OutboxInv, OutboxInv', VisibleInv, [Next]_vars
  PROVE  VisibleInv'
<1>1. CASE UNCHANGED vars
  BY <1>1, StutterVisible
<1>2. CASE PreparePage \/ SettleReceipts
  BY <1>2, PrepareVisible
<1>3. CASE Project
  BY <1>3, ProjectVisible
<1>4. CASE DeleteSettled
  BY <1>4, DeleteVisible
<1>5. CASE ResumeRebuild
  BY <1>5, ResumeVisible
<1>6. CASE ApplyViewPage
  BY <1>6, PageVisible
<1>7. CASE InstallBootstrap
  BY <1>7, InstallVisible
<1>8. CASE RevokeReplication
  BY <1>8, RevokeVisible
<1>9. ASSUME NEW m \in Mutations, Mutate(m) PROVE VisibleInv'
  BY <1>9, MutateVisible
<1>10. CASE StorageFails
  BY <1>10, FailureVisible
<1>11. CASE Crash
  BY <1>11, CrashVisible
<1>12. CASE Calm
  BY <1>12, CalmSteps
<1> QED BY <1>1, <1>2, <1>3, <1>4, <1>5, <1>6, <1>7, <1>8, <1>9, <1>10, <1>11, <1>12
           DEF Next, GateStep, PassStep, Application, Calm

(* The invariant in a quiet state is the property.                         *)
LEMMA VisibleImplies ==
  ASSUME OutboxInv, VisibleInv PROVE VisibleIsReplay
<1> SUFFICES ASSUME Quiet
             PROVE  /\ \A k \in Keys \ retracted :
                         visible[k] = Replayed(pending, Unretracted(canonical))[k]
                    /\ \A k \in retracted : \A m \in visible[k] :
                         \E p \in ToSet(pending) : p.id = m /\ p.local >= fencedAt[k]
  BY DEF VisibleIsReplay
<1>1. rebuild = None /\ dirty = {} /\ ReadyIds = {}
  BY DEF Quiet
<1>2. PICK D \in SUBSET ReadyIds : Projected(D)
  BY DEF VisibleInv, ProjectionInv
<1>3. PICK E, base, s : E = Counted({}) /\ base = Base /\ s = pending
  OBVIOUS
<1>4. D = {}
  BY <1>1, <1>2
<1>5. Projects(E)
  BY <1>1, <1>2, <1>3, <1>4 DEF Projected
<1>6. s \in Seq(PendingRows) /\ InOrder(s) /\ base \in Contents /\ E = Played(s, Len(s))
  <2>1. s \in Seq(PendingRows) /\ InOrder(s)
    BY <1>3, QueueIs DEF OutboxInv, ClientTypeInv
  <2>2. base \in Contents
    BY <1>3 DEF Base, Unretracted, VisibleInv, ContentInv, Contents
  <2>3. E = Played(s, Len(s))
    BY <1>1, <1>3, PlayedAll
  <2> QED BY <2>1, <2>2, <2>3
<1>7. \A k \in Keys : Replayed(s, base)[k] = Shown(E, k, base[k])
  BY <1>6, ReplayIs
<1>8. \A k \in Keys \ retracted : visible[k] = Shown(E, k, base[k])
  BY <1>1, <1>3, <1>5 DEF Projects, Overlaid, Agrees
<1>9. ASSUME NEW k \in retracted, NEW m \in visible[k]
      PROVE  \E p \in ToSet(pending) : p.id = m /\ p.local >= fencedAt[k]
  <2>1. PICK p \in E : p.id = m /\ p.local >= fencedAt[k]
    BY <1>1, <1>5, <1>9 DEF Projects, SinceFence
  <2>2. p \in Queue
    BY <1>3, <2>1 DEF Counted
  <2>3. PICK i \in 1 .. Len(pending) :
          p.id = pending[i].id /\ p.local = pending[i].local /\ pending[i] \in ToSet(pending)
    BY <2>2, RowOfQueue
  <2> QED BY <2>1, <2>3
<1> QED BY <1>3, <1>7, <1>8, <1>9 DEF Base

(* VisibleInv always holds, if storage does not cut short the rebuild of   *)
(* an installed snapshot: through batches, deltas, rebuilds that stop and  *)
(* resume, revocations and crashes, the projection is what replay makes of *)
(* the rows that were not ready when it was made, and each row knows       *)
(* whether it changed anything.                                            *)
THEOREM VisibleInvariance ==
  ASSUME "install" \notin Fragile PROVE Spec => [](OutboxInv /\ VisibleInv)
<1>1. Init => OutboxInv /\ VisibleInv
  BY InitOutbox, InitVisible
<1>2. OutboxInv /\ VisibleInv /\ [Next]_vars => OutboxInv' /\ VisibleInv'
  BY NextOutbox, NextVisible
<1> QED BY <1>1, <1>2, PTL DEF Spec

(* Once no operation is under way and nothing waits to be recomputed or    *)
(* settled, the application sees what its pending mutations, replayed over *)
(* what the server showed, make of each entity; of one that a bootstrap or *)
(* a revocation fenced off, only what was written since.                   *)
THEOREM VisibleCorrect ==
  ASSUME "install" \notin Fragile PROVE Spec => []VisibleIsReplay
<1>1. OutboxInv /\ VisibleInv => VisibleIsReplay
  BY VisibleImplies
<1> QED BY <1>1, VisibleInvariance, PTL

-----------------------------------------------------------------------------
(***************************************************************************)
(* Why a write may go away.  What has been decided is dated: no receipt or *)
(* answer names an earlier sequence than the decision it tells, also when  *)
(* it says no more than that the receipt has lapsed.                       *)
(***************************************************************************)
Dated(r) == decided[r.local].at <= r.at

DateInv ==
  /\ \A i \in 1 .. Len(decided) :
       decided[i].at <= head /\ (i <= lapsed.through => decided[i].at <= lapsed.sequence)
  /\ \A r \in receipts : Dated(r)
  /\ \A i \in 1 .. Len(turn.answers) : Dated(turn.answers[i])

CursorInv ==
  /\ installed \in Snapshots \cup {None}
  /\ installed # None => installed.sequence <= serverCursor

(* What was settled the client has been shown, or it was rejected; what is *)
(* committed was settled or is pending.                                    *)
Resolved(i) ==
  i \in 1 .. Len(decided) /\ (decided[i].tag = "Rejected" \/ decided[i].at <= serverCursor)

ResolvedInv == \A i \in Told : Resolved(i)

CoverInv ==
  \A i \in 1 .. Len(committed) :
    i \in Told \/ \E j \in 1 .. Len(pending) : pending[j].local = i

(* Whatever is written, here, on the server or on its way, was committed.  *)
Ours(m) == \E i \in 1 .. Len(committed) : committed[i] = m

OurWrites(content) == \A k \in Keys : \A m \in Mutations : m \in content[k] => Ours(m)

PageOrigin ==
  turn.at \in {"page", "install", "installExpired"} => OurWrites(turn.page.content)

OriginInv ==
  OurWrites(entities) /\ OurWrites(canonical) /\ OurWrites(visible) /\ PageOrigin

StayInv == DateInv /\ CursorInv /\ ResolvedInv /\ CoverInv /\ OriginInv

-----------------------------------------------------------------------------
(* What is ready has been decided, and shown or rejected.                  *)
LEMMA ReadyResolved ==
  ASSUME OutboxInv, ContentInv, DateInv, CursorInv, NEW i \in 1 .. Len(pending),
         pending[i].id \in ReadyIds
  PROVE  Resolved(pending[i].local)
<1>1. PICK r \in receipts : r.id = pending[i].id /\ TerminallyReady(r)
  BY ReadyIs
<1>2. PICK n : n = pending[i].local
  OBVIOUS
<1>3. r.local = n
  BY <1>1, <1>2, ReceiptOfPending
<1>4. n \in 1 .. Len(decided) /\ r.tag \in {decided[n].tag, "Expired"} /\ decided[n].at <= r.at
  BY <1>3 DEF OutboxInv, ReceiptInv, Truthful, DateInv, Dated
<1>5. /\ decided[n] \in DecisionRows /\ decided[n].at \in Nat /\ r.at \in Nat
      /\ serverCursor \in Nat
  <2>1. decided \in Seq(DecisionRows) /\ receipts \subseteq ReceiptRecords
    BY DEF OutboxInv, ServerTypeInv, ClientTypeInv
  <2>2. decided[n] \in DecisionRows /\ r \in ReceiptRecords
    BY <1>4, <2>1
  <2> QED BY <2>2 DEF DecisionRows, ReceiptRecords, ContentInv
<1>6. \/ r.tag = "Rejected" \/ r.at <= serverCursor
      \/ r.tag = "Expired" /\ installed # None /\ r.at <= installed.sequence
  BY <1>1 DEF TerminallyReady
<1>7. CASE r.tag = "Rejected"
  BY <1>2, <1>4, <1>7 DEF Resolved
<1>8. CASE r.at <= serverCursor
  BY <1>2, <1>4, <1>5, <1>8 DEF Resolved
<1>9. CASE installed # None /\ r.at <= installed.sequence
  <2>1. installed.sequence \in Nat /\ installed.sequence <= serverCursor
    BY <1>9 DEF CursorInv, Snapshots
  <2> QED BY <1>2, <1>4, <1>5, <1>9, <2>1 DEF Resolved
<1> QED BY <1>6, <1>7, <1>8, <1>9

\* what is told after a step that decides nothing was told before
OldDate(r) ==
  \/ \E s \in receipts : s.local = r.local /\ s.at = r.at
  \/ \E j \in 1 .. Len(turn.answers) :
       turn.answers[j].local = r.local /\ turn.answers[j].at = r.at

DatesKept ==
  /\ decided' = decided /\ head' \in Nat /\ head' >= head
  /\ lapsed' \in {lapsed, [through |-> Len(decided), sequence |-> head]}
  /\ \A r \in receipts' : OldDate(r)
  /\ \A i \in 1 .. Len(turn'.answers) : OldDate(turn'.answers[i])

LEMMA DatesStay ==
  ASSUME OutboxInv, DateInv, DatesKept PROVE DateInv'
<1>1. decided \in Seq(DecisionRows) /\ head \in Nat
  BY DEF OutboxInv, ServerTypeInv
<1>2. \A r : OldDate(r) => decided[r.local].at <= r.at
  BY DEF OldDate, DateInv, Dated
<1>3. ASSUME NEW i \in 1 .. Len(decided)
      PROVE  /\ decided[i].at <= head'
             /\ i <= lapsed'.through => decided[i].at <= lapsed'.sequence
  <2>0. decided[i] \in DecisionRows
    BY <1>1
  <2>1. decided[i].at \in Nat
    BY <2>0 DEF DecisionRows
  <2>2. /\ decided[i].at <= head
        /\ i <= lapsed.through => decided[i].at <= lapsed.sequence
    BY DEF DateInv
  <2>3. decided[i].at <= head'
    BY <1>1, <2>1, <2>2 DEF DatesKept
  <2>4. i <= lapsed'.through => decided[i].at <= lapsed'.sequence
    BY <2>2 DEF DatesKept
  <2> QED BY <2>3, <2>4
<1> QED BY <1>2, <1>3 DEF DatesKept, DateInv, Dated

LEMMA AnswersOf ==
  ASSUME NEW t, TurnShape(t), NEW x, NEW y, NEW z
  PROVE  /\ [t EXCEPT !.at = x].answers = t.answers
         /\ [t EXCEPT !.at = x, !.page = y].answers = t.answers
         /\ [t EXCEPT !.at = x, !.page = y, !.expired = z].answers = t.answers
         /\ [[t EXCEPT !.at = x, !.page = y] EXCEPT !.expired = z].answers = t.answers
         /\ [[t EXCEPT !.at = x, !.page = y] EXCEPT !.batch = z].answers = t.answers
         /\ [t EXCEPT !.at = "wire", !.through = x, !.batch = y, !.answers = <<>>].answers = <<>>
         /\ Idle.answers = <<>> /\ [Idle EXCEPT !.at = x].answers = <<>>
         /\ [Idle EXCEPT !.at = x, !.pass = y].answers = <<>>
BY DEF TurnShape, Idle

(* All but the server's answers, and their receipts, keep the answers or   *)
(* drop them.                                                              *)
Answerless ==
  \/ GateStep \/ ResumeRebuild \/ Begin \/ Pull \/ ApplyViewPage \/ InstallBootstrap
  \/ RevokeReplication \/ ClaimSubmitBatch \/ ReceiveAnswers \/ ReceiptsPersisted
  \/ RecoverExpired \/ SettleReceipts \/ Application \/ Environment \/ LoseAnswers
  \/ StorageFails \/ Crash \/ UNCHANGED vars

LEMMA AnswersLeft ==
  ASSUME OutboxInv, Answerless PROVE turn'.answers \in {turn.answers, <<>>}
<1>1. PICK t : t = turn /\ TurnShape(t)
  BY DEF OutboxInv, ClientTypeInv, TurnType
<1>3. \/ turn' = turn \/ turn' = Idle \/ turn' = Claiming
      \/ \E x : turn' = [Idle EXCEPT !.at = x]
      \/ \E x, y : turn' = [Idle EXCEPT !.at = x, !.pass = y]
      \/ \E x : turn' = TurnAt(x)
      \/ \E x, z : turn' = [TurnAt(x) EXCEPT !.expired = z]
      \/ \E x, z : turn' = [TurnAt(x) EXCEPT !.batch = z]
      \/ \E x : turn' = [turn EXCEPT !.at = x]
      \/ \E x, y : turn' = [turn EXCEPT !.at = x, !.page = y]
      \/ \E x, y, z : turn' = [turn EXCEPT !.at = x, !.page = y, !.expired = z]
      \/ \E x, y : turn' = [turn EXCEPT !.at = "wire", !.through = x, !.batch = y, !.answers = <<>>]
  <2>1. CASE PreparePage \/ Project \/ ResumeRebuild \/ InstallBootstrap \/ RevokeReplication
    BY <2>1 DEF PreparePage, Project, ResumeRebuild, InstallBootstrap, RevokeReplication, Halt
  <2>2. CASE DeleteSettled
    BY <2>2 DEF DeleteSettled, Leave, AfterCatchUp, CompletePass
  <2>3. CASE Begin \/ Pull \/ ApplyViewPage
    BY <2>3 DEF Begin, Pull, ApplyViewPage, Halt
  <2>4. CASE ClaimSubmitBatch
    BY <2>4 DEF ClaimSubmitBatch
  <2>5. CASE ReceiveAnswers \/ ReceiptsPersisted \/ SettleReceipts \/ LoseAnswers
    BY <2>5 DEF ReceiveAnswers, ReceiptsPersisted, SettleReceipts, LoseAnswers
  <2>6. CASE RecoverExpired
    BY <2>6 DEF RecoverExpired, Halt
  <2>7. CASE Application \/ Environment
    BY <2>7 DEF Application, Mutate, ReadSettlements, Environment, OtherWrites, SetPolicy,
                ReceiptsLapse, ClientUnchanged
  <2>8. CASE StorageFails \/ Crash \/ UNCHANGED vars
    BY <2>8 DEF StorageFails, Crash, vars
  <2> QED BY <2>1, <2>2, <2>3, <2>4, <2>5, <2>6, <2>7, <2>8 DEF Answerless, GateStep
<1>4. \A x, y, z :
        /\ [turn EXCEPT !.at = x].answers = turn.answers
        /\ [turn EXCEPT !.at = x, !.page = y].answers = turn.answers
        /\ [turn EXCEPT !.at = x, !.page = y, !.expired = z].answers = turn.answers
        /\ TurnAt(x).answers = turn.answers
        /\ [TurnAt(x) EXCEPT !.expired = z].answers = turn.answers
        /\ [TurnAt(x) EXCEPT !.batch = z].answers = turn.answers
        /\ [turn EXCEPT !.at = "wire", !.through = x, !.batch = y, !.answers = <<>>].answers = <<>>
        /\ Idle.answers = <<>> /\ [Idle EXCEPT !.at = x].answers = <<>>
        /\ [Idle EXCEPT !.at = x, !.pass = y].answers = <<>>
  BY <1>1, AnswersOf DEF TurnAt
<1>5. Claiming.answers = <<>>
  BY <1>4 DEF Claiming
<1>6. CASE turn' = turn \/ turn' = Idle \/ turn' = Claiming
  BY <1>4, <1>5, <1>6
<1>7. CASE \E x : turn' = [Idle EXCEPT !.at = x]
  BY <1>4, <1>7
<1>8. CASE \E x, y : turn' = [Idle EXCEPT !.at = x, !.pass = y]
  BY <1>4, <1>8
<1>9. CASE \/ \E x : turn' = TurnAt(x)
           \/ \E x, z : turn' = [TurnAt(x) EXCEPT !.expired = z]
           \/ \E x, z : turn' = [TurnAt(x) EXCEPT !.batch = z]
  <2>1. CASE \E x : turn' = TurnAt(x)
    BY <1>4, <2>1
  <2>2. CASE \E x, z : turn' = [TurnAt(x) EXCEPT !.expired = z]
    BY <1>4, <2>2
  <2>3. CASE \E x, z : turn' = [TurnAt(x) EXCEPT !.batch = z]
    BY <1>4, <2>3
  <2> QED BY <1>9, <2>1, <2>2, <2>3
<1>10. CASE \E x : turn' = [turn EXCEPT !.at = x]
  BY <1>4, <1>10
<1>11. CASE \/ \E x, y : turn' = [turn EXCEPT !.at = x, !.page = y]
            \/ \E x, y, z : turn' = [turn EXCEPT !.at = x, !.page = y, !.expired = z]
  <2>1. CASE \E x, y : turn' = [turn EXCEPT !.at = x, !.page = y]
    BY <1>4, <2>1
  <2>2. CASE \E x, y, z : turn' = [turn EXCEPT !.at = x, !.page = y, !.expired = z]
    BY <1>4, <2>2
  <2> QED BY <1>11, <2>1, <2>2
<1>12. CASE \E x, y :
         turn' = [turn EXCEPT !.at = "wire", !.through = x, !.batch = y, !.answers = <<>>]
  BY <1>4, <1>12
<1> QED BY <1>3, <1>6, <1>7, <1>8, <1>9, <1>10, <1>11, <1>12

LEMMA AnswerlessDates ==
  ASSUME OutboxInv, DateInv, Answerless PROVE DateInv'
<1>1. head \in Nat /\ receipts \subseteq ReceiptRecords /\ turn.answers \in Seq(AnswerRows)
  BY DEF OutboxInv, ServerTypeInv, ClientTypeInv, TurnType
<1>2. \A i \in 1 .. Len(turn'.answers) : OldDate(turn'.answers[i])
  BY AnswersLeft DEF OldDate
<1>3. \A r \in receipts : OldDate(r)
  BY DEF OldDate
<1>4. \A r \in receipts' : OldDate(r)
  <2>1. CASE DeleteSettled
    <3>1. SUFFICES ASSUME NEW q \in receipts' PROVE OldDate(q)
      OBVIOUS
    <3>2. PICK r \in receipts : q = r \/ \E n : q = [r EXCEPT !.settled = n]
      BY <2>1, DeletedReceipts
    <3>3. r \in ReceiptRecords
      BY <1>1
    <3>4. q.local = r.local /\ q.at = r.at
      BY <3>2, <3>3 DEF ReceiptRecords
    <3> QED BY <3>4 DEF OldDate
  <2>2. CASE PreparePage \/ SettleReceipts \/ InstallBootstrap
    <3>1. PruneThen({}) \/ receipts' = receipts
      BY <2>2 DEF PreparePage, SettleReceipts, InstallBootstrap, Prepare, receiptVars
    <3>2. receipts' \subseteq receipts
      BY <3>1 DEF PruneThen
    <3> QED BY <1>3, <3>2
  <2>3. CASE Project \/ ResumeRebuild \/ Begin \/ Pull \/ ApplyViewPage \/ RevokeReplication
    <3>1. receipts' = receipts
      BY <2>3 DEF Project, ResumeRebuild, Begin, Pull, ApplyViewPage, RevokeReplication, receiptVars
    <3> QED BY <1>3, <3>1
  <2>4. CASE ClaimSubmitBatch \/ ReceiveAnswers \/ ReceiptsPersisted \/ RecoverExpired
    <3>1. receipts' = receipts
      BY <2>4 DEF ClaimSubmitBatch, ReceiveAnswers, ReceiptsPersisted, RecoverExpired, receiptVars
    <3> QED BY <1>3, <3>1
  <2>5. CASE Application \/ Environment \/ LoseAnswers \/ StorageFails \/ Crash \/ UNCHANGED vars
    <3>1. receipts' = receipts
      BY <2>5 DEF Application, Mutate, ReadSettlements, Environment, OtherWrites, SetPolicy,
                  ReceiptsLapse, ClientUnchanged, LoseAnswers, StorageFails, Crash, vars,
                  receiptVars
    <3> QED BY <1>3, <3>1
  <2> QED BY <2>1, <2>2, <2>3, <2>4, <2>5 DEF Answerless, GateStep
<1>5. /\ decided' = decided /\ head' \in {head, head + 1}
      /\ lapsed' \in {lapsed, [through |-> Len(decided), sequence |-> head]}
  <2>1. CASE Environment
    BY <2>1 DEF Environment, OtherWrites, SetPolicy, ReceiptsLapse
  <2>2. CASE ~ Environment
    <3>1. CASE GateStep \/ ResumeRebuild \/ Begin \/ Pull \/ ApplyViewPage \/ InstallBootstrap
      BY <3>1 DEF GateStep, PreparePage, Project, DeleteSettled, ResumeRebuild, Begin, Pull,
                  ApplyViewPage, InstallBootstrap, serverVars
    <3>2. CASE RevokeReplication \/ ClaimSubmitBatch \/ ReceiveAnswers \/ ReceiptsPersisted
      BY <3>2 DEF RevokeReplication, ClaimSubmitBatch, ReceiveAnswers, ReceiptsPersisted, serverVars
    <3>3. CASE RecoverExpired \/ SettleReceipts \/ Application \/ LoseAnswers
      BY <3>3 DEF RecoverExpired, SettleReceipts, Application, Mutate, ReadSettlements, LoseAnswers,
                  serverVars
    <3>4. CASE StorageFails \/ Crash \/ UNCHANGED vars
      BY <3>4 DEF StorageFails, Crash, vars, serverVars
    <3> QED BY <2>2, <3>1, <3>2, <3>3, <3>4 DEF Answerless
  <2> QED BY <2>1, <2>2
<1>6. head' \in Nat /\ head' >= head
  BY <1>1, <1>5
<1>7. DatesKept
  BY <1>2, <1>4, <1>5, <1>6 DEF DatesKept
<1> QED BY <1>7, DatesStay

(* A receipt is dated as the answer it keeps.                              *)
LEMMA PersistDates ==
  ASSUME OutboxInv, DateInv, PersistReceipt PROVE DateInv'
<1>1. /\ decided' = decided /\ head' = head /\ lapsed' = lapsed /\ head \in Nat
      /\ turn.answers # <<>>
  BY DEF PersistReceipt, serverVars, OutboxInv, ServerTypeInv
<1>2. PICK s, r, rest : s = turn.answers /\ r = Head(s) /\ rest = Tail(s)
  OBVIOUS
<1>3. /\ r = s[1] /\ 1 \in 1 .. Len(s)
      /\ \A i \in 1 .. Len(rest) : i + 1 \in 1 .. Len(s) /\ rest[i] = s[i + 1]
  <2>1. s \in Seq(AnswerRows) /\ s # <<>>
    BY <1>1, <1>2 DEF OutboxInv, ClientTypeInv, TurnType
  <2> QED BY ONLY <1>2, <2>1, TailOf
<1>4. \/ turn' = Idle
      \/ \E after, expired :
           turn' = [turn EXCEPT !.answers = rest, !.after = after, !.expired = expired]
  BY <1>2 DEF PersistReceipt, Halt
<1>5. turn'.answers = rest \/ turn'.answers = <<>>
  <2>1. PICK t : t = turn /\ TurnShape(t)
    BY DEF OutboxInv, ClientTypeInv, TurnType
  <2>2. \A x, y, z : [t EXCEPT !.answers = x, !.after = y, !.expired = z].answers = x
    BY <2>1 DEF TurnShape
  <2>3. CASE turn' = Idle
    BY <2>3, IdleTurn
  <2>4. ASSUME NEW after, NEW expired,
               turn' = [turn EXCEPT !.answers = rest, !.after = after, !.expired = expired]
        PROVE  turn'.answers = rest
    BY <2>1, <2>2, <2>4
  <2> QED BY <1>4, <2>3, <2>4
<1>6. \A i \in 1 .. Len(turn'.answers) : OldDate(turn'.answers[i])
  <2>1. \A i \in 1 .. Len(rest) : OldDate(rest[i])
    BY <1>2, <1>3 DEF OldDate
  <2> QED BY <1>5, <2>1
<1>7. OldDate(r) /\ OldDate(Kept(r)) /\ \A q \in receipts : OldDate(q)
  BY <1>2, <1>3 DEF OldDate, Kept
<1>8. receipts' \subseteq receipts \cup {Kept(r)}
  BY <1>2 DEF PersistReceipt, PruneThen, receiptVars
<1>9. \A q \in receipts' : OldDate(q)
  BY <1>7, <1>8
<1>10. DatesKept
  BY <1>1, <1>6, <1>9 DEF DatesKept
<1> QED BY <1>10, DatesStay

(* The server dates what it decides, and what it repeats, or that lapsed,  *)
(* not before.                                                             *)
LEMMA DecideDates ==
  ASSUME OutboxInv, DateInv, ServerAnswers, NEW p \in PendingRows, NamesIt(p),
         NEW tag \in {"Accepted", "Rejected"}, NEW at \in Nat,
         p.local = Len(decided) + 1, head' \in Nat, at <= head', head <= head',
         decided' = Append(decided, [id |-> p.id, tag |-> tag, at |-> at]),
         Answers(Receipt(p, tag, at, 0))
  PROVE  DateInv'
<1>1. lapsed' = lapsed /\ receipts' = receipts
  BY DEF ServerAnswers, receiptVars
<1>2. PICK n, e : n = Len(decided) /\ e = [id |-> p.id, tag |-> tag, at |-> at]
  OBVIOUS
<1>3. /\ e \in DecisionRows /\ decided \in Seq(DecisionRows) /\ n \in Nat /\ e.at = at
      /\ head \in Nat /\ lapsed.through \in Nat /\ lapsed.through <= n
  BY <1>2 DEF PendingRows, DecisionRows, OutboxInv, ServerTypeInv
<1>4. /\ decided' \in Seq(DecisionRows) /\ Len(decided') = n + 1
      /\ \A i \in 1 .. n : i \in 1 .. n + 1 /\ decided'[i] = decided[i]
      /\ decided'[n + 1] = e
      /\ \A i \in 1 .. n + 1 : i \in 1 .. n \/ i = n + 1
  BY <1>2, <1>3, Appended
<1>5. PICK r : r = Receipt(p, tag, at, 0)
  OBVIOUS
<1>6. r \in AnswerRows /\ r.local = n + 1 /\ r.at = at
  <2>1. tag \in Tags /\ 0 \in Nat
    BY DEF Tags
  <2>2. r \in AnswerRows /\ r.local = p.local
    BY <1>5, <2>1, ReceiptRow
  <2> QED BY <1>2, <1>5, <2>2 DEF Receipt
<1>7. turn' = [turn EXCEPT !.answers = Append(@, r)]
  BY <1>5 DEF Answers
<1>8. \A i \in 1 .. Len(turn'.answers) :
        \/ turn'.answers[i] = r
        \/ i \in 1 .. Len(turn.answers) /\ turn'.answers[i] = turn.answers[i]
  BY <1>6, <1>7, Answered
<1>9. \A q : Truthful(q) /\ Dated(q) => Dated(q)'
  BY <1>2, <1>4 DEF Truthful, Dated
<1>10. Dated(r)'
  BY <1>3, <1>4, <1>6 DEF Dated
<1>11. \A q \in receipts' : Dated(q)'
  BY <1>1, <1>9 DEF OutboxInv, ReceiptInv, DateInv
<1>12. \A i \in 1 .. Len(turn'.answers) : decided'[turn'.answers[i].local].at <= turn'.answers[i].at
  <2>1. \A i \in 1 .. Len(turn.answers) : Truthful(turn.answers[i]) /\ Dated(turn.answers[i])
    BY DEF OutboxInv, WireInv, DateInv
  <2>2. \A i \in 1 .. Len(turn.answers) : decided'[turn.answers[i].local].at <= turn.answers[i].at
    BY <1>9, <2>1 DEF Dated
  <2> QED BY <1>8, <1>10, <2>2 DEF Dated
<1>13. ASSUME NEW i \in 1 .. n + 1
       PROVE  /\ decided'[i].at <= head'
              /\ i <= lapsed.through => decided'[i].at <= lapsed.sequence
  <2>1. CASE i \in 1 .. n
    <3>1. decided[i] \in DecisionRows
      BY <1>2, <1>3, <2>1
    <3>2. decided[i].at \in Nat
      BY <3>1 DEF DecisionRows
    <3>3. decided[i].at <= head /\ (i <= lapsed.through => decided[i].at <= lapsed.sequence)
      BY <1>2, <2>1 DEF DateInv
    <3> QED BY <1>3, <1>4, <2>1, <3>2, <3>3
  <2>2. CASE i = n + 1
    BY <1>3, <1>4, <2>2
  <2> QED BY <1>4, <2>1, <2>2
<1> QED BY <1>1, <1>4, <1>11, <1>12, <1>13 DEF DateInv, Dated

LEMMA RepeatDates ==
  ASSUME OutboxInv, DateInv, ServerAnswers, NEW p \in PendingRows, NamesIt(p),
         NEW tag \in Tags, NEW at \in Nat, NEW through \in Nat,
         Answers(Receipt(p, tag, at, through)), decided[p.local].at <= at,
         UNCHANGED <<head, decided>>
  PROVE  DateInv'
<1>1. lapsed' = lapsed /\ receipts' = receipts
  BY DEF ServerAnswers, receiptVars
<1>2. PICK r : r = Receipt(p, tag, at, through)
  OBVIOUS
<1>3. r \in AnswerRows /\ r.local = p.local /\ r.at = at
  <2>1. r \in AnswerRows /\ r.local = p.local
    BY <1>2, ReceiptRow
  <2> QED BY <1>2, <2>1 DEF Receipt
<1>4. turn' = [turn EXCEPT !.answers = Append(@, r)]
  BY <1>2 DEF Answers
<1>5. \A i \in 1 .. Len(turn'.answers) :
        \/ turn'.answers[i] = r
        \/ i \in 1 .. Len(turn.answers) /\ turn'.answers[i] = turn.answers[i]
  BY <1>3, <1>4, Answered
<1>6. \A i \in 1 .. Len(turn'.answers) : decided[turn'.answers[i].local].at <= turn'.answers[i].at
  BY <1>3, <1>5 DEF DateInv, Dated
<1> QED BY <1>1, <1>6 DEF DateInv, Dated

LEMMA ServerDates ==
  ASSUME OutboxInv, DateInv, ServerAnswers PROVE DateInv'
<1>1. PICK p : p = Asked
  OBVIOUS
<1>2. p \in PendingRows /\ NamesIt(p) /\ p.local \in Nat
  BY <1>1, NextOfBatch DEF PendingRows
<1>3. /\ head \in Nat /\ decided \in Seq(DecisionRows) /\ Len(decided) \in Nat
      /\ lapsed.sequence \in Nat /\ lapsed.through \in Nat /\ lapsed.through <= Len(decided)
  BY DEF OutboxInv, ServerTypeInv
<1>4. p.local >= 1
  BY <1>2 DEF NamesIt
<1> DEFINE ready(tag, at) ==
             /\ decided' = Append(decided, [id |-> p.id, tag |-> tag, at |-> at])
             /\ Answers(Receipt(p, tag, at, 0))
<1>5. \/ p.local = Len(decided) + 1 /\ ready("Rejected", 0) /\ head' = head
      \/ p.local = Len(decided) + 1 /\ ready("Accepted", head + 1) /\ head' = head + 1
      \/ /\ p.local <= lapsed.through /\ UNCHANGED <<head, decided>>
         /\ Answers(Receipt(p, "Expired", lapsed.sequence, lapsed.through))
      \/ /\ p.local \in lapsed.through + 1 .. Len(decided) /\ UNCHANGED <<head, decided>>
         /\ Answers(Receipt(p, decided[p.local].tag, decided[p.local].at, 0))
      \/ turn' = Idle /\ UNCHANGED <<head, decided>>
  BY <1>1 DEF ServerAnswers, Asked, Answers, Halt
<1>6. CASE p.local = Len(decided) + 1 /\ ready("Rejected", 0) /\ head' = head
  BY <1>2, <1>3, <1>6, DecideDates
<1>7. CASE p.local = Len(decided) + 1 /\ ready("Accepted", head + 1) /\ head' = head + 1
  <2>1. head + 1 \in Nat /\ head' \in Nat /\ head + 1 <= head' /\ head <= head'
    BY <1>3, <1>7
  <2> QED BY <1>2, <1>7, <2>1, DecideDates
<1>8. CASE /\ p.local <= lapsed.through /\ UNCHANGED <<head, decided>>
           /\ Answers(Receipt(p, "Expired", lapsed.sequence, lapsed.through))
  <2>1. p.local \in 1 .. Len(decided) /\ "Expired" \in Tags
    BY <1>2, <1>3, <1>4, <1>8 DEF Tags
  <2>2. decided[p.local].at <= lapsed.sequence
    BY <1>8, <2>1 DEF DateInv
  <2> QED BY <1>2, <1>3, <1>8, <2>1, <2>2, RepeatDates
<1>9. CASE /\ p.local \in lapsed.through + 1 .. Len(decided) /\ UNCHANGED <<head, decided>>
           /\ Answers(Receipt(p, decided[p.local].tag, decided[p.local].at, 0))
  <2>1. p.local \in 1 .. Len(decided)
    BY <1>2, <1>3, <1>4, <1>9
  <2>2. PICK x : x = decided[p.local] /\ x \in DecisionRows
    BY <1>3, <2>1
  <2>3. x.tag \in Tags /\ x.at \in Nat /\ 0 \in Nat /\ x.at <= x.at
    BY <2>2 DEF DecisionRows, Tags
  <2>4. Answers(Receipt(p, x.tag, x.at, 0)) /\ decided[p.local].at <= x.at
    BY <1>9, <2>2, <2>3
  <2> QED BY <1>2, <1>9, <2>3, <2>4, RepeatDates
<1>10. CASE turn' = Idle /\ UNCHANGED <<head, decided>>
  <2>1. lapsed' = lapsed /\ receipts' = receipts
    BY DEF ServerAnswers, receiptVars
  <2>2. turn'.answers = <<>>
    BY <1>10, IdleTurn
  <2> QED BY <1>10, <2>1, <2>2 DEF DateInv, Dated
<1> QED BY <1>5, <1>6, <1>7, <1>8, <1>9, <1>10

LEMMA DatesNext ==
  ASSUME OutboxInv, DateInv, [Next]_vars PROVE DateInv'
<1>1. Answerless \/ PersistReceipt \/ ServerAnswers
  BY DEF Next, PassStep, Answerless
<1> QED BY <1>1, AnswerlessDates, PersistDates, ServerDates

(* All but pages, snapshots and revocations leave what was canonical.      *)
Viewless ==
  \/ GateStep \/ ResumeRebuild \/ Begin \/ Pull \/ ClaimSubmitBatch \/ ReceiveAnswers
  \/ PersistReceipt \/ ReceiptsPersisted \/ RecoverExpired \/ SettleReceipts \/ ServerAnswers
  \/ Application \/ Environment \/ LoseAnswers \/ StorageFails \/ Crash \/ UNCHANGED vars

LEMMA ViewStays ==
  ASSUME Viewless PROVE UNCHANGED viewVars
<1>1. CASE GateStep \/ ResumeRebuild \/ Begin \/ Pull \/ ClaimSubmitBatch
  BY <1>1 DEF GateStep, PreparePage, Project, DeleteSettled, ResumeRebuild, Begin, Pull,
              ClaimSubmitBatch
<1>2. CASE ReceiveAnswers \/ PersistReceipt \/ ReceiptsPersisted \/ RecoverExpired \/ SettleReceipts
  BY <1>2 DEF ReceiveAnswers, PersistReceipt, ReceiptsPersisted, RecoverExpired, SettleReceipts
<1>3. CASE ServerAnswers \/ Application \/ Environment
  BY <1>3 DEF ServerAnswers, Application, Mutate, ReadSettlements, Environment, OtherWrites,
              SetPolicy, ReceiptsLapse, ClientUnchanged
<1>4. CASE LoseAnswers \/ StorageFails \/ Crash \/ UNCHANGED vars
  BY <1>4 DEF LoseAnswers, StorageFails, Crash, vars
<1> QED BY <1>1, <1>2, <1>3, <1>4 DEF Viewless

LEMMA ViewCases ==
  ASSUME [Next]_vars PROVE Viewless \/ ApplyViewPage \/ InstallBootstrap \/ RevokeReplication
BY DEF Next, PassStep, Viewless

(* The cursor goes forward, and no snapshot is ahead of it.                *)
LEMMA CursorNext ==
  ASSUME VisibleInv, CursorInv, [Next]_vars
  PROVE  CursorInv' /\ serverCursor' \in Nat /\ serverCursor <= serverCursor'
<1>0. serverCursor \in Nat /\ installed \in Snapshots \cup {None}
      /\ (installed # None => installed.sequence <= serverCursor)
  BY DEF VisibleInv, ContentInv, CursorInv
<1>1. \A s \in Snapshots : s.sequence \in Nat
  BY DEF Snapshots
<1>2. CASE installed' = installed /\ serverCursor' \in Nat /\ serverCursor <= serverCursor'
  <2>1. ASSUME installed # None PROVE installed.sequence <= serverCursor'
    <3>1. installed.sequence \in Nat /\ installed.sequence <= serverCursor
      BY <1>0, <1>1, <2>1
    <3> QED BY <1>0, <1>2, <3>1
  <2> QED BY <1>0, <1>2, <2>1 DEF CursorInv
<1>3. CASE Viewless
  <2>1. installed' = installed /\ serverCursor' = serverCursor
    BY <1>3, ViewStays DEF viewVars
  <2> QED BY <1>0, <1>2, <2>1
<1>4. CASE RevokeReplication
  BY <1>0, <1>2, <1>4 DEF RevokeReplication
<1>5. CASE ApplyViewPage
  <2>1. PICK p : p = turn.page
    OBVIOUS
  <2>2. p.sequence \in Nat
    BY <1>5, <2>1 DEF VisibleInv, PageInv, PageType, ApplyViewPage
  <2>3. /\ installed' = installed
        /\ \/ serverCursor' = serverCursor
           \/ ~ (p.sequence < serverCursor) /\ serverCursor' = p.sequence
    BY <1>5, <2>1 DEF ApplyViewPage, viewVars
  <2> QED BY <1>0, <1>2, <2>2, <2>3
<1>6. CASE InstallBootstrap
  <2>1. PICK m : m = turn.page
    OBVIOUS
  <2>2. m.sequence \in Nat /\ m.terminal \in Nat
    BY <1>6, <2>1 DEF VisibleInv, PageInv, PageType, InstallBootstrap
  <2>3. \/ installed' = installed /\ serverCursor' = serverCursor
        \/ /\ ~ (m.sequence < serverCursor) /\ serverCursor' = m.sequence
           /\ installed' = [sequence |-> m.sequence, terminal |-> m.terminal]
    BY <1>6, <2>1 DEF InstallBootstrap, viewVars
  <2>4. CASE /\ ~ (m.sequence < serverCursor) /\ serverCursor' = m.sequence
             /\ installed' = [sequence |-> m.sequence, terminal |-> m.terminal]
    <3>1. installed' \in Snapshots /\ installed'.sequence = serverCursor'
      BY <2>2, <2>4 DEF Snapshots
    <3>2. serverCursor' \in Nat /\ serverCursor <= serverCursor'
      BY <1>0, <2>2, <2>4
    <3>3. installed'.sequence <= serverCursor'
      BY <3>1, <3>2
    <3> QED BY <3>1, <3>2, <3>3 DEF CursorInv
  <2> QED BY <1>0, <1>2, <2>3, <2>4
<1> QED BY <1>3, <1>4, <1>5, <1>6, ViewCases

-----------------------------------------------------------------------------
(* What is decided stays so, and what is resolved.                         *)
LEMMA StepCases ==
  ASSUME OutboxInv, [Next]_vars
  PROVE  Steady \/ DeleteSettled \/ ServerAnswers \/ \E m \in Mutations : Mutate(m)
<1>1. CASE GateStep \/ ResumeRebuild
  BY <1>1, GateSteps DEF GateStep
<1>2. CASE PassStep
  BY <1>2, GateSteps, BeginStep, ApplyViewPageStep, InstallBootstrapStep, RevokeStep,
     ClaimStep, AnswerSteps, PersistStep DEF PassStep
<1>3. CASE Application
  BY <1>3, ReadStep DEF Application
<1>4. CASE Environment \/ LoseAnswers \/ StorageFails \/ Crash \/ UNCHANGED vars
  BY <1>4, EnvironmentStep, AnswerSteps, FaultSteps, Stuttering
<1> QED BY <1>1, <1>2, <1>3, <1>4 DEF Next

LEMMA DecisionsStay ==
  ASSUME OutboxInv, [Next]_vars
  PROVE  \A i \in 1 .. Len(decided) : i \in 1 .. Len(decided') /\ decided'[i] = decided[i]
<1>1. CASE decided' = decided
  BY <1>1
<1>2. CASE ServerAnswers
  <2>1. PICK p : p = Asked
    OBVIOUS
  <2>2. p \in PendingRows /\ decided \in Seq(DecisionRows) /\ head \in Nat
    BY <1>2, <2>1, NextOfBatch DEF OutboxInv, ServerTypeInv
  <2>3. \/ decided' = decided
        \/ \E tag \in {"Accepted", "Rejected"}, at \in {0, head + 1} :
             decided' = Append(decided, [id |-> p.id, tag |-> tag, at |-> at])
    BY <1>2, <2>1, AnswerCases
  <2>4. ASSUME NEW tag \in {"Accepted", "Rejected"}, NEW at \in {0, head + 1},
               decided' = Append(decided, [id |-> p.id, tag |-> tag, at |-> at])
        PROVE  \A i \in 1 .. Len(decided) : i \in 1 .. Len(decided') /\ decided'[i] = decided[i]
    <3>1. PICK e : e = [id |-> p.id, tag |-> tag, at |-> at]
      OBVIOUS
    <3>2. at \in Nat
      BY <2>2
    <3>3. e \in DecisionRows
      BY <2>2, <3>1, <3>2 DEF PendingRows, DecisionRows
    <3>4. decided' = Append(decided, e)
      BY <2>4, <3>1
    <3> QED BY <2>2, <3>3, <3>4, Appended
  <2> QED BY <1>1, <2>3, <2>4
<1>3. CASE Steady
  BY <1>1, <1>3 DEF Steady, ServerKept
<1>4. CASE DeleteSettled
  BY <1>1, <1>4 DEF DeleteSettled, serverVars
<1>5. CASE \E m \in Mutations : Mutate(m)
  BY <1>1, <1>5 DEF Mutate, serverVars
<1> QED BY <1>2, <1>3, <1>4, <1>5, StepCases

LEMMA ResolvedStays ==
  ASSUME OutboxInv, VisibleInv, CursorInv, [Next]_vars, NEW i, Resolved(i)
  PROVE  Resolved(i)'
<1>1. i \in 1 .. Len(decided) /\ (decided[i].tag = "Rejected" \/ decided[i].at <= serverCursor)
  BY DEF Resolved
<1>2. decided \in Seq(DecisionRows) /\ serverCursor \in Nat
  BY DEF OutboxInv, ServerTypeInv, VisibleInv, ContentInv
<1>3. decided[i] \in DecisionRows
  BY <1>1, <1>2
<1>4. decided[i].at \in Nat
  BY <1>3 DEF DecisionRows
<1>5. i \in 1 .. Len(decided') /\ decided'[i] = decided[i]
  BY <1>1, DecisionsStay
<1>6. serverCursor' \in Nat /\ serverCursor <= serverCursor'
  BY CursorNext
<1>7. decided[i].at <= serverCursor => decided[i].at <= serverCursor'
  BY <1>2, <1>4, <1>6
<1> QED BY <1>1, <1>5, <1>7 DEF Resolved

(* What is settled was ready.                                              *)
LEMMA ResolvedNext ==
  ASSUME OutboxInv, VisibleInv, StayInv, [Next]_vars PROVE ResolvedInv'
<1>1. DateInv /\ CursorInv /\ ResolvedInv
  BY DEF StayInv
<1>2. \A i \in Told : Resolved(i)'
  BY <1>1, ResolvedStays DEF ResolvedInv
<1>3. CASE settlements' = settlements
  BY <1>2, <1>3 DEF ResolvedInv, Told
<1>4. CASE DeleteSettled
  <2>1. ASSUME NEW x \in Told' PROVE Resolved(x)'
    <3>1. CASE x \in Told
      BY <1>2, <3>1
    <3>2. CASE x \notin Told
      <4>1. PICK j \in 1 .. Len(Deleted) : Deleted[j].local = x
        BY <1>4, <2>1, <3>2, Deleting
      <4>2. PICK i \in 1 .. Len(pending) : Deleted[j] = pending[i]
        BY DeletedRows
      <4>3. pending[i].id \in gate.settling
        BY <4>2, DeletedRows
      <4>4. pending[i].id \in ReadyIds
        BY <4>3 DEF VisibleInv, OperationInv
      <4>5. Resolved(pending[i].local)
        BY <1>1, <4>4, ReadyResolved DEF VisibleInv
      <4> QED BY <1>1, <4>1, <4>2, <4>5, ResolvedStays
    <3> QED BY <3>1, <3>2
  <2> QED BY <2>1 DEF ResolvedInv
<1>5. CASE Steady
  BY <1>3, <1>5 DEF Steady, HistoryKept
<1>6. CASE ServerAnswers
  BY <1>3, <1>6 DEF ServerAnswers
<1>7. CASE \E m \in Mutations : Mutate(m)
  BY <1>3, <1>7 DEF Mutate
<1> QED BY <1>4, <1>5, <1>6, <1>7, StepCases

(* What is committed is pending until it is settled.                       *)
LEMMA CoverNext ==
  ASSUME OutboxInv, CoverInv, [Next]_vars PROVE CoverInv'
<1>1. \A i \in 1 .. Len(committed) :
        i \in Told \/ \E j \in 1 .. Len(pending) : pending[j].local = i
  BY DEF CoverInv
<1>2. CASE Steady
  <2>1. committed' = committed /\ Told' = Told /\ RowsKept
    BY <1>2 DEF Steady, HistoryKept, Told
  <2> QED BY <1>1, <2>1 DEF RowsKept, CoverInv
<1>3. CASE ServerAnswers
  <2>1. committed' = committed /\ Told' = Told /\ pending' = pending
    BY <1>3 DEF ServerAnswers, Told
  <2> QED BY <1>1, <2>1 DEF CoverInv
<1>4. CASE DeleteSettled
  <2>1. committed' = committed /\ pending' = Remaining
    BY <1>4 DEF DeleteSettled, Remaining
  <2>2. \A x : x \in Told' <=>
                 x \in Told \/ \E j \in 1 .. Len(Deleted) : Deleted[j].local = x
    BY <1>4, Deleting
  <2>3. ASSUME NEW i \in 1 .. Len(committed)
        PROVE  i \in Told' \/ \E j \in 1 .. Len(Remaining) : Remaining[j].local = i
    <3>1. CASE i \in Told
      BY <2>2, <3>1
    <3>2. ASSUME NEW j \in 1 .. Len(pending), pending[j].local = i
          PROVE  i \in Told' \/ \E l \in 1 .. Len(Remaining) : Remaining[l].local = i
      <4>1. CASE pending[j].id \in gate.settling
        <5>1. PICK l \in 1 .. Len(Deleted) : Deleted[l] = pending[j]
          BY <4>1, DeletedRows
        <5> QED BY <2>2, <3>2, <5>1
      <4>2. CASE pending[j].id \notin gate.settling
        <5>1. PICK l \in 1 .. Len(Remaining) : Remaining[l] = pending[j]
          BY <4>2, RemainingRows
        <5> QED BY <3>2, <5>1
      <4> QED BY <4>1, <4>2
    <3> QED BY <1>1, <3>1, <3>2
  <2> QED BY <2>1, <2>3 DEF CoverInv
<1>5. ASSUME NEW m \in Mutations, Mutate(m) PROVE CoverInv'
  <2>1. PICK n, k, row :
          /\ n = Len(committed) /\ k = Len(pending)
          /\ row = [id |-> m, local |-> nextLocal, state |-> "Queued",
                    writes |-> Writes(m, visible)]
    OBVIOUS
  <2>2. /\ committed' = Append(committed, m) /\ pending' = Append(pending, row)
        /\ Told' = Told
    BY <1>5, <2>1 DEF Mutate, Told
  <2>3. /\ committed \in Seq(Mutations) /\ pending \in Seq(PendingRows) /\ nextLocal = n + 1
        /\ n \in Nat
    BY <2>1 DEF OutboxInv, HistoryTypeInv, ClientTypeInv
  <2>4. row \in PendingRows /\ row.local = n + 1
    <3>1. Writes(m, visible) \in SUBSET Keys
      BY LocalStoreAssumption DEF Writes
    <3> QED BY <2>1, <2>3, <3>1 DEF PendingRows, States
  <2>5. /\ Len(committed') = n + 1 /\ \A i \in 1 .. n + 1 : i \in 1 .. n \/ i = n + 1
    BY <2>1, <2>2, <2>3, Appended
  <2>6. /\ Len(pending') = k + 1 /\ k + 1 \in 1 .. k + 1 /\ pending'[k + 1] = row
        /\ \A i \in 1 .. k : i \in 1 .. k + 1 /\ pending'[i] = pending[i]
    BY <2>1, <2>2, <2>3, <2>4, Appended
  <2>7. ASSUME NEW i \in 1 .. n + 1
        PROVE  i \in Told' \/ \E j \in 1 .. k + 1 : pending'[j].local = i
    <3>1. CASE i \in 1 .. n
      BY <1>1, <2>1, <2>2, <2>6, <3>1
    <3>2. CASE i = n + 1
      BY <2>4, <2>6, <3>2
    <3> QED BY <2>5, <3>1, <3>2
  <2> QED BY <2>5, <2>6, <2>7 DEF CoverInv
<1> QED BY <1>2, <1>3, <1>4, <1>5, StepCases

-----------------------------------------------------------------------------
(* Whatever was committed stays so.                                        *)
LEMMA OursStay ==
  ASSUME OutboxInv, [Next]_vars, NEW m, Ours(m) PROVE Ours(m)'
<1>1. CASE committed' = committed
  BY <1>1 DEF Ours
<1>2. ASSUME NEW x \in Mutations, Mutate(x) PROVE Ours(m)'
  <2>1. committed' = Append(committed, x) /\ committed \in Seq(Mutations)
    BY <1>2 DEF Mutate, OutboxInv, HistoryTypeInv
  <2>2. /\ Len(committed') = Len(committed) + 1
        /\ \A i \in 1 .. Len(committed) : i \in 1 .. Len(committed) + 1
                                          /\ committed'[i] = committed[i]
    BY <2>1, Appended
  <2> QED BY <2>2 DEF Ours
<1>3. CASE Steady
  BY <1>1, <1>3 DEF Steady, HistoryKept
<1>4. CASE DeleteSettled
  BY <1>1, <1>4 DEF DeleteSettled
<1>5. CASE ServerAnswers
  BY <1>1, <1>5 DEF ServerAnswers
<1> QED BY <1>2, <1>3, <1>4, <1>5, StepCases

LEMMA ContentStays ==
  ASSUME OutboxInv, [Next]_vars, NEW c, OurWrites(c) PROVE OurWrites(c)'
BY OursStay DEF OurWrites

(* The server writes what it is asked to, or for others.                   *)
LEMMA EntitiesOurs ==
  ASSUME OutboxInv, VisibleInv, OriginInv, [Next]_vars PROVE OurWrites(entities)'
<1>1. PICK c : c = entities /\ c \in Contents
  BY DEF VisibleInv, ContentInv
<1>2. OurWrites(c) /\ OurWrites(c)'
  BY <1>1, ContentStays DEF OriginInv
<1>3. CASE entities' = entities
  BY <1>1, <1>2, <1>3 DEF OurWrites
<1>4. CASE ServerAnswers
  <2>1. PICK p : p = Asked
    OBVIOUS
  <2>2. p \in PendingRows /\ NamesIt(p)
    BY <1>4, <2>1, NextOfBatch
  <2>3. PICK x : x = p.id
    OBVIOUS
  <2>4. x \in Mutations /\ Ours(x)
    BY <2>2, <2>3 DEF PendingRows, NamesIt, Ours
  <2>5. Ours(x)'
    BY <2>4, OursStay
  <2>6. entities' = c \/ entities' = Run(x, c)
    BY <1>1, <1>4, <2>1, <2>3 DEF ServerAnswers, Asked
  <2>7. CASE entities' = Run(x, c)
    <3>0. ASSUME NEW k \in Keys
          PROVE  Run(x, c)[k] = c[k] \/ Run(x, c)[k] = c[k] \cup {x}
      BY <1>1, <2>4, RunIs
    <3>1. \A k \in Keys : \A m : m \in Run(x, c)[k] => m \in c[k] \/ m = x
      BY <3>0
    <3> QED BY <1>2, <2>5, <2>7, <3>1 DEF OurWrites
  <2> QED BY <1>1, <1>3, <2>6, <2>7
<1>5. CASE Environment
  <2>1. entities' = c
        \/ \E k \in Keys : \E d \in {{}, c[k] \cup {Other}} : entities' = [c EXCEPT ![k] = d]
    BY <1>1, <1>5 DEF Environment, OtherWrites, SetPolicy, ReceiptsLapse
  <2>2. ASSUME NEW k \in Keys, NEW d \in {{}, c[k] \cup {Other}},
               entities' = [c EXCEPT ![k] = d]
        PROVE  OurWrites(entities)'
    <3>1. Other \notin Mutations
      BY LocalStoreAssumption
    <3>2. \A l \in Keys : entities'[l] = IF l = k THEN d ELSE c[l]
      BY <1>1, <2>2 DEF Contents
    <3>3. ASSUME NEW l \in Keys, NEW m \in Mutations, m \in entities'[l] PROVE m \in c[l]
      BY <3>1, <3>2, <3>3
    <3> QED BY <1>2, <3>3 DEF OurWrites
  <2> QED BY <1>1, <1>3, <2>1, <2>2
<1>6. CASE GateStep \/ ResumeRebuild \/ Application
  BY <1>3, <1>6 DEF GateStep, PreparePage, Project, DeleteSettled, ResumeRebuild, Application,
                    Mutate, ReadSettlements, serverVars
<1>7. CASE PassStep
  <2>1. CASE Begin \/ Pull \/ ApplyViewPage \/ InstallBootstrap \/ RevokeReplication
    BY <1>3, <2>1 DEF Begin, Pull, ApplyViewPage, InstallBootstrap, RevokeReplication, serverVars
  <2>2. CASE ClaimSubmitBatch \/ ReceiveAnswers \/ PersistReceipt \/ ReceiptsPersisted
    BY <1>3, <2>2 DEF ClaimSubmitBatch, ReceiveAnswers, PersistReceipt, ReceiptsPersisted,
                      serverVars
  <2>3. CASE RecoverExpired \/ SettleReceipts
    BY <1>3, <2>3 DEF RecoverExpired, SettleReceipts, serverVars
  <2> QED BY <1>7, <2>1, <2>2, <2>3 DEF PassStep
<1>8. CASE LoseAnswers \/ StorageFails \/ Crash \/ UNCHANGED vars
  BY <1>3, <1>8 DEF LoseAnswers, StorageFails, Crash, vars, serverVars
<1> QED BY <1>4, <1>5, <1>6, <1>7, <1>8 DEF Next

(* What becomes canonical is what a page carries.                          *)
LEMMA CanonicalOurs ==
  ASSUME OutboxInv, VisibleInv, OriginInv, [Next]_vars PROVE OurWrites(canonical)'
<1>1. PICK c, d : c = canonical /\ d = turn.page.content
  OBVIOUS
<1>2. OurWrites(c)'
  BY <1>1, ContentStays DEF OriginInv
<1>3. CASE canonical' = canonical
  BY <1>1, <1>2, <1>3 DEF OurWrites
<1>4. CASE Viewless
  BY <1>3, <1>4, ViewStays DEF viewVars
<1>5. CASE RevokeReplication
  BY <1>5 DEF RevokeReplication, Nothing, OurWrites
<1>6. turn.at \in {"page", "install", "installExpired"} => OurWrites(d)'
  BY <1>1, ContentStays DEF OriginInv, PageOrigin
<1>7. CASE ApplyViewPage
  <2>1. OurWrites(d)'
    BY <1>6, <1>7 DEF ApplyViewPage
  <2>2. \/ canonical' = c
        \/ \E changed :
             canonical' = [k \in Keys |-> IF k \in changed THEN d[k] ELSE c[k]]
    BY <1>1, <1>7 DEF ApplyViewPage, viewVars
  <2> QED BY <1>1, <1>2, <1>3, <2>1, <2>2 DEF OurWrites
<1>8. CASE InstallBootstrap
  <2>1. OurWrites(d)'
    BY <1>6, <1>8 DEF InstallBootstrap
  <2>2. canonical' = c \/ canonical' = d
    BY <1>1, <1>8 DEF InstallBootstrap, viewVars
  <2> QED BY <1>1, <1>2, <1>3, <2>1, <2>2 DEF OurWrites
<1> QED BY <1>4, <1>5, <1>7, <1>8, ViewCases

(* A page carries what the server has; no other step makes one.            *)
PageGoes ==
  \/ turn'.at \notin {"page", "install", "installExpired"}
  \/ turn'.at = turn.at /\ turn'.page = turn.page

LEMMA PagesElsewhere ==
  ASSUME OutboxInv, [Next]_vars, ~ Pull, ~ RecoverExpired PROVE PageGoes
<1>1. PICK t : t = turn /\ TurnShape(t)
  BY DEF OutboxInv, ClientTypeInv, TurnType
<1>2. \A x, z :
        /\ TurnAt(x).at = x /\ [TurnAt(x) EXCEPT !.batch = z].at = x
        /\ [t EXCEPT !.at = x].at = x
  BY <1>1, TurnFields DEF TurnAt
<1>3. /\ Idle.at = "idle" /\ Claiming.at = "claim"
      /\ \A x, y : [Idle EXCEPT !.at = x].at = x /\ [Idle EXCEPT !.at = x, !.pass = y].at = x
  BY IdleIs DEF Claiming
<1>4. CASE PreparePage \/ Project \/ ResumeRebuild \/ RevokeReplication \/ SettleReceipts
           \/ Application \/ Environment \/ UNCHANGED vars
  <2>1. turn' = turn
    BY <1>4 DEF PreparePage, Project, ResumeRebuild, RevokeReplication, SettleReceipts,
                Application, Mutate, ReadSettlements, Environment, OtherWrites, SetPolicy,
                ReceiptsLapse, ClientUnchanged, vars
  <2> QED BY <2>1 DEF PageGoes
<1>5. CASE DeleteSettled
  <2>1. \/ AfterCatchUp \/ CompletePass \/ turn' = Idle \/ turn' = Claiming \/ turn' = turn
        \/ turn' = TurnAt("expired") \/ turn' = TurnAt("pull")
        \/ turn' = [Idle EXCEPT !.at = "pull", !.pass = 2]
    BY <1>5 DEF DeleteSettled, Leave
  <2>2. AfterCatchUp \/ CompletePass => turn' = Claiming \/ turn' = Idle
    BY DEF AfterCatchUp, CompletePass
  <2>3. TurnAt("expired").at = "expired" /\ TurnAt("pull").at = "pull"
        /\ [Idle EXCEPT !.at = "pull", !.pass = 2].at = "pull"
    BY <1>2, <1>3
  <2>4. turn' = turn \/ turn'.at \in {"idle", "claim", "expired", "pull"}
    BY <1>3, <2>1, <2>2, <2>3
  <2> QED BY <2>4 DEF PageGoes
<1>6. CASE Begin \/ LoseAnswers \/ Crash \/ StorageFails \/ InstallBootstrap
  <2>1. turn' = turn \/ turn' = Idle \/ \E x : turn' = [Idle EXCEPT !.at = "pull"]
    BY <1>6 DEF Begin, LoseAnswers, Crash, StorageFails, InstallBootstrap, Halt
  <2>2. turn' = turn \/ turn'.at \in {"idle", "pull"}
    BY <1>3, <2>1
  <2> QED BY <2>2 DEF PageGoes
<1>7. CASE ApplyViewPage
  <2>1. turn' = turn \/ turn' = Idle \/ turn' = TurnAt("pull")
    BY <1>7 DEF ApplyViewPage, Halt
  <2> QED BY <1>2, <1>3, <2>1 DEF PageGoes
<1>8. CASE ClaimSubmitBatch
  <2>1. turn' = TurnAt("settle") \/ \E through, batch : turn' =
          [turn EXCEPT !.at = "wire", !.through = through, !.batch = batch, !.answers = <<>>]
    BY <1>8 DEF ClaimSubmitBatch
  <2>2. turn'.at \in {"settle", "wire"}
    BY <1>1, <2>1 DEF TurnAt, TurnShape
  <2> QED BY <2>2 DEF PageGoes
<1>9. CASE ServerAnswers
  <2>1. turn.at = "wire"
        /\ (turn' = Idle \/ \E r : turn' = [turn EXCEPT !.answers = Append(@, r)])
    BY <1>9 DEF ServerAnswers, Halt
  <2>2. turn'.at \in {"idle", "wire"}
    BY <1>1, <1>3, <2>1 DEF TurnShape
  <2> QED BY <2>2 DEF PageGoes
<1>10. CASE ReceiveAnswers
  <2>1. turn' = [t EXCEPT !.at = "receipts"]
    BY <1>1, <1>10 DEF ReceiveAnswers
  <2>2. turn'.at = "receipts"
    BY <1>2, <2>1
  <2> QED BY <2>2 DEF PageGoes
<1>11. CASE PersistReceipt
  <2>1. /\ turn.at = "receipts"
        /\ turn' = Idle
             \/ \E r, expired : turn' =
                  [turn EXCEPT !.answers = Tail(@), !.after = r.local, !.expired = expired]
    BY <1>11 DEF PersistReceipt, Halt
  <2>2. turn'.at \in {"idle", "receipts"}
    BY <1>1, <1>3, <2>1 DEF TurnShape
  <2> QED BY <2>2 DEF PageGoes
<1>12. CASE ReceiptsPersisted
  <2>1. \E x \in {"claim", "settleExpired"} : turn' = [TurnAt(x) EXCEPT !.batch = <<>>]
    BY <1>12 DEF ReceiptsPersisted
  <2>2. turn'.at \in {"claim", "settleExpired"}
    BY <1>2, <2>1
  <2> QED BY <2>2 DEF PageGoes
<1> QED BY <1>4, <1>5, <1>6, <1>7, <1>8, <1>9, <1>10, <1>11, <1>12 DEF Next, PassStep, GateStep

LEMMA PageOurs ==
  ASSUME OutboxInv, OriginInv, [Next]_vars PROVE PageOrigin'
<1>1. PICK t : t = turn /\ TurnShape(t)
  BY DEF OutboxInv, ClientTypeInv, TurnType
<1>2. PICK s : s = Sees
  OBVIOUS
<1>3. OurWrites(s)'
  <2>1. OurWrites(s)
    BY <1>2 DEF OriginInv, OurWrites, Sees
  <2> QED BY <2>1, ContentStays
<1>4. Page.content = s /\ Manifest.content = s
  BY <1>2 DEF Page, Manifest
<1>5. PICK p, m : p = Page /\ m = Manifest
  OBVIOUS
<1>6. \A x, y, z :
        /\ [t EXCEPT !.at = x, !.page = y].at = x
        /\ [t EXCEPT !.at = x, !.page = y].page = y
        /\ [t EXCEPT !.at = x, !.page = y, !.expired = z].at = x
        /\ [t EXCEPT !.at = x, !.page = y, !.expired = z].page = y
        /\ [[t EXCEPT !.at = x, !.page = y] EXCEPT !.expired = z].at = x
  BY <1>1, TurnFields
<1>7. CASE Pull
  <2>1. \/ turn' = [t EXCEPT !.at = "revoke", !.page = None]
        \/ turn' = [t EXCEPT !.at = "page", !.page = p]
        \/ turn' = [t EXCEPT !.at = "install", !.page = m]
    BY <1>1, <1>5, <1>7 DEF Pull, TurnAt
  <2>2. turn'.at = "revoke" \/ turn'.page = p \/ turn'.page = m
    <3>1. CASE turn' = [t EXCEPT !.at = "revoke", !.page = None]
      BY <1>6, <3>1
    <3>2. CASE turn' = [t EXCEPT !.at = "page", !.page = p]
      BY <1>6, <3>2
    <3>3. CASE turn' = [t EXCEPT !.at = "install", !.page = m]
      BY <1>6, <3>3
    <3> QED BY <2>1, <3>1, <3>2, <3>3
  <2> QED BY <1>3, <1>4, <1>5, <2>2 DEF PageOrigin, OurWrites
<1>8. CASE RecoverExpired
  <2>1. \/ turn' = [[t EXCEPT !.at = "claim", !.page = None] EXCEPT !.expired = {}]
        \/ turn' = [[t EXCEPT !.at = "revoke", !.page = None] EXCEPT !.expired = {}]
        \/ turn' = [t EXCEPT !.at = "installExpired", !.page = m, !.expired = {}]
        \/ turn' = Idle
    BY <1>1, <1>5, <1>8 DEF RecoverExpired, TurnAt, Halt
  <2>2. turn'.at \in {"claim", "revoke", "idle"} \/ turn'.page = m
    <3>1. CASE turn' = [[t EXCEPT !.at = "claim", !.page = None] EXCEPT !.expired = {}]
      BY <1>6, <3>1
    <3>2. CASE turn' = [[t EXCEPT !.at = "revoke", !.page = None] EXCEPT !.expired = {}]
      BY <1>6, <3>2
    <3>3. CASE turn' = [t EXCEPT !.at = "installExpired", !.page = m, !.expired = {}]
      BY <1>6, <3>3
    <3> QED BY <2>1, <3>1, <3>2, <3>3, IdleIs
  <2> QED BY <1>3, <1>4, <1>5, <2>2 DEF PageOrigin, OurWrites
<1>9. CASE PageGoes
  <2>1. PICK d : d = turn.page.content
    OBVIOUS
  <2>2. CASE turn'.at \notin {"page", "install", "installExpired"}
    BY <2>2 DEF PageOrigin
  <2>3. CASE /\ turn'.at = turn.at /\ turn'.page = turn.page
             /\ turn'.at \in {"page", "install", "installExpired"}
    <3>1. OurWrites(d)'
      BY <2>1, <2>3, ContentStays DEF OriginInv, PageOrigin
    <3>2. turn'.page.content = d
      BY <2>1, <2>3
    <3> QED BY <3>1, <3>2 DEF PageOrigin, OurWrites
  <2> QED BY <1>9, <2>2, <2>3 DEF PageGoes
<1> QED BY <1>7, <1>8, <1>9, PagesElsewhere

(* What a finished projection shows: of an entity that is not fenced off,  *)
(* what the replay of the rows it counted makes of it; of one that is,     *)
(* writes of rows.                                                         *)
LEMMA ProjectedShows ==
  ASSUME VisibleInv', rebuild' = None, dirty' = {}
  PROVE  \E D \in SUBSET ReadyIds' :
           /\ \A k \in Keys \ retracted' :
                /\ visible'[k] = Shown(Counted(D)', k, Base'[k])
                /\ \A p \in Counted(D)' :
                     KeyOf[p.id] = k => (p.writes = {} <=> ~ Live(Counted(D)', p, Base'[k]))
           /\ \A k \in retracted' : \A m \in visible'[k] : \E p \in Counted(D)' : p.id = m
<1>1. PICK D \in SUBSET ReadyIds' : Projected(D)'
  BY DEF VisibleInv, ProjectionInv
<1>2. Overlaid(Counted(D))' /\ SinceFence(Counted(D))'
  BY <1>1 DEF Projected, Projects
<1>3. PICK E, base, v, s, d :
        /\ E = Counted(D)' /\ base = Base' /\ v = visible' /\ s = retracted' /\ d = dirty'
  OBVIOUS
<1>4. \A k \in Keys \ s :
        /\ v[k] = Shown(E, k, base[k])
        /\ \A p \in E : KeyOf[p.id] = k => (p.writes = {} <=> ~ Live(E, p, base[k]))
  BY <1>2, <1>3 DEF Overlaid, Agrees
<1>5. \A k \in s : \A m \in v[k] : \E p \in E : p.id = m
  BY <1>2, <1>3 DEF SinceFence
<1> QED BY <1>3, <1>4, <1>5

(* Only a commit and the last step of a projection change what is visible. *)
LEMMA VisibleMoves ==
  ASSUME [Next]_vars
  PROVE  \/ visible' = visible
         \/ \E m \in Mutations : Mutate(m)
         \/ Project /\ rebuild' = None /\ dirty' = {}
<1>1. CASE Project
  BY <1>1 DEF Project, ApplyDelta, RebuildStep, CleanTarget, CopyCanonical, ReplayPending, Promote
<1>2. CASE PreparePage \/ DeleteSettled \/ ResumeRebuild \/ SettleReceipts \/ ReadSettlements
           \/ Environment
  BY <1>2 DEF PreparePage, Prepare, DeleteSettled, ResumeRebuild, SettleReceipts, ReadSettlements,
              Environment, OtherWrites, SetPolicy, ReceiptsLapse, ClientUnchanged, projectionVars
<1>3. CASE Begin \/ Pull \/ ApplyViewPage \/ InstallBootstrap \/ RevokeReplication
  BY <1>3 DEF Begin, Pull, ApplyViewPage, InstallBootstrap, RevokeReplication, projectionVars
<1>4. CASE ClaimSubmitBatch \/ ReceiveAnswers \/ PersistReceipt \/ ReceiptsPersisted
           \/ RecoverExpired \/ ServerAnswers
  BY <1>4 DEF ClaimSubmitBatch, ReceiveAnswers, PersistReceipt, ReceiptsPersisted, RecoverExpired,
              ServerAnswers, projectionVars
<1>5. CASE LoseAnswers \/ StorageFails \/ Crash \/ UNCHANGED vars
  BY <1>5 DEF LoseAnswers, StorageFails, Crash, vars, projectionVars
<1> QED BY <1>1, <1>2, <1>3, <1>4, <1>5 DEF Next, GateStep, PassStep, Application

LEMMA QueueOurs ==
  ASSUME OutboxInv' PROVE \A p \in Queue' : Ours(p.id)'
<1>1. PICK s : s = pending'
  OBVIOUS
<1>2. s \in Seq(PendingRows) /\ \A i \in 1 .. Len(s) : NamesIt(s[i])'
  BY <1>1 DEF OutboxInv, ClientTypeInv, PendingInv
<1>3. ASSUME NEW p \in Queue' PROVE Ours(p.id)'
  <2>1. PICK i \in 1 .. Len(s) : p = Row(s[i])
    BY <1>1 DEF Queue, RowsOf
  <2>2. p.id = s[i].id
    BY <2>1 DEF Row
  <2> QED BY <1>2, <2>2 DEF NamesIt, Ours
<1> QED BY <1>3

LEMMA VisibleOurs ==
  ASSUME OutboxInv, OutboxInv', VisibleInv, VisibleInv', OriginInv, [Next]_vars,
         OurWrites(canonical)'
  PROVE  OurWrites(visible)'
<1>1. PICK c : c = visible /\ c \in Contents
  BY DEF VisibleInv, ContentInv
<1>2. OurWrites(c)'
  BY <1>1, ContentStays DEF OriginInv
<1>3. CASE visible' = visible
  BY <1>1, <1>2, <1>3 DEF OurWrites
<1>4. ASSUME NEW x \in Mutations, Mutate(x) PROVE OurWrites(visible)'
  <2>1. /\ visible' = Run(x, c) /\ committed' = Append(committed, x)
        /\ committed \in Seq(Mutations)
    BY <1>1, <1>4 DEF Mutate, OutboxInv, HistoryTypeInv
  <2>2. Ours(x)'
    <3>1. /\ Len(committed') = Len(committed) + 1
          /\ Len(committed) + 1 \in 1 .. Len(committed) + 1
          /\ committed'[Len(committed) + 1] = x
      BY <2>1, Appended
    <3> QED BY <3>1 DEF Ours
  <2>3. ASSUME NEW k \in Keys
        PROVE  Run(x, c)[k] = c[k] \/ Run(x, c)[k] = c[k] \cup {x}
    BY <1>1, RunIs
  <2>4. \A k \in Keys : \A m : m \in visible'[k] => m \in c[k] \/ m = x
    BY <2>1, <2>3
  <2> QED BY <1>2, <2>2, <2>4 DEF OurWrites
<1>5. CASE Project /\ rebuild' = None /\ dirty' = {}
  <2>1. PICK D \in SUBSET ReadyIds' :
          /\ \A k \in Keys \ retracted' : visible'[k] = Shown(Counted(D)', k, Base'[k])
          /\ \A k \in retracted' : \A m \in visible'[k] : \E p \in Counted(D)' : p.id = m
    BY <1>5, ProjectedShows
  <2>2. \A p \in Counted(D)' : Ours(p.id)'
    BY QueueOurs DEF Counted
  <2>3. ASSUME NEW k \in Keys, NEW m \in Mutations, m \in visible'[k] PROVE Ours(m)'
    <3>1. CASE k \in retracted'
      BY <2>1, <2>2, <2>3, <3>1
    <3>2. CASE k \notin retracted'
      <4>1. PICK E, b : E = Counted(D)' /\ b = Base'[k]
        OBVIOUS
      <4>2. m \in Shown(E, k, b)
        BY <2>1, <2>3, <3>2, <4>1
      <4>3. m \in b \/ \E p \in E : p.id = m
        BY <4>2 DEF Shown
      <4>4. b = canonical'[k]
        BY <3>2, <4>1 DEF Base, Unretracted
      <4>5. m \in b => Ours(m)'
        BY <4>4 DEF OurWrites
      <4> QED BY <2>2, <4>1, <4>3, <4>5
    <3> QED BY <3>1, <3>2
  <2> QED BY <2>3 DEF OurWrites
<1> QED BY <1>3, <1>4, <1>5, VisibleMoves

LEMMA StayNext ==
  ASSUME OutboxInv, OutboxInv', VisibleInv, VisibleInv', StayInv, [Next]_vars PROVE StayInv'
<1>1. DateInv /\ CursorInv /\ ResolvedInv /\ CoverInv /\ OriginInv
  BY DEF StayInv
<1>2. DateInv' /\ CursorInv' /\ ResolvedInv' /\ CoverInv'
  BY <1>1, DatesNext, CursorNext, ResolvedNext, CoverNext
<1>3. OurWrites(entities)' /\ OurWrites(canonical)' /\ PageOrigin'
  BY <1>1, EntitiesOurs, CanonicalOurs, PageOurs
<1>4. OriginInv'
  BY <1>1, <1>3, VisibleOurs DEF OriginInv
<1> QED BY <1>2, <1>4 DEF StayInv

LEMMA StayInit ==
  ASSUME Init PROVE StayInv
<1>1. /\ entities = Nothing /\ canonical = Nothing /\ visible = Nothing /\ decided = <<>>
      /\ receipts = {} /\ turn = Idle /\ installed = None /\ settlements = <<>>
      /\ committed = <<>>
  BY DEF Init
<1>2. Idle.at = "idle" /\ Idle.answers = <<>>
  BY DEF Idle
<1>3. DateInv /\ CursorInv
  BY <1>1, <1>2 DEF DateInv, CursorInv
<1>4. Told = {}
  BY <1>1 DEF Told
<1>5. ResolvedInv /\ CoverInv
  BY <1>1, <1>4 DEF ResolvedInv, CoverInv
<1>6. OurWrites(Nothing)
  BY DEF OurWrites, Nothing
<1>7. OriginInv
  BY <1>1, <1>2, <1>6 DEF OriginInv, PageOrigin
<1> QED BY <1>3, <1>5, <1>7 DEF StayInv

-----------------------------------------------------------------------------
(* Why a write is gone from what a projection shows.                       *)
Reason(m) ==
  \/ DecidedAs(m, "Rejected")
  \/ KeyOf[m] \in retracted'
  \/ CaughtUp(m) /\ m \notin canonical'[KeyOf[m]]
  \/ Refused(m)'

LEMMA ResolvedReason ==
  ASSUME OutboxInv, NEW i \in 1 .. Len(committed), Resolved(i)
  PROVE  DecidedAs(committed[i], "Rejected") \/ CaughtUp(committed[i])
<1>1. i \in 1 .. Len(decided) /\ (decided[i].tag = "Rejected" \/ decided[i].at <= serverCursor)
  BY DEF Resolved
<1>2. decided \in Seq(DecisionRows) /\ decided[i].id = committed[i]
  BY <1>1 DEF OutboxInv, ServerTypeInv, DecisionInv
<1>3. decided[i] \in DecisionRows /\ i \in DOMAIN decided
  BY <1>1, <1>2
<1>4. decided[i].tag \in {"Accepted", "Rejected"}
  BY <1>3 DEF DecisionRows
<1> QED BY <1>1, <1>2, <1>3, <1>4 DEF DecidedAs, CaughtUp

LEMMA ProjectReason ==
  ASSUME OutboxInv, OutboxInv', VisibleInv, VisibleInv', StayInv, Project,
         rebuild' = None, dirty' = {}, NEW m \in Mutations,
         m \in visible[KeyOf[m]], m \notin visible'[KeyOf[m]]
  PROVE  Reason(m)
<1>1. PICK k \in Keys : k = KeyOf[m]
  BY LocalStoreAssumption
<1>2. SUFFICES ASSUME k \notin retracted' PROVE Reason(m)
  BY <1>1 DEF Reason
<1>3. PICK D \in SUBSET ReadyIds' :
        \A l \in Keys \ retracted' :
          /\ visible'[l] = Shown(Counted(D)', l, Base'[l])
          /\ \A p \in Counted(D)' :
               KeyOf[p.id] = l => (p.writes = {} <=> ~ Live(Counted(D)', p, Base'[l]))
  BY ProjectedShows
<1>4. PICK E, b : E = Counted(D)' /\ b = Base'[k]
  OBVIOUS
<1>5. /\ m \notin Shown(E, k, b)
      /\ \A p \in E : KeyOf[p.id] = k => (p.writes = {} <=> ~ Live(E, p, b))
  BY <1>1, <1>2, <1>3, <1>4
<1>6. b = canonical'[k]
  BY <1>2, <1>4 DEF Base, Unretracted
<1>7. m \notin canonical'[k]
  BY <1>5, <1>6 DEF Shown
<1>8. PICK i \in 1 .. Len(committed) : committed[i] = m
  BY <1>1 DEF StayInv, OriginInv, OurWrites, Ours
<1>9. ASSUME Resolved(i) PROVE Reason(m)
  BY <1>1, <1>7, <1>8, <1>9, ResolvedReason DEF Reason
<1>10. CASE i \in Told
  BY <1>9, <1>10 DEF StayInv, ResolvedInv
<1>11. ASSUME NEW j \in 1 .. Len(pending), pending[j].local = i PROVE Reason(m)
  <2>1. pending[j].id = m
    BY <1>8, <1>11 DEF OutboxInv, PendingInv, NamesIt
  <2>2. RowsKept /\ receipts' = receipts /\ serverCursor' = serverCursor /\ installed' = installed
    BY ProjectRows DEF Project, receiptVars, viewVars
  <2>3. PICK s : s = pending'
    OBVIOUS
  <2>4. s \in Seq(PendingRows) /\ j \in 1 .. Len(s) /\ s[j].id = m
    BY <2>1, <2>2, <2>3 DEF RowsKept
  <2>5. CASE m \in D
    <3>1. m \in ReadyIds'
      BY <2>5
    <3>2. PICK p \in ToSet(pending)' : p.id = m /\ Ready(p)'
      BY <3>1 DEF ReadyIds
    <3>3. PICK r \in receipts : r.id = m /\ TerminallyReady(r)'
      BY <2>2, <3>2 DEF Ready, ReceiptsOf
    <3>4. TerminallyReady(r)
      BY <2>2, <3>3 DEF TerminallyReady
    <3>5. m \in PendingIds
      <4>1. pending[j] \in ToSet(pending)
        BY QueueIs
      <4> QED BY <2>1, <4>1 DEF PendingIds
    <3>6. pending[j].id \in ReadyIds
      BY <2>1, <3>3, <3>4, <3>5, ReadyIs
    <3>7. Resolved(pending[j].local)
      BY <3>6, ReadyResolved DEF StayInv, VisibleInv
    <3> QED BY <1>9, <1>11, <3>7
  <2>6. CASE m \notin D
    <3>1. PICK p : p = Row(s[j])
      OBVIOUS
    <3>2. p.id = m /\ p.writes = s[j].writes
      BY <2>4, <3>1 DEF Row
    <3>3. p \in Queue'
      BY <2>3, <2>4, <3>1 DEF Queue, RowsOf
    <3>4. p \in E
      BY <1>4, <2>6, <3>2, <3>3 DEF Counted
    <3>5. ~ Live(E, p, b)
      BY <1>1, <1>5, <3>2, <3>4 DEF Shown
    <3>6. m \in Strict
      BY <3>2, <3>5 DEF Live
    <3>7. p.writes = {}
      BY <1>1, <1>5, <3>2, <3>4, <3>5
    <3>8. s[j] \in ToSet(s)
      BY <2>4 DEF ToSet
    <3>9. Refused(m)'
      BY <2>3, <2>4, <3>2, <3>6, <3>7, <3>8 DEF Refused
    <3> QED BY <3>9 DEF Reason
  <2> QED BY <2>5, <2>6
<1> QED BY <1>10, <1>11 DEF StayInv, CoverInv

LEMMA StepReason ==
  ASSUME OutboxInv, OutboxInv', VisibleInv, VisibleInv', StayInv, [Next]_vars,
         NEW m \in Mutations, m \in visible[KeyOf[m]], m \notin visible'[KeyOf[m]]
  PROVE  Reason(m)
<1>1. CASE visible' = visible
  BY <1>1
<1>2. ASSUME NEW x \in Mutations, Mutate(x) PROVE Reason(m)
  <2>1. PICK c : c = visible /\ c \in Contents
    BY DEF VisibleInv, ContentInv
  <2>2. visible' = Run(x, c) /\ KeyOf[m] \in Keys
    BY <1>2, <2>1, LocalStoreAssumption DEF Mutate
  <2>3. ASSUME NEW k \in Keys
        PROVE  Run(x, c)[k] = c[k] \/ Run(x, c)[k] = c[k] \cup {x}
    <3>1. Run(x, c)[k] = IF KeyOf[x] = k /\ (x \notin Strict \/ c[k] # {})
                           THEN c[k] \cup {x} ELSE c[k]
      BY <2>1, RunIs
    <3> QED BY <3>1
  <2> QED BY <2>1, <2>2, <2>3
<1>3. CASE Project /\ rebuild' = None /\ dirty' = {}
  BY <1>3, ProjectReason
<1> QED BY <1>1, <1>2, <1>3, VisibleMoves

(* StayInv always holds: no receipt or answer is dated before what it      *)
(* tells of was decided, whatever was settled had been rejected or shown,  *)
(* what is committed is pending until then, and whatever is written        *)
(* anywhere was committed.                                                 *)
THEOREM StayInvariance ==
  ASSUME "install" \notin Fragile PROVE Spec => [](OutboxInv /\ VisibleInv /\ StayInv)
<1>1. Init => OutboxInv /\ VisibleInv /\ StayInv
  BY InitOutbox, InitVisible, StayInit
<1>2. OutboxInv /\ VisibleInv /\ StayInv /\ [Next]_vars
        => OutboxInv' /\ VisibleInv' /\ StayInv'
  BY NextOutbox, NextVisible, StayNext
<1> QED BY <1>1, <1>2, PTL DEF Spec

(* A write that the application saw goes away only when it was rejected,   *)
(* its entity was fenced off, the client has been shown an entity without  *)
(* it as of that write or later, or its handler now refuses, and its row   *)
(* says so: no receipt, page, rebuild or crash makes it flicker.           *)
THEOREM WritesAreKept ==
  ASSUME "install" \notin Fragile PROVE Spec => WritesStay
<1>1. ASSUME OutboxInv, OutboxInv', VisibleInv, VisibleInv', StayInv, [Next]_vars
      PROVE  [\A m \in Mutations :
                m \in visible[KeyOf[m]] /\ m \notin visible'[KeyOf[m]] =>
                  \/ DecidedAs(m, "Rejected")
                  \/ KeyOf[m] \in retracted'
                  \/ CaughtUp(m) /\ m \notin canonical'[KeyOf[m]]
                  \/ Refused(m)']_vars
  BY <1>1, StepReason DEF Reason
<1> QED BY <1>1, StayInvariance, PTL DEF Spec, WritesStay
=============================================================================
