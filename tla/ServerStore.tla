----------------------------- MODULE ServerStore -----------------------------
(***************************************************************************)
(* Mutation admission and history maintenance of one space, as written in  *)
(* packages/local-sql/src/ServerStore.ts.                                  *)
(*                                                                         *)
(* Any number of callers submit or discard mutation envelopes; every       *)
(* admission is a lookup outside the transaction followed by one           *)
(* transaction under the space's row lock.  Maintenance passes (the        *)
(* compaction an admission triggers, and the periodic sweep) publish a     *)
(* global snapshot of the entities and then prune the accepted log and     *)
(* the receipts behind it, one bounded batch per transaction.              *)
(*                                                                         *)
(* A digest is a collision-free hash of the whole envelope, so comparing   *)
(* digests is comparing envelopes.  The authorization policy and the       *)
(* mutation handler are application code: their verdict is free.           *)
(***************************************************************************)
EXTENDS Integers, Sequences, FiniteSets

CONSTANTS
  Lineages,           \* (clientId, membershipIncarnation) pairs
  MutationIds,        \* mutation identities
  Keys, Values,       \* entity keys and values
  Absent,             \* the "value" of an entity that does not exist
  Envelopes,          \* the mutation envelopes clients may present
  Discardable,        \* those a client may have quarantined and discard
  Callers,            \* concurrent requests
  Compactor, Sweeper, \* the two kinds of maintenance pass
  NoSnapshot,         \* the space has no published snapshot
  RetainedReceipts, MaximumReceipts,
  RetainedHistory, MaximumHistory,
  MaximumEntities, PruneBatchSize, RetainedSnapshots,
  MaxFailures         \* bound on interrupted calls and failed passes

Passes == {Compactor, Sweeper}

ASSUME EnvelopesAssumption ==
  Envelopes \subseteq [lineage : Lineages, seq : Nat \ {0}, id : MutationIds,
                       key : Keys, value : Values \cup {Absent}]

ASSUME DiscardableAssumption == Discardable \subseteq Envelopes

ASSUME OptionsAssumption ==
  /\ RetainedReceipts \in Nat /\ RetainedHistory \in Nat
  /\ MaximumReceipts \in Nat /\ RetainedReceipts < MaximumReceipts
  /\ MaximumHistory \in Nat /\ RetainedHistory < MaximumHistory
  /\ MaximumEntities \in Nat \ {0}
  /\ PruneBatchSize \in Nat \ {0}
  /\ RetainedSnapshots \in Nat \ {0}
  /\ MaxFailures \in Nat

ASSUME PassesAssumption ==
  /\ Compactor # Sweeper
  /\ NoSnapshot \notin [sequence : Nat, terminal : Nat,
                        content : [Keys -> Values \cup {Absent}]]

VARIABLES
  log,          \* retained accepted log: server sequence -> envelope
  receipts,     \* retained receipts
  nextServer, nextTerminal,
  last,         \* last_local_sequence per lineage
  expired,      \* expired_local_sequence per lineage
  entities,     \* the materialized entities
  historyFloor, receiptFloor,
  snapshots,    \* retained snapshots
  current,      \* the space row's snapshot pointer
  calls,        \* callers' requests in flight
  passes,       \* maintenance passes in flight
  decided,      \* history: every receipt ever stored, by terminal sequence
  reply,        \* history: the receipt or corruption the last step answered
  missed,       \* history: a compaction was asked for while one was ending
  failures      \* history: interrupted calls, failed passes and crashes

spaceVars == <<log, receipts, nextServer, nextTerminal, last, entities>>
floorVars == <<expired, historyFloor, receiptFloor, snapshots, current>>
vars == <<spaceVars, floorVars, calls, passes, decided, reply, missed, failures>>

Tags == {"Accepted", "Rejected", "Expired", "Corrupt"}

(***************************************************************************)
(* A receipt carries two numbers: the server sequence of an accepted       *)
(* mutation and its terminal sequence; an Expired receipt carries those of *)
(* the snapshot that fences it.                                            *)
(***************************************************************************)
Receipt(e, tag, at, through) ==
  [env |-> e, tag |-> tag, at |-> at, through |-> through]

Receipts == [env : Envelopes, tag : Tags, at : Nat, through : Nat]
Contents == [Keys -> Values \cup {Absent}]
Snapshots == [sequence : Nat, terminal : Nat, content : Contents]

Larger(a, b) == IF a < b THEN b ELSE a

\* The n smallest members of S: ORDER BY ... LIMIT n
Lowest(S, n) == {x \in S : Cardinality({y \in S : y < x}) < n}

HighWater(retained, maximum) == retained + (maximum - retained + 1) \div 2

CrossesHighWater ==
  \/ Cardinality(DOMAIN log) + 1 >= HighWater(RetainedHistory, MaximumHistory)
  \/ Cardinality(receipts) + 1 >= HighWater(RetainedReceipts, MaximumReceipts)

Population(content) == Cardinality({k \in Keys : content[k] # Absent})

(***************************************************************************)
(* Requests.                                                               *)
(***************************************************************************)
Idle == [pc |-> "idle"]
Calls == {Idle} \cup [pc : {"lookup", "transact"},
                      kind : {"submit", "discard"}, env : Envelopes]
                \cup [pc : {"compact"}, receipt : Receipts]

Finish(c) == calls' = [calls EXCEPT ![c] = Idle]

NoReply == [tag |-> "None"]
Silent == reply' = NoReply

Answer(c, r) ==
  /\ Finish(c)
  /\ reply' = r

Request(c) ==
  /\ calls[c] = Idle
  /\ \E e \in Envelopes, kind \in {"submit", "discard"} :
       /\ kind = "discard" => e \in Discardable
       /\ calls' = [calls EXCEPT ![c] = [pc |-> "lookup", kind |-> kind, env |-> e]]
  /\ UNCHANGED <<spaceVars, floorVars, passes, decided, missed, failures>>
  /\ Silent

\* findReceiptByMutation and findReceiptBySequence
StoredFor(e) == {r \in receipts : r.env.id = e.id}
SameSequence(e) ==
  {r \in receipts : r.env.lineage = e.lineage /\ r.env.seq = e.seq}

(***************************************************************************)
(* A stored receipt answers an exact retry; the same mutation identity     *)
(* with other bytes is a conflict.                                         *)
(***************************************************************************)
\* Plausible bug: any stored receipt answers
SameDigestUnchecked(r, e) == TRUE

SameDigest(r, e) == r.env = e

AnswerStored(c, e) ==
  \E r \in StoredFor(e) :
    \/ SameDigest(r, e) /\ Answer(c, [r EXCEPT !.env = e])
    \/ ~ SameDigest(r, e) /\ Finish(c) /\ Silent

(***************************************************************************)
(* The unlocked part of a request: access, schema and envelope are checked *)
(* (any of them may refuse) and a retained receipt answers at once.        *)
(***************************************************************************)
Lookup(c) ==
  /\ calls[c].pc = "lookup"
  /\ \/ Finish(c) /\ Silent
     \/ AnswerStored(c, calls[c].env)
     \/ /\ StoredFor(calls[c].env) = {}
        /\ calls' = [calls EXCEPT ![c].pc = "transact"]
        /\ Silent
  /\ UNCHANGED <<spaceVars, floorVars, passes, decided, missed, failures>>

(***************************************************************************)
(* What the transaction answers without changing the space.                *)
(***************************************************************************)
Conflicting(kind, e) ==
  /\ kind = "submit"
  /\ StoredFor(e) = {}
  /\ SameSequence(e) # {}

Undecided(kind, e) ==
  /\ StoredFor(e) = {}
  /\ ~ Conflicting(kind, e)

AtCapacity(kind) ==
  \/ Cardinality(receipts) >= MaximumReceipts
  \/ kind = "submit" /\ Cardinality(DOMAIN log) >= MaximumHistory

\* currentManifest: the pointer must be set and name a retained snapshot
ExpiredReceipt(e) ==
  IF current # NoSnapshot /\ current \in snapshots
    THEN Receipt(e, "Expired", current.sequence, current.terminal)
    ELSE Receipt(e, "Corrupt", 0, 0)

AnswerExpired(c, e) ==
  /\ e.seq <= expired[e.lineage]
  /\ Answer(c, ExpiredReceipt(e))

\* "Client is missing retained receipt"
AnswerMissing(c, e) ==
  /\ e.seq > expired[e.lineage]
  /\ e.seq <= last[e.lineage]
  /\ Answer(c, Receipt(e, "Corrupt", 0, 0))

Refused(kind, e) ==
  \/ Conflicting(kind, e)
  \/ /\ Undecided(kind, e)
     /\ e.seq > expired[e.lineage]
     /\ \/ e.seq > last[e.lineage] + 1                       \* OutOfOrderMutation
        \/ e.seq = last[e.lineage] + 1 /\ AtCapacity(kind)   \* CapacityExceeded

TransactReadOnly(c) ==
  /\ calls[c].pc = "transact"
  /\ LET e == calls[c].env
         kind == calls[c].kind
     IN \/ AnswerStored(c, e)
        \/ Undecided(kind, e) /\ (AnswerExpired(c, e) \/ AnswerMissing(c, e))
        \/ Refused(kind, e) /\ Finish(c) /\ Silent
  /\ UNCHANGED <<spaceVars, floorVars, passes, decided, missed, failures>>

Admissible(kind, e) ==
  /\ Undecided(kind, e)
  /\ e.seq > expired[e.lineage]
  /\ e.seq = last[e.lineage] + 1
  /\ ~ AtCapacity(kind)

(***************************************************************************)
(* The end of every admitting transaction: the receipt, the terminal       *)
(* sequence and the lineage's watermark.  An admission that crosses the    *)
(* high-water mark starts compaction before its reply is returned.         *)
(***************************************************************************)
Store(c, r) ==
  /\ receipts' = receipts \cup {r}
  /\ nextTerminal' = nextTerminal + 1
  /\ last' = [last EXCEPT ![r.env.lineage] = r.env.seq]
  /\ decided' = Append(decided, r)
  /\ \/ /\ CrossesHighWater
        /\ calls' = [calls EXCEPT ![c] = [pc |-> "compact", receipt |-> r]]
        /\ Silent
     \/ ~ CrossesHighWater /\ Answer(c, r)

Accept(c, e) ==
  /\ entities' = [entities EXCEPT ![e.key] = e.value]
  /\ Population(entities') <= MaximumEntities
  /\ log' = [s \in DOMAIN log \cup {nextServer} |->
               IF s = nextServer THEN e ELSE log[s]]
  /\ nextServer' = nextServer + 1
  /\ Store(c, Receipt(e, "Accepted", nextServer, nextTerminal))

\* Plausible bug: a rejection keeps the handler's writes
RejectWithoutRollback(c, e) ==
  /\ Store(c, Receipt(e, "Rejected", 0, nextTerminal))
  /\ entities' = [entities EXCEPT ![e.key] = e.value]
  /\ UNCHANGED <<log, nextServer>>

\* Authorization, handler or capacity rejection: the savepoint rolls back
Reject(c, e) ==
  /\ Store(c, Receipt(e, "Rejected", 0, nextTerminal))
  /\ UNCHANGED <<entities, log, nextServer>>

Admit(c) ==
  /\ calls[c].pc = "transact"
  /\ calls[c].kind = "submit"
  /\ Admissible("submit", calls[c].env)
  /\ Accept(c, calls[c].env) \/ Reject(c, calls[c].env)
  /\ UNCHANGED <<floorVars, passes, missed, failures>>

\* Consumes the local sequence of a quarantined mutation, never running it
Discard(c) ==
  /\ calls[c].pc = "transact"
  /\ calls[c].kind = "discard"
  /\ Admissible("discard", calls[c].env)
  /\ Reject(c, calls[c].env)
  /\ UNCHANGED <<floorVars, passes, missed, failures>>

\* The caller's fiber is interrupted or its process dies
Interrupt(c) ==
  /\ calls[c] # Idle
  /\ failures < MaxFailures
  /\ failures' = failures + 1
  /\ Finish(c)
  /\ UNCHANGED <<spaceVars, floorVars, passes, decided, missed>>
  /\ Silent

(***************************************************************************)
(* Maintenance passes.                                                     *)
(***************************************************************************)
PassPhases == {"idle", "check", "prepare", "publish", "prune", "ending"}
NoCandidate == NoSnapshot

PassStates == [phase : PassPhases, candidate : Snapshots \cup {NoSnapshot},
               rerun : BOOLEAN]

AtRest == [phase |-> "idle", candidate |-> NoCandidate, rerun |-> FALSE]
Started == [AtRest EXCEPT !.phase = "check"]
Ending == [AtRest EXCEPT !.phase = "ending"]

\* compact: at most one compaction runs; a request meanwhile asks for one more
RequestCompaction(c) ==
  /\ calls[c].pc = "compact"
  /\ Answer(c, calls[c].receipt)
  /\ passes' = [passes EXCEPT ![Compactor] =
                  IF @ = AtRest THEN Started ELSE [@ EXCEPT !.rerun = TRUE]]
  /\ missed' = (missed \/ passes[Compactor].phase = "ending")
  /\ UNCHANGED <<spaceVars, floorVars, decided, failures>>

\* maintainAll: the periodic sweep reaches this space
Sweep ==
  /\ passes[Sweeper] = AtRest
  /\ passes' = [passes EXCEPT ![Sweeper] = Started]
  /\ UNCHANGED <<spaceVars, floorVars, calls, decided, missed, failures>>
  /\ Silent

Heads == [sequence |-> nextServer - 1, terminal |-> nextTerminal - 1,
          content |-> entities]

SnapshotCurrent ==
  /\ current # NoSnapshot
  /\ current.sequence = nextServer - 1
  /\ current.terminal = nextTerminal - 1
  /\ current \in snapshots

Advance(m, phase, candidate) ==
  passes' = [passes EXCEPT ![m].phase = phase, ![m].candidate = candidate]

\* publishCurrentSnapshot reads the space row and skips an up-to-date snapshot
CheckSnapshot(m) ==
  /\ passes[m].phase = "check"
  /\ Advance(m, IF SnapshotCurrent THEN "prune" ELSE "prepare", NoCandidate)
  /\ UNCHANGED <<spaceVars, floorVars, calls, decided, missed, failures>>
  /\ Silent

\* One consistent read of the heads and of every entity
PrepareSnapshot(m) ==
  /\ passes[m].phase = "prepare"
  /\ Advance(m, "publish", Heads)
  /\ UNCHANGED <<spaceVars, floorVars, calls, decided, missed, failures>>
  /\ Silent

Newer(a, b) ==
  \/ a.sequence > b.sequence
  \/ a.sequence = b.sequence /\ a.terminal > b.terminal

Newest(S, n) == {s \in S : Cardinality({t \in S : Newer(t, s)}) < n}

HeadsUnmoved(s) ==
  /\ s.sequence = nextServer - 1
  /\ s.terminal = nextTerminal - 1

(***************************************************************************)
(* Under the space lock: a candidate whose heads have moved is dropped; a  *)
(* snapshot at the same heads is reused; otherwise the candidate becomes   *)
(* the current snapshot and only the newest ones are kept.                 *)
(***************************************************************************)
InstallSnapshot(s) ==
  LET kept == IF SnapshotCurrent THEN current ELSE s IN
  /\ current' = kept
  /\ snapshots' = Newest(snapshots \cup {kept}, RetainedSnapshots)

PublishSnapshot(m) ==
  /\ passes[m].phase = "publish"
  /\ \/ HeadsUnmoved(passes[m].candidate) /\ InstallSnapshot(passes[m].candidate)
     \/ ~ HeadsUnmoved(passes[m].candidate) /\ UNCHANGED <<current, snapshots>>
  /\ Advance(m, "prune", NoCandidate)
  /\ UNCHANGED <<spaceVars, expired, historyFloor, receiptFloor, calls,
                 decided, missed, failures>>
  /\ Silent

PrunableHistory(floor) ==
  Lowest({s \in DOMAIN log : s <= floor}, PruneBatchSize)
PrunableReceipts(floor) ==
  LET terminals == {r.through : r \in {q \in receipts : q.through <= floor}}
  IN {r \in receipts : r.through \in Lowest(terminals, PruneBatchSize)}

\* Plausible bugs: floors that go negative, or never rise
FloorUnclamped == current.sequence - RetainedHistory
FloorStuck == receiptFloor

\* The logical floors follow the published snapshot and never move back
HistoryFloor == Larger(historyFloor, current.sequence - RetainedHistory)
ReceiptFloor == Larger(receiptFloor, current.terminal - RetainedReceipts)

\* Plausible bug: receipts are deleted without raising the watermark
PrunedSilently(pruned, l) == expired[l]

\* The new expired_local_sequence: MAX(local_sequence) of the pruned receipts
PrunedThrough(pruned, l) ==
  LET seqs == {r.env.seq : r \in {q \in pruned : q.env.lineage = l}} \cup {expired[l]}
  IN CHOOSE n \in seqs : \A m \in seqs : m <= n

\* Plausible bug: a request made while a compaction runs is forgotten
AfterPassWithoutRerun(m) == Ending

(***************************************************************************)
(* compactPass: after a pass, one more if it was asked for meanwhile.      *)
(* Otherwise the fiber goes on to remove its entry from the map of running *)
(* compactions; the scheduler may switch fibers in between.                *)
(***************************************************************************)
AfterPass(m) == IF passes[m].rerun THEN Started ELSE Ending

(***************************************************************************)
(* pruneBatch under the space lock: raise the floors behind the published  *)
(* snapshot, then delete one batch of each kind; deleting receipts raises  *)
(* the expired watermark of every lineage they belong to.  pruneToFloors   *)
(* repeats it while a batch comes back full.                               *)
(***************************************************************************)
PruneBatch(m) ==
  /\ passes[m].phase = "prune"
  /\ current # NoSnapshot
  /\ historyFloor' = HistoryFloor
  /\ receiptFloor' = ReceiptFloor
  /\ LET history == PrunableHistory(HistoryFloor)
         pruned == PrunableReceipts(ReceiptFloor)
     IN /\ log' = [s \in DOMAIN log \ history |-> log[s]]
        /\ receipts' = receipts \ pruned
        /\ expired' = [l \in Lineages |-> PrunedThrough(pruned, l)]
        /\ passes' = [passes EXCEPT ![m] =
             IF Cardinality(history) < PruneBatchSize
                  /\ Cardinality(pruned) < PruneBatchSize
               THEN AfterPass(m) ELSE @]
  /\ UNCHANGED <<nextServer, nextTerminal, last, entities, snapshots, current,
                 calls, decided, missed, failures>>
  /\ Silent

PruneNothing(m) ==
  /\ passes[m].phase = "prune"
  /\ current = NoSnapshot
  /\ passes' = [passes EXCEPT ![m] = AfterPass(m)]
  /\ UNCHANGED <<spaceVars, floorVars, calls, decided, missed, failures>>
  /\ Silent

EndPass(m) ==
  /\ passes[m].phase = "ending"
  /\ passes' = [passes EXCEPT ![m] = AtRest]
  /\ UNCHANGED <<spaceVars, floorVars, calls, decided, missed, failures>>
  /\ Silent

\* A storage failure ends the pass; a compaction still honours its rerun
FailPass(m) ==
  /\ passes[m].phase \notin {"idle", "ending"}
  /\ failures < MaxFailures
  /\ failures' = failures + 1
  /\ passes' = [passes EXCEPT ![m] = AfterPass(m)]
  /\ UNCHANGED <<spaceVars, floorVars, calls, decided, missed>>
  /\ Silent

\* The server process dies: calls and passes are lost, the database is not
Crash ==
  /\ failures < MaxFailures
  /\ failures' = failures + 1
  /\ calls' = [c \in Callers |-> Idle]
  /\ passes' = [m \in Passes |-> AtRest]
  /\ UNCHANGED <<spaceVars, floorVars, decided, missed>>
  /\ Silent

(***************************************************************************)
(* The specification.                                                      *)
(***************************************************************************)
Init ==
  /\ log = [s \in {} |-> 0]
  /\ receipts = {}
  /\ nextServer = 1 /\ nextTerminal = 1
  /\ last = [l \in Lineages |-> 0]
  /\ expired = [l \in Lineages |-> 0]
  /\ entities = [k \in Keys |-> Absent]
  /\ historyFloor = 0 /\ receiptFloor = 0
  /\ snapshots = {} /\ current = NoSnapshot
  /\ calls = [c \in Callers |-> Idle]
  /\ passes = [m \in Passes |-> AtRest]
  /\ decided = <<>> /\ reply = NoReply /\ missed = FALSE /\ failures = 0

CallStep(c) ==
  \/ Lookup(c) \/ TransactReadOnly(c) \/ Admit(c) \/ Discard(c)
  \/ RequestCompaction(c)

PassStep(m) ==
  \/ CheckSnapshot(m) \/ PrepareSnapshot(m) \/ PublishSnapshot(m)
  \/ PruneBatch(m) \/ PruneNothing(m) \/ EndPass(m)

Next ==
  \/ \E c \in Callers : Request(c) \/ CallStep(c) \/ Interrupt(c)
  \/ Sweep \/ Crash
  \/ \E m \in Passes : PassStep(m) \/ FailPass(m)

Spec == Init /\ [][Next]_vars

\* The database answers, the sweep runs at every interval, fibers are scheduled
Fairness ==
  /\ \A c \in Callers : WF_vars(CallStep(c))
  /\ WF_vars(Sweep)
  /\ \A m \in Passes : WF_vars(PassStep(m))

FairSpec == Spec /\ Fairness

(***************************************************************************)
(* Properties.                                                             *)
(***************************************************************************)

Ledger == INSTANCE MutationLedger

(* Every variable holds values of its type. *)
TypeOK ==
  /\ DOMAIN log \subseteq Nat /\ \A s \in DOMAIN log : log[s] \in Envelopes
  /\ receipts \subseteq Receipts
  /\ nextServer \in Nat /\ nextTerminal \in Nat
  /\ last \in [Lineages -> Nat] /\ expired \in [Lineages -> Nat]
  /\ entities \in Contents
  /\ historyFloor \in Nat /\ receiptFloor \in Nat
  /\ snapshots \subseteq Snapshots /\ current \in Snapshots \cup {NoSnapshot}
  /\ calls \in [Callers -> Calls] /\ passes \in [Passes -> PassStates]
  /\ decided \in Seq(Receipts) /\ reply \in Receipts \cup {NoReply}
  /\ missed \in BOOLEAN /\ failures \in Nat

Decisions == {decided[t] : t \in DOMAIN decided}
DecisionsAt(l, s) == {d \in Decisions : d.env.lineage = l /\ d.env.seq = s}

(* A lineage's local sequences are decided one by one and each only once,  *)
(* whatever was retried, raced or reclaimed: no mutation executes twice or *)
(* out of its client's order.                                              *)
DecidedInOrder ==
  \A t \in DOMAIN decided :
    LET e == decided[t].env
        earlier == {u \in 1 .. t - 1 : decided[u].env.lineage = e.lineage}
    IN /\ decided[t].through = t
       /\ Ledger!Follows(e.seq, {decided[u].env.seq : u \in earlier})

(* Every answered outcome is the one decision taken for that very envelope *)
(* so two answers to retries of one mutation never disagree.               *)
AnswersAreDecisions ==
  reply.tag \in {"Accepted", "Rejected"} => reply \in Decisions

(* An Expired answer is given only for a decided sequence and names a      *)
(* snapshot that contains the decision, so that a client which installs it *)
(* has the outcome.                                                        *)
ExpiredIsCovered ==
  reply.tag = "Expired" =>
    \E d \in DecisionsAt(reply.env.lineage, reply.env.seq) : d.through <= reply.through

(* The store never meets its own "missing retained receipt" or "compacted  *)
(* history without a published snapshot" corruption, however maintenance   *)
(* interleaves with admission; discarding a different mutation under a     *)
(* consumed sequence is the one request that reports it.                   *)
NeverCorrupt ==
  reply.tag = "Corrupt" =>
    \E d \in DecisionsAt(reply.env.lineage, reply.env.seq) : d.env # reply.env

AcceptedThrough(n) ==
  {t \in DOMAIN decided : decided[t].tag = "Accepted" /\ decided[t].at <= n}

LastWrite(k, n) ==
  LET writes == {t \in AcceptedThrough(n) : decided[t].env.key = k}
  IN IF writes = {} THEN Absent
     ELSE decided[CHOOSE t \in writes : \A u \in writes : u <= t].env.value

(* The entities, and every retained snapshot, are the state after exactly  *)
(* the accepted mutations up to their sequence: a rejected mutation leaves *)
(* no trace and a snapshot read while admissions run is not torn.          *)
StateIsReplayOfLog ==
  /\ \A k \in Keys : entities[k] = LastWrite(k, nextServer - 1)
  /\ \A s \in snapshots, k \in Keys : s.content[k] = LastWrite(k, s.sequence)

(* No floor is ever published without a snapshot that covers it.           *)
FloorsBehindSnapshot ==
  /\ historyFloor > 0 \/ receiptFloor > 0 => current \in snapshots
  /\ current # NoSnapshot =>
       historyFloor <= current.sequence /\ receiptFloor <= current.terminal

(* Above the history floor the accepted log is complete and in order.      *)
LogAboveFloor ==
  \A s \in historyFloor + 1 .. nextServer - 1 :
    /\ s \in DOMAIN log
    /\ \E d \in Decisions : d.tag = "Accepted" /\ d.at = s /\ d.env = log[s]

Quiescent ==
  /\ \A c \in Callers : calls[c] = Idle
  /\ \A m \in Passes : passes[m] = AtRest

(* When nothing failed and nothing is running, the space is not left above *)
(* its high-water mark: a write that crosses it is followed by a pass that *)
(* saw it, also when it arrives while a compaction is running.             *)
RestsBelowHighWater ==
  Quiescent /\ failures = 0 /\ ~ missed =>
    /\ Cardinality(receipts) < HighWater(RetainedReceipts, MaximumReceipts)
    /\ Cardinality(DOMAIN log) < HighWater(RetainedHistory, MaximumHistory)

(* Backpressure at the hard caps is temporary: whenever receipts or        *)
(* history have filled up, maintenance eventually makes room again.        *)
BackpressureClears ==
  []<>(~ AtCapacity("submit"))

(* The store implements the abstract mutation ledger: retries, races,      *)
(* pruning, crashes and maintenance are invisible but for Expired answers. *)
LedgerSpec == Ledger!Spec
=============================================================================
