------------------------------ MODULE LocalStore ------------------------------
(***************************************************************************)
(* The client's durable store of one space, from                           *)
(* packages/local-sql/src/LocalStore.ts, driven by the synchronization     *)
(* pass of Reconciler.ts (layerOnePass) against a server that decides      *)
(* mutations in local-sequence order.                                      *)
(*                                                                         *)
(* A mutation commits optimistically, is submitted in batches, and is      *)
(* settled with the server's receipt once what the server made of it has   *)
(* reached the canonical entities.  What the application sees is the       *)
(* canonical entities overlaid with the pending mutations: either the      *)
(* changed part is recomputed (the delta) or all of it is rebuilt, in      *)
(* batches, in a projection generation of its own.                         *)
(*                                                                         *)
(* Every transaction is a step; a crash or a storage error may fall        *)
(* between two of them.  An entity is the set of mutations that wrote it,  *)
(* and empty when it does not exist.  ScopedReplication models how pages   *)
(* and snapshots come about; here they are taken whole.                    *)
(***************************************************************************)
EXTENDS Integers, Sequences, FiniteSets, SequencesExt

CONSTANTS
  Mutations,      \* mutation identities
  Keys,           \* entities, numbered in page order
  KeyOf,          \* the entity each mutation's handler writes
  NameOf,         \* the name of each mutation
  Strict,         \* mutations whose handler refuses an entity that is absent
  Denied,         \* mutations the server's authorization rejects
  Other,          \* a write of another client
  None,           \* no page, snapshot, rebuild, fault or limit
  PageSize, SubmitBatch, ReplayBatch,   \* sizes of pages and of batches
  MaximumPending, MaximumReceipts, RetainedReceipts, RetainedMutationIds,
  Listens,        \* the name the application reads settlements of, or None
  Fragile,        \* the operations whose rebuild storage may cut short
  Policies,       \* what the client may be allowed to read: None or a set
  MaxCommits, MaxWrites, MaxPolicies, MaxFailures, MaxLapses  \* bounds

ASSUME LocalStoreAssumption ==
  /\ Keys \subseteq Nat /\ IsFiniteSet(Keys)
  /\ \A m \in Mutations : KeyOf[m] \in Keys /\ m \in DOMAIN NameOf
  /\ Other \notin Mutations
  /\ {PageSize, SubmitBatch, ReplayBatch, MaximumPending} \subseteq Nat \ {0}
  /\ RetainedReceipts \in Nat /\ RetainedMutationIds \in Nat
  /\ Listens \in {NameOf[m] : m \in Mutations} \cup {None}
  /\ RetainedReceipts < MaximumReceipts /\ MaximumPending <= MaximumReceipts
  /\ Fragile \subseteq {"install", "revoke", "resume"}
  /\ \A p \in Policies \ {None} : p \subseteq Keys

VARIABLES
  \* the server
  entities,       \* authoritative entities
  head,           \* the last server sequence
  decided,        \* the client's decisions, by local sequence
  lapsed,         \* how far receipts are pruned, behind which snapshot
  readable,       \* the entities the client may read
  \* the client's database
  canonical,      \* canonical entities
  retracted,      \* retraction fences
  visible,        \* the active projection generation
  rebuild,        \* the projection generation being built, and how far
  dirty,          \* entities whose visible state is to be recomputed
  pending,        \* pending mutations, in local order
  receipts,       \* receipts retained
  retired,        \* identities of mutations whose receipts were pruned
  marks,          \* settlement prune marks, by name and for all of them
  nextLocal,      \* next_local_sequence
  serverCursor,   \* server_cursor
  installed,      \* the snapshot installed last
  view,           \* a replication view is installed
  due,            \* a reconciliation is requested and not completed
  \* the running process
  gate,           \* the operation in the projection gate
  turn,           \* the synchronization pass
  again,          \* a reconciliation was requested since the pass began
  \* the application
  committed,      \* history: the mutations whose handler ran and committed
  settlements,    \* history: the settlements recorded, in order
  reader,         \* the sequence the application has read settlements up to
  missed,         \* history: a settlement was passed over in silence
  fault,          \* the protocol or capacity error that stopped the space
  fencedAt,       \* history: the next local sequence when each fence was left
  spent           \* history: writes, policies, failures and lapses so far

serverVars == <<entities, head, decided, lapsed, readable>>
projectionVars == <<visible, rebuild, dirty>>
viewVars == <<canonical, retracted, fencedAt, serverCursor, installed, view>>
receiptVars == <<receipts, retired, marks>>
appVars == <<reader, missed>>
vars == <<serverVars, projectionVars, viewVars, receiptVars, appVars, pending,
          nextLocal, due, gate, turn, again, committed, settlements, fault, spent>>

Lowest(S, n) == {x \in S : Cardinality({y \in S : y < x}) < n}
Larger(a, b) == IF a < b THEN b ELSE a
Lesser(a, b) == IF a < b THEN a ELSE b
First(s, n) == SubSeq(s, 1, Lesser(n, Len(s)))

Nothing == [k \in Keys |-> {}]
Contents == [Keys -> SUBSET (Mutations \cup {Other})]

\* A projection generation being built, and an installed snapshot
Generations == [content : Contents, at : {"clean", "canonical", "pending"}, after : Nat]
Snapshots == [sequence : Nat, terminal : Nat]

ASSUME NoneAssumption == None \notin Generations /\ None \notin Snapshots

(***************************************************************************)
(* Handlers.                                                               *)
(***************************************************************************)
Refuses(m, content) == m \in Strict /\ content[KeyOf[m]] = {}

Run(m, content) ==
  IF Refuses(m, content) THEN content
  ELSE [content EXCEPT ![KeyOf[m]] = @ \cup {m}]

Writes(m, content) == IF Refuses(m, content) THEN {} ELSE {KeyOf[m]}

(***************************************************************************)
(* Receipts.  A mutation is ready when its receipt is known and what it    *)
(* stands for is in the canonical entities.                                *)
(***************************************************************************)
\* Plausible bug: an accepted mutation is ready before its page has arrived
ReadyWithReceipt(r) == r.tag = "Expired" => installed # None

TerminallyReady(r) ==
  \/ r.tag = "Rejected"
  \/ r.tag = "Accepted" /\ r.at <= serverCursor
  \/ /\ r.tag = "Expired" /\ installed # None
     /\ r.at <= installed.sequence /\ r.through <= installed.terminal

ReceiptsOf(m) == {r \in receipts : r.id = m}
Ready(p) == \E r \in ReceiptsOf(p.id) : TerminallyReady(r)
PendingIds == {p.id : p \in ToSet(pending)}
ReadyIds == {p.id : p \in {q \in ToSet(pending) : Ready(q)}}

(***************************************************************************)
(* Replay of pending mutations over a content.  Stages(rows, content)[i]   *)
(* is the content after the first i rows; a ready row is passed over and a *)
(* refused one leaves no changes.                                          *)
(***************************************************************************)
\* Plausible bug: replay writes through a fence
Unfenced(content) == content

Unretracted(content) == [k \in Keys |-> IF k \in retracted THEN {} ELSE content[k]]

Stages(rows, content) ==
  LET stage[i \in 0 .. Len(rows)] ==
        IF i = 0 THEN content
        ELSE IF Ready(rows[i]) THEN stage[i - 1]
        ELSE Run(rows[i].id, stage[i - 1])
  IN stage

Replayed(rows, content) == Stages(rows, content)[Len(rows)]

\* The rows with the changes their replay made
Rewritten(rows, content) ==
  [i \in DOMAIN rows |->
     IF Ready(rows[i]) THEN rows[i]
     ELSE [rows[i] EXCEPT !.writes = Writes(rows[i].id, Stages(rows, content)[i - 1])]]

Written(rows) == UNION {p.writes : p \in ToSet(rows)}

\* the rows of these mutations, in order
Selected(rows, ids) ==
  LET selected[i \in 0 .. Len(rows)] ==
        IF i = 0 THEN <<>>
        ELSE IF rows[i].id \in ids THEN Append(selected[i - 1], rows[i])
        ELSE selected[i - 1]
  IN selected[Len(rows)]

(***************************************************************************)
(* applyProjectionDeltaInGate: recompute the dirty entities and those the  *)
(* pending mutations change.  projectionMatchesReplay finds that nothing   *)
(* needs to be recomputed.                                                 *)
(***************************************************************************)
MatchesReplay ==
  /\ \A i, j \in DOMAIN pending : i < j /\ Ready(pending[j]) => Ready(pending[i])
  /\ \A p \in ToSet(pending) : \A k \in p.writes : Ready(p) <=> k \in dirty
  /\ \A p \in ToSet(pending) : ~ Ready(p) => p.writes \cap retracted = {}
  /\ \A k \in dirty : visible[k] = Unretracted(canonical)[k]

Reset ==
  LET touched == dirty \cup Written(pending)
  IN [k \in Keys |-> IF k \in touched THEN Unretracted(canonical)[k] ELSE visible[k]]

ApplyDelta ==
  /\ IF MatchesReplay
       THEN UNCHANGED <<visible, pending>>
       ELSE LET rows == Rewritten(pending, Reset)
                touched == dirty \cup Written(pending) \cup Written(rows)
                content == Replayed(pending, Reset)
            IN /\ visible' = [k \in Keys |->
                                IF k \in touched THEN Unretracted(content)[k] ELSE content[k]]
               /\ pending' = rows
  /\ dirty' = {}
  /\ UNCHANGED rebuild

(***************************************************************************)
(* rebuildProjection: clean the target generation, copy the canonical      *)
(* entities, replay the pending mutations, promote; each in batches.       *)
(***************************************************************************)
Cleaning == [content |-> Nothing, at |-> "clean", after |-> 0]

\* requestProjectionReplay keeps a rebuild that is under way
Requested == IF rebuild = None THEN Cleaning ELSE rebuild

Uncopied == {k \in Keys : /\ Unretracted(canonical)[k] # {}
                          /\ rebuild.content[k] = {}}

Rows == {i \in DOMAIN pending : pending[i].local > rebuild.after}

CleanTarget ==
  /\ rebuild.at = "clean"
  /\ rebuild' = [rebuild EXCEPT !.content = Nothing, !.at = "canonical"]
  /\ UNCHANGED <<visible, dirty, pending>>

CopyCanonical ==
  /\ rebuild.at = "canonical"
  /\ LET batch == Lowest(Uncopied, ReplayBatch)
     IN rebuild' =
          IF batch = {} THEN [rebuild EXCEPT !.at = "pending"]
          ELSE [rebuild EXCEPT !.content =
                  [k \in Keys |-> IF k \in batch THEN canonical[k] ELSE @[k]]]
  /\ UNCHANGED <<visible, dirty, pending>>

ReplayPending ==
  /\ rebuild.at = "pending" /\ Rows # {}
  /\ LET from == CHOOSE i \in Rows : \A j \in Rows : i <= j
         to == Lesser(from + ReplayBatch - 1, Len(pending))
         batch == SubSeq(pending, from, to)
         rows == Rewritten(batch, rebuild.content)
     IN /\ pending' = [i \in DOMAIN pending |->
                         IF i \in from .. to THEN rows[i - from + 1] ELSE pending[i]]
        /\ dirty' = dirty \cup Written(batch) \cup Written(rows)
        /\ rebuild' = [rebuild EXCEPT
             !.content = Unretracted(Replayed(batch, rebuild.content)),
             !.after = pending[to].local]
  /\ UNCHANGED visible

Promote ==
  /\ rebuild.at = "pending" /\ Rows = {}
  /\ visible' = rebuild.content
  /\ rebuild' = None
  /\ dirty' = {}
  /\ UNCHANGED pending

RebuildStep ==
  /\ rebuild # None
  /\ CleanTarget \/ CopyCanonical \/ ReplayPending \/ Promote

(***************************************************************************)
(* pruneReceipts: settled receipts beyond the number retained leave, the   *)
(* earliest first; their identities stay known for a while and the marks   *)
(* tell readers.                                                           *)
(***************************************************************************)
Settled == {r \in receipts : r.settled > 0}
Excess == Larger(0, Cardinality(receipts) - RetainedReceipts)
Prunable == {r \in Settled :
               Cardinality({q \in Settled : q.settled < r.settled}) < Excess}

Highest(S, least) == CHOOSE n \in S \cup {least} : \A x \in S \cup {least} : x <= n

\* Plausible bugs: the identity of a pruned mutation is forgotten; only the
\* mark for all names is moved
RetireNothing(gone) == retired
MarkEveryName(gone) ==
  [marks EXCEPT ![None] = Highest({r.settled : r \in gone}, @)]

Retire(gone) ==
  {x \in retired \cup {[id |-> r.id, local |-> r.local] : r \in gone} :
     x.local >= nextLocal - RetainedMutationIds}

Mark(gone) ==
  [n \in DOMAIN marks |->
     Highest({r.settled : r \in {q \in gone : n \in {None, NameOf[q.id]}}}, marks[n])]

PruneThen(added) ==
  /\ receipts' = (receipts \ Prunable) \cup added
  /\ retired' = Retire(Prunable)
  /\ marks' = Mark(Prunable)

(***************************************************************************)
(* The projection gate.  It is held over several transactions by a page,   *)
(* a settlement, a snapshot, a revocation and a resumed rebuild; a commit  *)
(* is one transaction of it.                                               *)
(***************************************************************************)
Free == [op |-> "free", at |-> "none", settling |-> {}]
Holding(op, at, settling) == [op |-> op, at |-> at, settling |-> settling]

Idle == [at |-> "idle", pass |-> 1, page |-> None, after |-> 0,
         through |-> None, batch |-> <<>>, answers |-> <<>>, expired |-> {}]
TurnAt(where) == [turn EXCEPT !.at = where, !.page = None]
Claiming == [Idle EXCEPT !.at = "claim"]

Halt(why) == fault' = why /\ turn' = Idle

\* Plausible bug: a request made during the pass is taken as served
CompletesAll == turn' = Idle /\ due' = FALSE

\* onReconciled: the requests made before the pass began are served
CompletePass == turn' = Idle /\ due' = again
AfterCatchUp ==
  IF turn.pass = 1 THEN turn' = Claiming /\ UNCHANGED due ELSE CompletePass

\* What the pass does when its operation leaves the gate
Leave ==
  /\ gate' = Free
  /\ CASE gate.op = "page" -> AfterCatchUp
       [] gate.op = "settle" /\ turn.at = "settle" ->
            turn' = [Idle EXCEPT !.at = "pull", !.pass = 2] /\ UNCHANGED due
       [] gate.op = "settle" /\ turn.at = "settleExpired" ->
            turn' = TurnAt("expired") /\ UNCHANGED due
       [] gate.op = "install" /\ turn.at = "install" ->
            turn' = TurnAt("pull") /\ UNCHANGED due
       [] gate.op = "install" /\ turn.at = "installExpired" ->
            turn' = Claiming /\ UNCHANGED due
       [] gate.op = "revoke" -> CompletePass
       [] gate.op = "failing" -> turn' = Idle /\ UNCHANGED due
       [] OTHER -> UNCHANGED <<turn, due>>

\* deleteSettledPending: the mutations leave and their settlements are numbered
Deleted == Selected(pending, gate.settling)
Tag(m) == (CHOOSE r \in ReceiptsOf(m) : TRUE).tag

Number(m) == Len(settlements) + (CHOOSE i \in DOMAIN Deleted : Deleted[i].id = m)

DeleteSettled ==
  /\ gate.at = "delete"
  /\ pending' = Selected(pending, Mutations \ gate.settling)
  /\ settlements' = settlements \o
       [i \in DOMAIN Deleted |->
          [id |-> Deleted[i].id, local |-> Deleted[i].local, tag |-> Tag(Deleted[i].id)]]
  /\ receipts' = {IF r.id \in {p.id : p \in ToSet(Deleted)}
                    THEN [r EXCEPT !.settled = Number(r.id)] ELSE r : r \in receipts}
  /\ Leave
  /\ UNCHANGED <<serverVars, projectionVars, viewVars, appVars, retired, marks,
                 nextLocal, again, committed, fault, spent>>

\* prepareSettlements: collect what is ready and mark what it wrote
Prepare(op) ==
  LET ready == ReadyIds
      touched == Written(Selected(pending, ready))
  IN /\ dirty' = dirty \cup touched
     /\ PruneThen({})
     /\ gate' = Holding(op, IF op = "page" \/ touched # {} THEN "project" ELSE "delete", ready)
     /\ UNCHANGED <<visible, rebuild, pending>>

PreparePage ==
  /\ gate.op = "page" /\ gate.at = "prepare"
  /\ Prepare("page")
  /\ UNCHANGED <<serverVars, viewVars, appVars, nextLocal, due, turn, again,
                 committed, settlements, fault, spent>>

SettleReceipts ==
  /\ gate = Free /\ rebuild = None
  /\ turn.at \in {"settle", "settleExpired"}
  /\ Prepare("settle")
  /\ UNCHANGED <<serverVars, viewVars, appVars, nextLocal, due, turn, again,
                 committed, settlements, fault, spent>>

\* projectSettlements, or the rebuild that a snapshot or a revocation asks for
Project ==
  /\ gate.at = "project"
  /\ IF rebuild = None
       THEN /\ ApplyDelta
            /\ gate' = [gate EXCEPT !.at = "delete"]
       ELSE /\ RebuildStep
            /\ gate' = IF rebuild' = None THEN [gate EXCEPT !.at = "delete"] ELSE gate
  /\ UNCHANGED <<serverVars, viewVars, receiptVars, appVars, nextLocal, due, turn,
                 again, committed, settlements, fault, spent>>

\* rebuildProjectionDeferred, first in every operation that needs the
\* projection whole
ResumeRebuild ==
  /\ gate = Free /\ rebuild # None
  /\ gate' = Holding("resume", "project", {})
  /\ UNCHANGED <<serverVars, projectionVars, viewVars, receiptVars, appVars, pending,
                 nextLocal, due, turn, again, committed, settlements, fault, spent>>

(***************************************************************************)
(* mutate, through the commit queue.                                       *)
(***************************************************************************)
Recorded(m) ==
  \/ m \in PendingIds
  \/ ReceiptsOf(m) # {}
  \/ \E x \in retired : x.id = m

\* Identities whose repetition the store promises to notice
Remembered(m) ==
  \E i \in DOMAIN committed :
    committed[i] = m /\ i >= nextLocal - RetainedMutationIds

\* mutateInTransaction
Mutate(m) ==
  /\ gate = Free /\ rebuild = None
  /\ nextLocal <= MaxCommits
  /\ m \in ToSet(committed) => Remembered(m)
  /\ ~ Recorded(m)
  /\ Len(pending) < MaximumPending
  /\ ~ Refuses(m, visible)
  /\ visible' = Run(m, visible)
  /\ pending' = Append(pending, [id |-> m, local |-> nextLocal, state |-> "Queued",
                                 writes |-> Writes(m, visible)])
  /\ nextLocal' = nextLocal + 1
  /\ committed' = Append(committed, m)
  /\ due' = TRUE /\ again' = TRUE
  /\ UNCHANGED <<serverVars, viewVars, receiptVars, appVars, rebuild, dirty, gate,
                 turn, settlements, fault, spent>>

(***************************************************************************)
(* catchUp.                                                                *)
(***************************************************************************)
Begin ==
  /\ turn.at = "idle" /\ due /\ fault = None /\ gate.op # "restore"
  /\ turn' = [Idle EXCEPT !.at = "pull"]
  /\ again' = FALSE
  /\ UNCHANGED <<serverVars, projectionVars, viewVars, receiptVars, appVars, pending,
                 nextLocal, due, gate, committed, settlements, fault, spent>>

Reads(k) == readable # None /\ k \in readable
Sees == [k \in Keys |-> IF Reads(k) THEN entities[k] ELSE {}]
Differing == {k \in Keys : canonical[k] # Sees[k]}

Page ==
  LET changed == Lowest(Differing, PageSize)
  IN [changed |-> changed, content |-> Sees, sequence |-> head,
      revoked |-> {k \in changed : entities[k] # {} /\ ~ Reads(k)},
      more |-> changed # Differing]

Manifest == [content |-> Sees, sequence |-> head, terminal |-> Len(decided)]

Pull ==
  /\ turn.at = "pull"
  /\ turn' = IF readable = None THEN TurnAt("revoke")
             ELSE IF view THEN [turn EXCEPT !.at = "page", !.page = Page]
             ELSE [turn EXCEPT !.at = "install", !.page = Manifest]
  /\ UNCHANGED <<serverVars, projectionVars, viewVars, receiptVars, appVars, pending,
                 nextLocal, due, gate, again, committed, settlements, fault, spent>>

Fence(fences) ==
  /\ retracted' = fences
  /\ fencedAt' = [k \in Keys |-> IF k \in fences \ retracted THEN nextLocal ELSE fencedAt[k]]

\* applyViewPage: the changes, and the watermark with the last page
ApplyViewPage ==
  /\ gate = Free /\ turn.at = "page"
  /\ LET p == turn.page
     IN IF ~ p.more /\ p.sequence < serverCursor
          THEN /\ Halt("ProtocolInvalid")
               /\ UNCHANGED <<viewVars, projectionVars, gate>>
          ELSE /\ canonical' = [k \in Keys |-> IF k \in p.changed THEN p.content[k]
                                               ELSE canonical[k]]
               /\ Fence((retracted \ p.changed) \cup p.revoked)
               /\ dirty' = dirty \cup p.changed
               /\ serverCursor' = IF p.more THEN serverCursor ELSE p.sequence
               /\ gate' = IF p.more THEN Free ELSE Holding("page", "prepare", {})
               /\ turn' = IF p.more THEN TurnAt("pull") ELSE turn
               /\ UNCHANGED <<installed, view, visible, rebuild, fault>>
  /\ UNCHANGED <<serverVars, receiptVars, appVars, pending, nextLocal, due, again,
                 committed, settlements, spent>>

\* Entities held before and absent from the snapshot are fenced off
Fences(m) == {k \in Keys : canonical[k] # {} /\ m.content[k] = {}}

\* installBootstrapInGate
Covered(m, r) ==
  \/ r.tag = "Accepted" /\ r.at <= m.sequence
  \/ r.tag = "Rejected" /\ r.local <= m.terminal
  \/ r.tag = "Expired" /\ r.at <= m.sequence /\ r.through <= m.terminal

InstallBootstrap ==
  /\ gate = Free /\ rebuild = None
  /\ turn.at \in {"install", "installExpired"}
  /\ LET m == turn.page
         present == {k \in Keys : m.content[k] # {}}
     IN IF m.sequence < serverCursor
          THEN /\ Halt("ProtocolInvalid")
               /\ UNCHANGED <<viewVars, projectionVars, receiptVars, gate>>
          ELSE /\ canonical' = m.content
               /\ Fence((retracted \cup Fences(m)) \ present)
               /\ serverCursor' = m.sequence
               /\ installed' = [sequence |-> m.sequence, terminal |-> m.terminal]
               /\ view' = TRUE
               /\ dirty' = dirty \cup present
                             \cup {k \in Keys : canonical[k] # {} \/ visible[k] # {}}
               /\ rebuild' = Requested
               /\ gate' = Holding("install", "project",
                            {p.id : p \in {q \in ToSet(pending) :
                                             \E r \in ReceiptsOf(q.id) : Covered(m, r)}})
               /\ PruneThen({})
               /\ UNCHANGED <<visible, turn, fault>>
  /\ UNCHANGED <<serverVars, appVars, pending, nextLocal, due, again, committed,
                 settlements, spent>>

FencedByRevocation == {k \in Keys : canonical[k] # {} \/ visible[k] # {}}

RevokeReplication ==
  /\ gate = Free /\ turn.at = "revoke"
  /\ Fence(retracted \cup FencedByRevocation)
  /\ canonical' = Nothing
  /\ view' = FALSE
  /\ dirty' = dirty \cup FencedByRevocation
  /\ rebuild' = Requested
  /\ gate' = Holding("revoke", "project", {})
  /\ UNCHANGED <<serverVars, receiptVars, appVars, visible, pending, nextLocal, due,
                 serverCursor, installed, turn, again, committed, settlements, fault, spent>>

(***************************************************************************)
(* submitPending.                                                          *)
(***************************************************************************)
Marked(ids, from, to) ==
  [i \in DOMAIN pending |->
     IF pending[i].id \in ids /\ pending[i].state \in from
       THEN [pending[i] EXCEPT !.state = to] ELSE pending[i]]

States == {"Queued", "Submitting", "Retrying", "Submitted"}

Claimable(through) ==
  Selected(pending, {p.id : p \in {q \in ToSet(pending) : q.local \in turn.after + 1 .. through}})

\* claimSubmitBatch: what is pending when the pass comes to submit, in batches
ClaimSubmitBatch ==
  /\ turn.at = "claim"
  /\ LET through == IF turn.through # None THEN turn.through
                    ELSE IF pending = <<>> THEN turn.after ELSE pending[Len(pending)].local
         batch == First(Claimable(through), SubmitBatch)
     IN IF batch = <<>>
          THEN turn' = TurnAt("settle") /\ UNCHANGED pending
          ELSE /\ turn' = [turn EXCEPT !.at = "wire", !.through = through,
                                       !.batch = batch, !.answers = <<>>]
               /\ pending' = Marked({p.id : p \in ToSet(batch)}, States, "Submitting")
  /\ UNCHANGED <<serverVars, projectionVars, viewVars, receiptVars, appVars,
                 nextLocal, due, gate, again, committed, settlements, fault, spent>>

Receipt(p, tag, at, through) ==
  [id |-> p.id, local |-> p.local, tag |-> tag, at |-> at, through |-> through]

\* The server answers the next envelope of the batch (submitBatch, admit)
ServerAnswers ==
  /\ turn.at = "wire" /\ Len(turn.answers) < Len(turn.batch)
  /\ LET p == turn.batch[Len(turn.answers) + 1]
         Answer(r) == turn' = [turn EXCEPT !.answers = Append(@, r)]
         rejected == p.id \in Denied \/ Refuses(p.id, entities)
     IN \/ /\ p.local = Len(decided) + 1
           /\ IF rejected
                THEN /\ decided' = Append(decided, [id |-> p.id, tag |-> "Rejected", at |-> 0])
                     /\ Answer(Receipt(p, "Rejected", 0, 0))
                     /\ UNCHANGED <<entities, head>>
                ELSE /\ entities' = Run(p.id, entities)
                     /\ head' = head + 1
                     /\ decided' = Append(decided,
                                     [id |-> p.id, tag |-> "Accepted", at |-> head + 1])
                     /\ Answer(Receipt(p, "Accepted", head + 1, 0))
           /\ UNCHANGED fault
        \/ /\ p.local <= lapsed.through
           /\ Answer(Receipt(p, "Expired", lapsed.sequence, lapsed.through))
           /\ UNCHANGED <<entities, head, decided, fault>>
        \/ /\ p.local \in lapsed.through + 1 .. Len(decided)
           /\ decided[p.local].id = p.id
           /\ Answer(Receipt(p, decided[p.local].tag, decided[p.local].at, 0))
           /\ UNCHANGED <<entities, head, decided, fault>>
        \/ /\ \/ p.local > Len(decided) + 1
              \/ p.local \in lapsed.through + 1 .. Len(decided) /\ decided[p.local].id # p.id
           /\ Halt("OutOfOrderMutation")
           /\ UNCHANGED <<entities, head, decided>>
  /\ UNCHANGED <<lapsed, readable, projectionVars, viewVars, receiptVars, appVars, pending,
                 nextLocal, due, gate, again, committed, settlements, spent>>

\* The answers arrive, all of them or, when the server was cut short, a prefix
ReceiveAnswers ==
  /\ turn.at = "wire" /\ turn.answers # <<>>
  /\ \/ Len(turn.answers) = Len(turn.batch) /\ UNCHANGED spent
     \/ /\ Len(turn.answers) < Len(turn.batch)
        /\ spent.failures < MaxFailures
        /\ spent' = [spent EXCEPT !.failures = @ + 1]
  /\ turn' = [turn EXCEPT !.at = "receipts"]
  /\ UNCHANGED <<serverVars, projectionVars, viewVars, receiptVars, appVars, pending,
                 nextLocal, due, gate, again, committed, settlements, fault>>

MarksRetrying == Marked({p.id : p \in ToSet(turn.batch)}, {"Submitting"}, "Retrying")

\* The reply is lost: markRetrying, and the pass is tried again
LoseAnswers ==
  /\ turn.at = "wire"
  /\ spent.failures < MaxFailures
  /\ spent' = [spent EXCEPT !.failures = @ + 1]
  /\ pending' = MarksRetrying
  /\ turn' = Idle
  /\ UNCHANGED <<serverVars, projectionVars, viewVars, receiptVars, appVars,
                 nextLocal, due, gate, again, committed, settlements, fault>>

Same(stored, r) ==
  \/ stored.tag = r.tag /\ stored.at = r.at /\ stored.through = r.through
  \/ r.tag = "Expired"

Kept(r) == [id |-> r.id, local |-> r.local, tag |-> r.tag, at |-> r.at,
            through |-> r.through, settled |-> 0]

\* persistReceiptInTransaction
PersistReceipt ==
  /\ turn.at = "receipts" /\ turn.answers # <<>>
  /\ LET r == Head(turn.answers)
         submitted == Marked({r.id}, States, "Submitted")
         answered == [turn EXCEPT !.answers = Tail(@), !.after = r.local,
                        !.expired = IF r.tag = "Expired" THEN @ \cup {r} ELSE @]
     IN \/ /\ ReceiptsOf(r.id) # {}
           /\ \A stored \in ReceiptsOf(r.id) : Same(stored, r)
           /\ turn' = answered /\ pending' = submitted
           /\ UNCHANGED <<receiptVars, fault>>
        \/ /\ ReceiptsOf(r.id) = {} /\ r.id \in PendingIds
           /\ Cardinality(receipts \ Prunable) < MaximumReceipts
           /\ PruneThen({Kept(r)})
           /\ turn' = answered /\ pending' = submitted
           /\ UNCHANGED fault
        \/ /\ \/ \E stored \in ReceiptsOf(r.id) : ~ Same(stored, r)
              \/ ReceiptsOf(r.id) = {} /\ r.id \notin PendingIds
              \/ ReceiptsOf(r.id) = {} /\ Cardinality(receipts \ Prunable) >= MaximumReceipts
           /\ Halt("ReceiptNotPersisted")
           /\ pending' = MarksRetrying
           /\ UNCHANGED receiptVars
  /\ UNCHANGED <<serverVars, projectionVars, viewVars, appVars, nextLocal, due,
                 gate, again, committed, settlements, spent>>

\* The rest of the batch is retried; expired receipts are looked into
ReceiptsPersisted ==
  /\ turn.at = "receipts" /\ turn.answers = <<>>
  /\ pending' = MarksRetrying
  /\ turn' = [TurnAt(IF turn.expired = {} THEN "claim" ELSE "settleExpired")
                EXCEPT !.batch = <<>>]
  /\ UNCHANGED <<serverVars, projectionVars, viewVars, receiptVars, appVars,
                 nextLocal, due, gate, again, committed, settlements, fault, spent>>

\* bootstrapExpired, unless every expired mutation has settled meanwhile
RecoverExpired ==
  /\ turn.at = "expired"
  /\ LET unresolved == {r \in turn.expired : r.id \in PendingIds}
     IN \/ /\ unresolved = {}
           /\ turn' = [TurnAt("claim") EXCEPT !.expired = {}]
           /\ UNCHANGED fault
        \/ /\ unresolved # {} /\ readable = None
           /\ turn' = [TurnAt("revoke") EXCEPT !.expired = {}]
           /\ UNCHANGED fault
        \/ /\ unresolved # {} /\ readable # None
           /\ LET r == CHOOSE x \in unresolved : \A y \in unresolved : x.local <= y.local
              IN IF view /\ r.at <= Manifest.sequence /\ r.through <= Manifest.terminal
                   THEN /\ turn' = [turn EXCEPT !.at = "installExpired", !.page = Manifest,
                                                !.expired = {}]
                        /\ UNCHANGED fault
                   ELSE Halt("ProtocolInvalid")
  /\ UNCHANGED <<serverVars, projectionVars, viewVars, receiptVars, appVars, pending,
                 nextLocal, due, gate, again, committed, settlements, spent>>

(***************************************************************************)
(* The application reads settlements.  What it acknowledges (the floor)    *)
(* precedes what it does not, so pruning takes the earliest either way.    *)
(***************************************************************************)
Heard(r) == Listens \in {None, NameOf[r.id]}
Available == {r \in Settled : r.settled > reader /\ Heard(r)}

ReadSettlements ==
  /\ \/ /\ reader < marks[Listens]      \* SettlementReplayTruncated
        /\ reader' = marks[Listens]
        /\ UNCHANGED missed
     \/ /\ reader >= marks[Listens] /\ Available # {}
        /\ reader' = Highest({r.settled : r \in Available}, 0)
        /\ missed' = (missed \/ \E i \in reader + 1 .. reader' :
                        /\ Listens \in {None, NameOf[settlements[i].id]}
                        /\ \A r \in Available : r.settled # i)
  /\ UNCHANGED <<serverVars, projectionVars, viewVars, receiptVars, pending,
                 nextLocal, due, gate, turn, again, committed, settlements, fault, spent>>

(***************************************************************************)
(* Faults: a storage error ends the operation that meets it, a crash ends  *)
(* them all.  A page whose settlements cannot be collected is projected    *)
(* all the same before the error is reported.                              *)
(***************************************************************************)
MayFail == gate.at = "project" /\ rebuild # None => gate.op \in Fragile

StorageFails ==
  /\ gate.op \notin {"free", "restore", "failing"} /\ MayFail
  /\ spent.failures < MaxFailures
  /\ spent' = [spent EXCEPT !.failures = @ + 1]
  /\ IF gate.at = "prepare"
       THEN gate' = Holding("failing", "project", {}) /\ UNCHANGED turn
       ELSE /\ gate' = Free
            /\ turn' = IF gate.op = "resume" THEN turn ELSE Idle
  /\ UNCHANGED <<serverVars, projectionVars, viewVars, receiptVars, appVars, pending,
                 nextLocal, due, again, committed, settlements, fault>>

\* restoreProjection rebuilds when something was left dirty
RestoredProjection == IF dirty # {} THEN Requested ELSE rebuild

Crash ==
  /\ spent.failures < MaxFailures
  /\ spent' = [spent EXCEPT !.failures = @ + 1]
  /\ pending' = Marked(PendingIds, {"Submitting"}, "Retrying")
  /\ rebuild' = RestoredProjection
  /\ gate' = IF rebuild' = None THEN Free ELSE Holding("restore", "project", {})
  /\ turn' = Idle
  /\ UNCHANGED <<serverVars, visible, dirty, viewVars, receiptVars, appVars, nextLocal,
                 due, again, committed, settlements, fault>>

(***************************************************************************)
(* The server's other clients, its policy and its receipt retention.       *)
(***************************************************************************)
Wake == due' = TRUE /\ again' = TRUE

ClientUnchanged ==
  UNCHANGED <<projectionVars, viewVars, receiptVars, appVars, pending, nextLocal,
              gate, turn, committed, settlements, fault>>

OtherWrites(k, content) ==
  /\ spent.writes < MaxWrites
  /\ content # entities[k]
  /\ entities' = [entities EXCEPT ![k] = content]
  /\ head' = head + 1
  /\ spent' = [spent EXCEPT !.writes = @ + 1]
  /\ Wake /\ ClientUnchanged /\ UNCHANGED <<decided, lapsed, readable>>

SetPolicy(allowed) ==
  /\ spent.policies < MaxPolicies
  /\ allowed # readable
  /\ readable' = allowed
  /\ spent' = [spent EXCEPT !.policies = @ + 1]
  /\ Wake /\ ClientUnchanged /\ UNCHANGED <<entities, head, decided, lapsed>>

ReceiptsLapse ==
  /\ spent.lapses < MaxLapses
  /\ lapsed.through < Len(decided)
  /\ lapsed' = [through |-> Len(decided), sequence |-> head]
  /\ spent' = [spent EXCEPT !.lapses = @ + 1]
  /\ ClientUnchanged
  /\ UNCHANGED <<entities, head, decided, readable, due, again>>

(***************************************************************************)
(* The specification.                                                      *)
(***************************************************************************)
Init ==
  /\ entities = Nothing /\ head = 0 /\ decided = <<>>
  /\ lapsed = [through |-> 0, sequence |-> 0] /\ readable = Keys
  /\ canonical = Nothing /\ retracted = {} /\ visible = Nothing
  /\ rebuild = None /\ dirty = {}
  /\ pending = <<>> /\ receipts = {} /\ retired = {}
  /\ marks = [n \in {NameOf[m] : m \in Mutations} \cup {None} |-> 0]
  /\ nextLocal = 1 /\ fencedAt = [k \in Keys |-> 0]
  /\ serverCursor = 0 /\ installed = None /\ view = FALSE
  /\ due = TRUE /\ gate = Free /\ turn = Idle /\ again = FALSE
  /\ committed = <<>> /\ settlements = <<>>
  /\ reader = 0 /\ missed = FALSE /\ fault = None
  /\ spent = [writes |-> 0, policies |-> 0, failures |-> 0, lapses |-> 0]

GateStep == PreparePage \/ Project \/ DeleteSettled

PassStep ==
  \/ Begin \/ Pull \/ ApplyViewPage \/ InstallBootstrap \/ RevokeReplication
  \/ ClaimSubmitBatch \/ ReceiveAnswers \/ PersistReceipt \/ ReceiptsPersisted
  \/ RecoverExpired \/ SettleReceipts

Application ==
  \/ \E m \in Mutations : Mutate(m)
  \/ ReadSettlements

Environment ==
  \/ \E k \in Keys : OtherWrites(k, {}) \/ OtherWrites(k, entities[k] \cup {Other})
  \/ \E allowed \in Policies : SetPolicy(allowed)
  \/ ReceiptsLapse

Next ==
  \/ GateStep \/ ResumeRebuild \/ PassStep \/ ServerAnswers
  \/ Application \/ Environment
  \/ LoseAnswers \/ StorageFails \/ Crash

Spec == Init /\ [][Next]_vars

\* The process runs its fibers and the server answers
Fairness ==
  WF_vars(GateStep) /\ WF_vars(ResumeRebuild) /\ WF_vars(PassStep) /\ WF_vars(ServerAnswers)

FairSpec == Spec /\ Fairness

(***************************************************************************)
(* Properties.                                                             *)
(***************************************************************************)
Ids == Mutations
ReceiptRecords == [id : Ids, local : Nat, tag : {"Accepted", "Rejected", "Expired"},
                   at : Nat, through : Nat, settled : Nat]

(* Every variable of the client's database holds values of its type.       *)
TypeOK ==
  /\ canonical \in Contents /\ visible \in Contents /\ retracted \subseteq Keys
  /\ rebuild \in Generations \cup {None} /\ installed \in Snapshots \cup {None}
  /\ dirty \subseteq Keys
  /\ pending \in Seq([id : Ids, local : Nat, state : States, writes : SUBSET Keys])
  /\ receipts \subseteq ReceiptRecords /\ Cardinality(receipts) <= MaximumReceipts
  /\ \A r \in receipts : r.settled <= Len(settlements)
  /\ \A x \in retired : x.id \in Ids /\ x.local \in Nat
  /\ nextLocal \in Nat /\ serverCursor \in Nat
  /\ view \in BOOLEAN /\ due \in BOOLEAN /\ again \in BOOLEAN
  /\ gate.settling \subseteq Ids

\* No operation is under way and nothing is left to recompute or to settle
Quiet == gate = Free /\ rebuild = None /\ dirty = {} /\ ReadyIds = {}

(* What the application sees is the canonical entities overlaid with the   *)
(* pending mutations run in local order, whatever was recomputed in part,  *)
(* rebuilt in batches, skipped or cut short by a crash.  Of an entity the  *)
(* server withdrew nothing is seen but what the application has written    *)
(* since: neither what was canonical nor what was pending then comes back. *)
VisibleIsReplay ==
  Quiet =>
    /\ \A k \in Keys \ retracted :
         visible[k] = Replayed(pending, Unretracted(canonical))[k]
    /\ \A k \in retracted : \A m \in visible[k] :
         \E p \in ToSet(pending) : p.id = m /\ p.local >= fencedAt[k]

(* An optimistic write goes away only for a reason: the server rejected    *)
(* it; the entity is fenced off; what the server has shown, up to that     *)
(* write or later, does not have it; or its handler refuses what the       *)
(* server has made of the entity, and the row says so.  In particular it   *)
(* does not flicker when its receipt comes before the page that carries it.*)
DecidedAs(m, tag) == \E i \in DOMAIN decided : decided[i].id = m /\ decided[i].tag = tag

CaughtUp(m) ==
  \E i \in DOMAIN decided :
    decided[i].id = m /\ decided[i].tag = "Accepted" /\ decided[i].at <= serverCursor

Refused(m) == m \in Strict /\ \E p \in ToSet(pending) : p.id = m /\ p.writes = {}

WritesStay ==
  [][\A m \in Mutations :
       m \in visible[KeyOf[m]] /\ m \notin visible'[KeyOf[m]] =>
         \/ DecidedAs(m, "Rejected")
         \/ KeyOf[m] \in retracted'
         \/ CaughtUp(m) /\ m \notin canonical'[KeyOf[m]]
         \/ Refused(m)']_vars

(* A reader of settlements, of one name or of all, is given every one      *)
(* recorded after the position it reads from, or told that they are gone.  *)
NothingMissed == ~ missed

\* What the store promises, without transactions, receipts and projections
Outbox == INSTANCE MutationOutbox WITH
  Memory <- RetainedMutationIds,
  outcomes <- [i \in DOMAIN decided |-> [id |-> decided[i].id, tag |-> decided[i].tag]]

(* Mutations are committed once, decided in the order they were committed  *)
(* and reported once, with the server's decision.                          *)
ImplementsOutbox == Outbox!Spec

(* While the client is allowed to replicate, every pending mutation is     *)
(* settled in the end, whatever answers, operations or processes failed:   *)
(* the errors reserved for a peer that breaks the protocol, and the        *)
(* receipt capacity, which would stop the space for good, are never met.   *)
EverySettled ==
  <>[](readable # None) => \A m \in Mutations : m \in PendingIds ~> m \notin PendingIds
=============================================================================
