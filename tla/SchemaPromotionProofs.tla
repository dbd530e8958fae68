------------------------- MODULE SchemaPromotionProofs -------------------------
(***************************************************************************)
(* Proofs about ServerPromotion for any number of processes, versions,     *)
(* entities and clients and any size of batches, as long as no promotion   *)
(* ends while a process that saw the space in the middle of it has yet to  *)
(* decide whether to begin one; and about ClientPromotion for any          *)
(* releases, mutations, handlers, entities and batches.                    *)
(***************************************************************************)
EXTENDS ServerPromotion, ClientPromotion, WellFoundedInduction, FiniteSetTheorems, TLAPS

(***************************************************************************)
(* The least and the greatest of a set of naturals, and the batches taken  *)
(* from one.                                                               *)
(***************************************************************************)
\* The order of the naturals as a relation
Below == {pair \in Nat \X Nat : pair[1] < pair[2]}

LEMMA BelowIsWellFounded == IsWellFoundedOn(Below, Nat)
  BY NatLessThanWellFounded DEF OpToRel, Below

(* A set of naturals that is not empty has a least member.                 *)
LEMMA LeastExists ==
  ASSUME NEW S \in SUBSET Nat, S # {}
  PROVE  \E x \in S : \A y \in S : x <= y
<1>1. PICK x \in S : \A y \in S : ~ (<<y, x>> \in Below)
  BY BelowIsWellFounded, WFMin
<1>2. ASSUME NEW y \in S PROVE x <= y
  <2>1. x \in Nat /\ y \in Nat /\ ~ (<<y, x>> \in Below)
    BY <1>1
  <2> QED BY <2>1 DEF Below
<1> QED BY <1>2

(* A finite one has a greatest member: consider the least size of a subset *)
(* that has none.                                                          *)
LEMMA GreatestExists ==
  ASSUME NEW S \in SUBSET Nat, IsFiniteSet(S), S # {}
  PROVE  \E x \in S : \A y \in S : y <= x
<1> DEFINE Unbounded(A) == A # {} /\ \A x \in A : \E y \in A : x < y
           Sizes == {n \in Nat : \E A \in SUBSET S : Unbounded(A) /\ Cardinality(A) = n}
<1> SUFFICES ASSUME Unbounded(S) PROVE FALSE
  <2>1. S # {} /\ ~ Unbounded(S) => \E x \in S : \A y \in S : ~ (x < y)
    OBVIOUS
  <2> QED BY <2>1
<1>1. Cardinality(S) \in Sizes
  BY FS_CardinalityType
<1>2. PICK n \in Sizes : \A m \in Sizes : n <= m
  BY <1>1, LeastExists
<1>3. PICK A \in SUBSET S : Unbounded(A) /\ Cardinality(A) = n
  BY <1>2
<1>4. PICK x \in A : TRUE
  BY <1>3
<1> DEFINE B == A \ {x}
<1>5. IsFiniteSet(A)
  BY FS_Subset
<1>6. IsFiniteSet(B) /\ Cardinality(B) = n - 1 /\ Cardinality(B) \in Nat
  BY <1>3, <1>4, <1>5, FS_RemoveElement, FS_CardinalityType
<1>7. ~ Unbounded(B)
  <2> HIDE DEF Unbounded
  <2>1. B \in SUBSET S /\ n - 1 < n
    BY <1>3
  <2>2. ASSUME Unbounded(B) PROVE n - 1 \in Sizes
    BY <1>6, <2>1, <2>2
  <2> QED BY <1>2, <2>1, <2>2
<1>8. CASE B = {}
  BY <1>3, <1>4, <1>8
<1>9. CASE B # {}
  <2>1. PICK y \in B : \A z \in B : ~ (y < z)
    BY <1>7, <1>9
  <2>2. \A z \in A : z <= y \/ z = x
    BY <2>1
  <2>3. x \in Nat /\ y \in Nat
    BY <1>4
  <2>4. CASE x <= y
    BY <1>3, <2>1, <2>2, <2>4
  <2>5. CASE y < x
    <3>1. \A z \in A : z <= x
      BY <2>2, <2>3, <2>5
    <3> QED BY <1>3, <1>4, <3>1
  <2> QED BY <2>3, <2>4, <2>5
<1> QED BY <1>8, <1>9

(* The cursor a batch leaves is its greatest member.                       *)
LEMMA HighestIsGreatest ==
  ASSUME NEW S \in SUBSET Nat, IsFiniteSet(S), S # {}
  PROVE  Highest(S) \in S /\ \A y \in S : y <= Highest(S)
BY GreatestExists DEF Highest

\* A batch: the first members of S, none only when there are none
Prefix(batch, S) ==
  /\ batch \subseteq S
  /\ batch = {} => S = {}
  /\ \A x \in batch, y \in S : y <= x => y \in batch

(* The rows a statement with a LIMIT returns are a prefix of all.          *)
LEMMA LowestIsPrefix ==
  ASSUME NEW S \in SUBSET Nat, IsFiniteSet(S), NEW n \in Nat \ {0}
  PROVE  Prefix(Lowest(S, n), S)
<1> DEFINE UpTo(x) == {y \in S : y <= x}
<1>1. \A x \in S : IsFiniteSet(UpTo(x)) /\ Cardinality(UpTo(x)) \in Nat
  BY FS_Subset, FS_CardinalityType
<1>2. ASSUME S # {} PROVE Lowest(S, n) # {}
  <2>1. PICK x \in S : \A y \in S : x <= y
    BY <1>2, LeastExists
  <2>2. ASSUME NEW y \in S, y <= x PROVE y = x
    <3>1. x <= y
      BY <2>1
    <3>2. x \in Nat /\ y \in Nat
      OBVIOUS
    <3> QED BY <2>2, <3>1, <3>2
  <2>3. UpTo(x) = {x}
    BY <2>1, <2>2
  <2>4. Cardinality(UpTo(x)) = 1
    <3> HIDE DEF UpTo
    <3> QED BY <2>3, FS_Singleton
  <2>5. Cardinality(UpTo(x)) <= n
    BY <2>4
  <2> QED BY <2>1, <2>5 DEF Lowest
<1>3. ASSUME NEW x \in Lowest(S, n), NEW y \in S, y <= x PROVE y \in Lowest(S, n)
  <2>1. x \in S /\ Cardinality(UpTo(x)) <= n
    BY DEF Lowest
  <2>2. UpTo(y) \subseteq UpTo(x)
    <3>1. y \in Nat /\ x \in Nat
      BY <2>1
    <3>2. ASSUME NEW z \in S, z <= y PROVE z <= x
      <4>1. z \in Nat
        OBVIOUS
      <4> QED BY <1>3, <3>1, <3>2, <4>1
    <3> QED BY <3>2
  <2>3. Cardinality(UpTo(y)) <= Cardinality(UpTo(x))
    <3> HIDE DEF UpTo
    <3> QED BY <1>1, <2>1, <2>2, FS_Subset
  <2>4. Cardinality(UpTo(y)) <= n
    <3> HIDE DEF UpTo
    <3> QED BY <1>1, <1>3, <2>1, <2>3
  <2> QED BY <2>4 DEF Lowest
<1> QED BY <1>2, <1>3 DEF Prefix, Lowest

(***************************************************************************)
(* The inductive invariant.  First, what the tables hold.                  *)
(***************************************************************************)
Rows == [value : Values, schema : Nat]
RowsByKey == [Keys -> {Absent} \cup Rows]

DatabaseType ==
  /\ space \in Spaces /\ progress \in Progresses \cup {None}
  /\ entities \in [Generations -> RowsByKey]
  /\ log \in Seq(Keys)
  /\ scoped \in [Tables -> [Clients -> Nat]]

(* The space's row and its progress tell of the same promotion, from one   *)
(* generation to the next and from one schema to a later one.              *)
Agreement ==
  /\ space.schema \in Versions /\ space.target \in Versions \cup {None}
  /\ (progress = None) <=> (space.target = None)
  /\ progress = None => space.active = space.generation
  /\ progress # None =>
       /\ progress.generation = space.generation /\ progress.generation = progress.from + 1
       /\ progress.source = space.schema /\ progress.target = space.target
       /\ progress.source < progress.target
       /\ space.active = IF progress.phase \in BeforeFlip THEN progress.from
                         ELSE progress.generation

(* Each promotion goes to a later version: their number is bounded.        *)
Top == IF space.target = None THEN space.schema ELSE space.target
UpTo(v) == {w \in Versions : w <= v}
Bounded == space.generation < Cardinality(UpTo(Top))

(* What the next generation holds: nothing, the entities up to the cursor, *)
(* or every entity, migrated.                                              *)
Copy(k) == IF entities[progress.from][k] = Absent THEN Absent
           ELSE Migrated(entities[progress.from][k])

IsCopied(k) ==
  progress.phase = "Flip" \/ (progress.phase = "Entities" /\ k <= progress.after)

Copied ==
  (progress # None /\ progress.phase \in BeforeFlip) =>
    /\ \A k \in Keys :
         entities[progress.generation][k] = IF IsCopied(k) THEN Copy(k) ELSE Absent
    /\ progress.copied = Cardinality(Present(progress.generation))

Counted == space.count = Cardinality(Present(space.active))

(* Rows of a child table have their parents, those of an emptied table are *)
(* gone, and outside a promotion all are of the space's schema.            *)
Cleared(t, phase) ==
  \/ phase \in {"CleanupEntities", "Finalize"}
  \/ phase = "CleanupReplicationViews" /\ t # "views"
  \/ phase = "CleanupReplicationViewEntities" /\ t \notin {"views", "members"}
  \/ phase = "CleanupReplicationPages" /\ t \in {"entries", "snapshots"}
  \/ phase = "CleanupScopedSnapshots" /\ t = "entries"

Views ==
  /\ RowsOf("entries") \subseteq RowsOf("snapshots")
  /\ progress # None => \A t \in Tables : Cleared(t, progress.phase) => RowsOf(t) = {}
  /\ progress = None =>
       \A t \in Tables : \A c \in RowsOf(t) : scoped[t][c] = space.schema

Database == DatabaseType /\ Agreement /\ Bounded /\ Copied /\ Counted /\ Views

(***************************************************************************)
(* Then what request r of process p knows of them.                         *)
(***************************************************************************)
Steps == {"idle", "progress", "space", "begin", "begun", "state", "rows", "commit", "prepared"}

Requests == [at : Steps, saw : Spaces \cup Progresses \cup {None}, generation : Nat,
             batch : SUBSET Nat]

(* A process about to begin a promotion has seen the space as it is, if    *)
(* its promotion can begin at all.                                         *)
SeenSpace(p, seen) ==
  /\ seen \in Spaces
  /\ seen.schema < Version[p] /\ seen.schema \in Versions
  /\ seen.generation <= space.generation
  /\ seen.generation = space.generation =>
       IF seen.target = None
         THEN /\ space.target = None
              /\ space.schema = seen.schema /\ space.active = seen.active
         ELSE space.target # None

(* Progress only moves on: what a process has seen of it is in the past or *)
(* still the case, and then so are the rows it has read.                   *)
Rank(phase) == IF phase = "Log" THEN 1 ELSE IF phase = "Entities" THEN 2 ELSE 3

SeenProgress(seen) ==
  /\ seen \in Progresses
  /\ \/ seen.generation < space.generation
     \/ /\ seen.generation = space.generation
        /\ progress # None =>
             \/ Rank(seen.phase) < Rank(progress.phase)
             \/ /\ Rank(seen.phase) = Rank(progress.phase)
                /\ Rank(seen.phase) < 3 => seen.after <= progress.after

Ahead(seen, S) == {k \in S : k > seen.after}

Read(seen, batch) ==
  /\ seen.phase = "Log" => Prefix(batch, Ahead(seen, DOMAIN log))
  /\ seen.phase = "Entities" => Prefix(batch, Ahead(seen, Present(seen.from)))

Sound(p, r) ==
  /\ r \in Requests
  /\ r.at = "begin" => SeenSpace(p, r.saw)
  /\ r.at \in {"rows", "commit"} => SeenProgress(r.saw)
  /\ r.at = "rows" => r.saw.phase \in {"Log", "Entities"}
  /\ (r.at = "commit" /\ r.saw = progress) => Read(r.saw, r.batch)

Requesting == request \in [Processes -> Requests] /\ \A p \in Processes : Sound(p, request[p])

ServerInv == Database /\ Requesting

(***************************************************************************)
(* Lemmas about the state.                                                 *)
(***************************************************************************)
LEMMA VersionsAreNaturals ==
  /\ Versions \subseteq Nat \ {0} /\ IsFiniteSet(Versions) /\ Versions # {}
  /\ \A p \in Processes : Version[p] \in Versions
<1>1. IsFiniteSet(Versions)
  <2>1. Version \in Surjection(Processes, Versions)
    BY PromotionAssumption DEF Versions, Surjection
  <2> QED BY <2>1, PromotionAssumption, FS_Surjection
<1> QED BY <1>1, PromotionAssumption DEF Versions

(* The version a promotion is to is counted by UpTo.                       *)
LEMMA UpToGrows ==
  ASSUME NEW v \in Versions, NEW w \in Versions, v < w
  PROVE  /\ Cardinality(UpTo(v)) \in Nat /\ Cardinality(UpTo(w)) \in Nat
         /\ Cardinality(UpTo(v)) < Cardinality(UpTo(w))
         /\ Cardinality(UpTo(w)) <= Cardinality(Versions)
<1>1. UpTo(v) \subseteq Versions /\ UpTo(w) \subseteq Versions
  BY DEF UpTo
<1>2. UpTo(v) \subseteq UpTo(w) /\ w \in UpTo(w) /\ w \notin UpTo(v)
  <2>1. v \in Nat /\ w \in Nat /\ \A u \in Versions : u \in Nat
    BY VersionsAreNaturals
  <2>2. ASSUME NEW u \in Versions, u <= v PROVE u <= w
    <3>1. u \in Nat
      BY <2>1
    <3> QED BY <2>1, <2>2, <3>1
  <2>3. w <= w /\ ~ (w <= v)
    BY <2>1
  <2> QED BY <2>2, <2>3 DEF UpTo
<1>3. IsFiniteSet(UpTo(v)) /\ IsFiniteSet(UpTo(w))
  BY <1>1, VersionsAreNaturals, FS_Subset
<1>4. Cardinality(UpTo(v)) <= Cardinality(UpTo(w)) /\ Cardinality(UpTo(v)) # Cardinality(UpTo(w))
  BY <1>2, <1>3, FS_Subset
<1>5. Cardinality(UpTo(v)) \in Nat /\ Cardinality(UpTo(w)) \in Nat
  BY <1>3, FS_CardinalityType
<1> QED BY <1>1, <1>4, <1>5, VersionsAreNaturals, FS_Subset

LEMMA PresentIsFinite ==
  \A g : /\ IsFiniteSet(Present(g)) /\ Present(g) \in SUBSET (Nat \ {0})
         /\ Cardinality(Present(g)) \in Nat
<1> SUFFICES ASSUME NEW g PROVE IsFiniteSet(Present(g)) /\ Present(g) \subseteq Nat \ {0}
  BY FS_CardinalityType
<1> QED BY BatchesAssumption, FS_Subset DEF Present

(* Every generation a promotion writes is one there is room for.           *)
LEMMA RoomForGenerations ==
  ASSUME Database
  PROVE  /\ space.generation \in Generations /\ space.active \in Generations
         /\ progress # None =>
              /\ progress.generation \in Generations /\ progress.from \in Generations
              /\ progress.from # progress.generation
<1> USE DEF Database
<1>1. Top \in Versions
  BY DEF Agreement, Top
<1>2. IsFiniteSet(UpTo(Top)) /\ Cardinality(UpTo(Top)) <= Cardinality(Versions)
  BY VersionsAreNaturals, FS_Subset DEF UpTo
<1>3. Cardinality(UpTo(Top)) \in Nat /\ Cardinality(Versions) \in Nat
  BY <1>2, VersionsAreNaturals, FS_CardinalityType
<1>4. space.generation \in Nat /\ space.generation <= Cardinality(Versions)
  BY <1>2, <1>3 DEF Bounded, DatabaseType, Spaces
<1>5. progress # None => progress.from \in Nat /\ progress.generation \in Nat
  BY DEF DatabaseType, Progresses
<1> QED BY <1>3, <1>4, <1>5 DEF Agreement, Generations

(***************************************************************************)
(* Steps that change a request only.                                       *)
(***************************************************************************)
LEMMA DatabaseKept ==
  ASSUME Database, UNCHANGED database
  PROVE  Database'
<1> USE DEF database, Database
<1>1. DatabaseType'
  BY DEF DatabaseType
<1>2. Agreement'
  BY DEF Agreement
<1>3. Bounded'
  BY DEF Bounded, Top
<1>4. Copied' /\ Counted'
  BY DEF Copied, Counted, IsCopied, Copy, Migrated, Present
<1>5. Views'
  BY DEF Views, RowsOf
<1> QED BY <1>1, <1>2, <1>3, <1>4, <1>5

LEMMA SoundKept ==
  ASSUME NEW p \in Processes, NEW r, Sound(p, r), UNCHANGED database
  PROVE  Sound(p, r)'
BY DEF database, Sound, SeenSpace, SeenProgress, Read, Present

(* A request that knows nothing of the tables is sound whatever they hold. *)
LEMMA RestingIsSound ==
  ASSUME NEW p \in Processes, NEW r \in Requests, r.at \notin {"begin", "rows", "commit"}
  PROVE  Sound(p, r) /\ Sound(p, r)'
BY DEF Sound

LEMMA GotoKeeps ==
  ASSUME Requesting, NEW p \in Processes, NEW r, Goto(p, r), Sound(p, r)',
         \A q \in Processes, s \in Requests :
            s = request[q] /\ Sound(q, s) => Sound(q, s)'
  PROVE  Requesting'
<1>1. r \in Requests
  BY DEF Sound
<1>2. request' \in [Processes -> Requests]
  BY <1>1 DEF Requesting, Goto
<1>3. ASSUME NEW q \in Processes PROVE Sound(q, request[q])'
  <2>1. CASE q = p
    <3>1. request'[q] = r
      BY <2>1 DEF Requesting, Goto
    <3> QED BY <2>1, <3>1 DEF Sound, SeenSpace, SeenProgress, Read, Present
  <2>2. CASE q # p
    <3>1. request'[q] = request[q] /\ request[q] \in Requests
      BY <2>2 DEF Requesting, Goto
    <3>2. Sound(q, request[q])
      BY DEF Requesting
    <3>3. PICK s \in Requests : s = request[q]
      BY <3>1
    <3>4. Sound(q, s) => Sound(q, s)'
      BY <3>3
    <3> QED BY <3>1, <3>2, <3>3, <3>4 DEF Sound, SeenSpace, SeenProgress, Read, Present
  <2> QED BY <2>1, <2>2
<1> QED BY <1>2, <1>3 DEF Requesting

LEMMA AnswerKeeps ==
  ASSUME ServerInv, NEW p \in Processes, NEW r, Goto(p, r), Sound(p, r), UNCHANGED database
  PROVE  ServerInv'
<1>1. Database'
  BY DatabaseKept DEF ServerInv
<1>2. Requesting'
  BY SoundKept, GotoKeeps DEF ServerInv
<1> QED BY <1>1, <1>2 DEF ServerInv

LEMMA IdleIsSound == \A p \in Processes : Sound(p, Idle) /\ Sound(p, Idle)'
<1>1. Idle \in Requests /\ Idle.at = "idle"
  BY DEF Idle, Requests, Steps
<1> QED BY <1>1, RestingIsSound

LEMMA FailKeeps ==
  ASSUME ServerInv, NEW p \in Processes, Fail(p), UNCHANGED database
  PROVE  ServerInv'
BY AnswerKeeps, IdleIsSound DEF Fail

LEMMA MoveKeeps ==
  ASSUME ServerInv, NEW p \in Processes, NEW at \in Steps \ {"begin", "rows", "commit"},
         Move(p, at), UNCHANGED database
  PROVE  ServerInv'
<1>1. PICK r : Goto(p, r) /\ r = [request[p] EXCEPT !.at = at]
  BY DEF Move
<1>2. r \in Requests /\ r.at \notin {"begin", "rows", "commit"}
  BY <1>1 DEF ServerInv, Requesting, Requests, Steps
<1> QED BY <1>1, <1>2, RestingIsSound, AnswerKeeps

LEMMA ExpectKeeps ==
  ASSUME ServerInv, NEW p \in Processes, NEW g \in Nat,
         NEW at \in {"state", "begun", "prepared"},
         Goto(p, [Idle EXCEPT !.at = at, !.generation = g]), UNCHANGED database
  PROVE  ServerInv'
<1>1. PICK r : Goto(p, r) /\ r = [Idle EXCEPT !.at = at, !.generation = g]
  OBVIOUS
<1>2. r \in Requests /\ r.at \notin {"begin", "rows", "commit"}
  BY <1>1 DEF Idle, Requests, Steps
<1> QED BY <1>1, <1>2, RestingIsSound, AnswerKeeps

LEMMA JoinKeeps ==
  ASSUME ServerInv, NEW p \in Processes, progress # None, Join(p), UNCHANGED database
  PROVE  ServerInv'
<1>1. progress.generation \in Nat
  BY DEF ServerInv, Database, DatabaseType, Progresses
<1> QED BY <1>1, ExpectKeeps, FailKeeps DEF Join

LEMMA ReadSpaceKeeps ==
  ASSUME ServerInv, NEW p \in Processes, ReadSpace(p)
  PROVE  ServerInv'
<1> USE DEF ReadSpace
<1>1. CASE space.schema > Version[p]
  BY <1>1, FailKeeps
<1>2. CASE ~ (space.schema > Version[p]) /\ space.schema = Version[p]
  <2>1. space.generation \in Nat
    BY DEF ServerInv, Database, DatabaseType, Spaces
  <2> QED BY <1>2, <2>1, ExpectKeeps DEF Prepared
<1>3. CASE ~ (space.schema > Version[p]) /\ space.schema # Version[p]
  <2>1. PICK r : Goto(p, r) /\ r = [request[p] EXCEPT !.at = "begin", !.saw = space]
    BY <1>3
  <2>2. space \in Spaces /\ space.schema \in Versions /\ space.schema < Version[p]
    BY <1>3, VersionsAreNaturals DEF ServerInv, Database, DatabaseType, Agreement
  <2>3. SeenSpace(p, space)
    BY <2>2 DEF SeenSpace, Spaces
  <2>4. r \in Requests /\ r.at = "begin" /\ r.saw = space
    BY <2>1, <2>2 DEF ServerInv, Requesting, Requests, Steps
  <2>5. Sound(p, r)
    BY <2>3, <2>4 DEF Sound
  <2> QED BY <2>1, <2>5, AnswerKeeps
<1> QED BY <1>1, <1>2, <1>3

LEMMA ReadStateKeeps ==
  ASSUME ServerInv, NEW p \in Processes, ReadState(p)
  PROVE  ServerInv'
<1> USE DEF ReadState
<1>1. CASE progress = None
  <2>1. space.generation \in Nat
    BY DEF ServerInv, Database, DatabaseType, Spaces
  <2> QED BY <1>1, <2>1, ExpectKeeps, FailKeeps DEF Prepared
<1>2. CASE progress # None /\ ~ Resumable(p)
  BY <1>2, FailKeeps
<1>3. CASE progress # None /\ Resumable(p)
  <2> DEFINE at == IF progress.phase \in {"Log", "Entities"} THEN "rows" ELSE "commit"
  <2>1. PICK r : Goto(p, r) /\ r = [request[p] EXCEPT !.at = at, !.saw = progress]
    BY <1>3
  <2>2. progress \in Progresses /\ progress.generation = space.generation
    BY <1>3 DEF ServerInv, Database, DatabaseType, Agreement
  <2>3. SeenProgress(progress)
    BY <2>2 DEF SeenProgress, Progresses
  <2>4. r \in Requests /\ r.at = at /\ r.saw = progress
    BY <2>1, <2>2 DEF ServerInv, Requesting, Requests, Steps
  <2>5. Sound(p, r)
    BY <2>3, <2>4 DEF Sound, Read
  <2> QED BY <1>3, <2>1, <2>5, AnswerKeeps
<1> QED BY <1>1, <1>2, <1>3

LEMMA ReadRowsKeeps ==
  ASSUME ServerInv, NEW p \in Processes, ReadRows(p)
  PROVE  ServerInv'
<1> DEFINE S == After(p, IF Saw(p).phase = "Log" THEN DOMAIN log ELSE Present(Saw(p).from))
<1>1. PICK batch \in Batches(S) :
        Goto(p, [request[p] EXCEPT !.at = "commit", !.batch = batch])
  BY DEF ReadRows
<1>2. IsFiniteSet(S) /\ S \in SUBSET Nat
  <2>1. log \in Seq(Keys)
    BY DEF ServerInv, Database, DatabaseType
  <2>2. IsFiniteSet(DOMAIN log) /\ DOMAIN log \subseteq Nat
    BY <2>1, FS_Interval
  <2>3. IsFiniteSet(Present(Saw(p).from)) /\ Present(Saw(p).from) \subseteq Nat
    BY PresentIsFinite
  <2> QED BY <2>2, <2>3, FS_Subset DEF After
<1>3. Prefix(batch, S)
  <2>1. CASE S = {}
    BY <1>1, <2>1 DEF Batches, Prefix
  <2>2. CASE S # {}
    <3> HIDE DEF S
    <3>1. PICK n \in 1 .. BatchSize : batch = Lowest(S, n)
      BY <1>1, <2>2 DEF Batches
    <3>2. n \in Nat \ {0}
      BY BatchesAssumption
    <3> QED BY <1>2, <3>1, <3>2, LowestIsPrefix
  <2> QED BY <2>1, <2>2
<1>4. PICK r : Goto(p, r) /\ r = [request[p] EXCEPT !.at = "commit", !.batch = batch]
  BY <1>1
<1>5. request[p] \in Requests /\ Sound(p, request[p]) /\ request[p].at = "rows"
  BY DEF ServerInv, Requesting, ReadRows, At
<1>6. batch \in SUBSET Nat
  BY <1>2, <1>3 DEF Prefix
<1>7. r \in Requests /\ r.at = "commit" /\ r.saw = Saw(p) /\ r.batch = batch
  BY <1>4, <1>5, <1>6 DEF Requests, Steps, Saw
<1>8. SeenProgress(r.saw)
  BY <1>5, <1>7 DEF Sound, Saw
<1>9. Read(r.saw, r.batch)
  BY <1>3, <1>7 DEF Read, After, Ahead
<1>10. Sound(p, r)
  BY <1>7, <1>8, <1>9 DEF Sound
<1> QED BY <1>4, <1>10, AnswerKeeps DEF ReadRows

(* Every step that reads, waits, conflicts or dies.                        *)
LEMMA ReadingKeeps ==
  ASSUME ServerInv, NEW p \in Processes,
         \/ Receive(p) \/ ReadProgress(p) \/ ReadSpace(p) \/ RereadProgress(p)
         \/ ReadState(p) \/ ReadRows(p) \/ Conflict(p) \/ Interrupt(p)
  PROVE  ServerInv'
<1>1. CASE Receive(p)
  BY <1>1, MoveKeeps DEF Receive, Steps
<1>2. CASE ReadProgress(p)
  BY <1>2, MoveKeeps, JoinKeeps DEF ReadProgress, Steps
<1>3. CASE RereadProgress(p)
  BY <1>3, FailKeeps, JoinKeeps DEF RereadProgress
<1>4. CASE Conflict(p) \/ Interrupt(p)
  BY <1>4, FailKeeps DEF Conflict, Interrupt, Fail
<1> QED BY <1>1, <1>2, <1>3, <1>4, ReadSpaceKeeps, ReadStateKeeps, ReadRowsKeeps

(***************************************************************************)
(* Steps of a promotion under way.                                         *)
(***************************************************************************)
LEMMA CommittedKeeps ==
  ASSUME Requesting, NEW p \in Processes, Committed(p),
         \A q \in Processes, s \in Requests :
            s = request[q] /\ Sound(q, s) => Sound(q, s)'
  PROVE  Requesting'
<1>1. PICK r : Goto(p, r) /\ r = [request[p] EXCEPT !.at = "state", !.saw = None, !.batch = {}]
  BY DEF Committed
<1>2. r \in Requests /\ r.at = "state"
  BY <1>1 DEF Requesting, Requests, Steps
<1> QED BY <1>1, <1>2, RestingIsSound, GotoKeeps

LEMMA AdvanceIsTyped ==
  ASSUME NEW seen \in Progresses, NEW after \in Nat
  PROVE  /\ [seen EXCEPT !.after = after] \in Progresses
         /\ \A phase \in Phases : [seen EXCEPT !.phase = phase, !.after = after] \in Progresses
         /\ \A copied \in Nat : [seen EXCEPT !.after = after, !.copied = copied] \in Progresses
BY DEF Progresses

(* When the progress moves on, no process can have seen what it becomes.   *)
LEMMA OnwardKeeps ==
  ASSUME Database, progress # None, progress' \in Progresses,
         progress'.generation = progress.generation,
         space'.generation = space.generation, space'.target = space.target,
         Rank(progress.phase) <= Rank(progress'.phase),
         Rank(progress.phase) = Rank(progress'.phase) =>
           Rank(progress.phase) = 3 \/ progress.after < progress'.after,
         NEW q \in Processes, NEW s \in Requests, Sound(q, s)
  PROVE  Sound(q, s)'
<1> USE DEF Sound
<1>1. /\ progress \in Progresses /\ space.target # None
      /\ progress.generation = space.generation /\ space.generation \in Nat
  BY DEF Database, DatabaseType, Agreement, Spaces
<1>2. progress' # None
  BY NoneAssumption
<1>3. s.at = "begin" => SeenSpace(q, s.saw)'
  BY <1>1 DEF SeenSpace
<1>4. s.at \in {"rows", "commit"} => SeenProgress(s.saw)'
  BY <1>1, <1>2 DEF SeenProgress, Progresses, Rank
<1>5. (s.at = "commit" /\ s.saw = progress') => Read(s.saw, s.batch)'
  <2> SUFFICES ASSUME s.at = "commit", s.saw = progress', s.saw.phase \in {"Log", "Entities"}
               PROVE  FALSE
    BY DEF Read
  <2>1. SeenProgress(s.saw) /\ s.saw.generation = space.generation
    BY <1>1
  <2>2. \/ Rank(s.saw.phase) < Rank(progress.phase)
        \/ Rank(s.saw.phase) = Rank(progress.phase) /\ s.saw.after <= progress.after
    BY <1>1, <2>1 DEF SeenProgress, Rank
  <2> QED BY <1>1, <2>2 DEF Rank, Progresses
<1> QED BY <1>3, <1>4, <1>5

(* What a process that commits has read is the progress and its next rows. *)
LEMMA BatchRead ==
  ASSUME ServerInv, NEW p \in Processes, At(p, "commit"), ValidateBatch(p)
  PROVE  /\ progress \in Progresses /\ progress # None /\ Saw(p) = progress
         /\ progress.phase = "Log" => Prefix(request[p].batch, Ahead(progress, DOMAIN log))
         /\ progress.phase = "Entities" =>
              Prefix(request[p].batch, Ahead(progress, Present(progress.from)))
         /\ progress.phase \in {"Log", "Entities"} =>
              /\ request[p].batch \subseteq Nat \ {0} /\ IsFiniteSet(request[p].batch)
              /\ request[p].batch # {} =>
                   /\ Last(p) \in request[p].batch /\ Last(p) \in Nat
                   /\ progress.after < Last(p)
                   /\ \A k \in request[p].batch : k <= Last(p)
<1>1. Sound(p, request[p]) /\ Saw(p) = progress /\ request[p].at = "commit"
  BY DEF ServerInv, Requesting, ValidateBatch, At
<1>2. progress \in Progresses /\ Read(progress, request[p].batch)
  BY <1>1 DEF Sound, SeenProgress, Saw
<1>3. ASSUME progress.phase \in {"Log", "Entities"}
      PROVE  /\ request[p].batch \subseteq Nat \ {0} /\ IsFiniteSet(request[p].batch)
             /\ \A k \in request[p].batch : progress.after < k
  <2>1. IsFiniteSet(DOMAIN log) /\ DOMAIN log \subseteq Nat \ {0}
    <3>1. log \in Seq(Keys)
      BY DEF ServerInv, Database, DatabaseType
    <3>2. DOMAIN log = 1 .. Len(log) /\ Len(log) \in Nat
      BY <3>1
    <3>3. IsFiniteSet(1 .. Len(log))
      BY <3>2, FS_Interval
    <3> QED BY <3>2, <3>3
  <2>2. request[p].batch \subseteq DOMAIN log \/ request[p].batch \subseteq Present(progress.from)
    BY <1>2, <1>3 DEF Read, Prefix, Ahead
  <2>3. \A k \in request[p].batch : k > progress.after
    BY <1>2, <1>3 DEF Read, Prefix, Ahead
  <2>4. request[p].batch \subseteq Nat \ {0} /\ IsFiniteSet(request[p].batch)
    BY <2>1, <2>2, PresentIsFinite, FS_Subset
  <2> QED BY <1>2, <2>3, <2>4 DEF Progresses
<1>4. ASSUME progress.phase \in {"Log", "Entities"}, request[p].batch # {}
      PROVE  Last(p) \in request[p].batch /\ \A k \in request[p].batch : k <= Last(p)
  BY <1>3, <1>4, HighestIsGreatest DEF Last
<1>5. progress # None
  BY <1>2, NoneAssumption
<1> QED BY <1>1, <1>2, <1>3, <1>4, <1>5 DEF Read

LEMMA LogBatchKeeps ==
  ASSUME ServerInv, NEW p \in Processes, LogBatch(p)
  PROVE  ServerInv'
<1> USE DEF ServerInv, Database
<1>1. /\ At(p, "commit") /\ ValidateBatch(p) /\ progress.phase = "Log"
      /\ UNCHANGED <<space, entities, log, scoped>> /\ Committed(p)
  BY DEF LogBatch, InPhase, ValidateBatch
<1>2. progress \in Progresses /\ progress # None
  BY <1>1, BatchRead
<1>3. \/ /\ progress' = [progress EXCEPT !.phase = "Entities", !.after = 0]
         /\ progress'.phase = "Entities" /\ progress'.after = 0
      \/ /\ progress' = [progress EXCEPT !.after = Last(p)]
         /\ progress'.phase = "Log" /\ progress'.after = Last(p)
         /\ Last(p) \in Nat /\ progress.after < Last(p)
  BY <1>1, <1>2, BatchRead DEF LogBatch, Advance, Progresses
<1>4. /\ progress' \in Progresses /\ progress' # None
      /\ progress'.source = progress.source /\ progress'.target = progress.target
      /\ progress'.generation = progress.generation /\ progress'.from = progress.from
      /\ progress'.copied = progress.copied /\ progress'.phase \in BeforeFlip
  <2>1. progress' \in Progresses
    BY <1>2, <1>3, AdvanceIsTyped DEF Phases
  <2> QED BY <1>2, <1>3, <2>1, NoneAssumption DEF Progresses, BeforeFlip
<1>5. DatabaseType'
  BY <1>1, <1>4 DEF DatabaseType
<1>6. Agreement'
  BY <1>1, <1>2, <1>4 DEF Agreement, BeforeFlip
<1>7. Bounded' /\ Counted'
  BY <1>1 DEF Bounded, Top, Counted, Present
<1>8. Copied'
  <2>1. \A k \in Keys : ~ IsCopied(k) /\ ~ IsCopied(k)'
    BY <1>1, <1>3, BatchesAssumption DEF IsCopied
  <2> QED BY <1>1, <1>2, <1>4, <2>1 DEF Copied, BeforeFlip, Present
<1>9. Views'
  BY <1>1, <1>2, <1>3, <1>4 DEF Views, RowsOf, Cleared
<1>10. ASSUME NEW q \in Processes, NEW s \in Requests, Sound(q, s) PROVE Sound(q, s)'
  BY <1>1, <1>2, <1>3, <1>4, <1>10, OnwardKeeps DEF Rank
<1>11. Requesting'
  BY <1>1, <1>10, CommittedKeeps
<1> QED BY <1>5, <1>6, <1>7, <1>8, <1>9, <1>11

LEMMA MigratedIsARow ==
  ASSUME Database, progress # None, NEW g \in Generations, NEW k \in Keys,
         entities[g][k] # Absent
  PROVE  Migrated(entities[g][k]) \in Rows /\ Migrated(entities[g][k]) # Absent
<1>1. entities[g][k] \in Rows /\ progress.target \in Nat
  BY DEF Database, DatabaseType, RowsByKey, Progresses
<1>2. Migrated(entities[g][k]) \in Rows
  BY <1>1 DEF Migrated, Row, Rows
<1> QED BY <1>2, PromotionAssumption DEF Rows

(* The next generation after a batch was inserted.                         *)
LEMMA EntitiesBatchCopies ==
  ASSUME ServerInv, NEW p \in Processes, At(p, "commit"), ValidateBatch(p),
         progress.phase = "Entities", request[p].batch # {},
         request[p].batch \cap Present(progress.generation) = {},
         entities' = [entities EXCEPT ![progress.generation] =
            [k \in Keys |-> IF k \in request[p].batch
                              THEN Migrated(entities[progress.from][k]) ELSE @[k]]],
         progress' = [progress EXCEPT !.after = Last(p), !.copied = CopiedCount(p)]
  PROVE  /\ entities' \in [Generations -> RowsByKey]
         /\ entities'[progress.from] = entities[progress.from]
         /\ progress' \in Progresses
         /\ Copied'
<1> USE DEF ServerInv, Database
<1> DEFINE batch == request[p].batch
           to == progress.generation
           from == progress.from
<1>1. /\ progress \in Progresses /\ progress # None
      /\ Prefix(batch, Ahead(progress, Present(from)))
      /\ IsFiniteSet(batch) /\ batch \subseteq Nat
      /\ Last(p) \in batch /\ Last(p) \in Nat /\ progress.after < Last(p)
      /\ \A k \in batch : k <= Last(p)
  BY BatchRead
<1>2. to \in Generations /\ from \in Generations /\ from # to
  BY <1>1, RoomForGenerations
<1>3. entities \in [Generations -> RowsByKey]
  BY DEF DatabaseType
<1>4. batch \subseteq Present(from) /\ batch \subseteq Keys
      /\ \A k \in batch : k \in Keys /\ progress.after < k /\ entities[from][k] # Absent
  BY <1>1 DEF Prefix, Ahead, Present, Progresses
<1>5. \A k \in batch : Migrated(entities[from][k]) \in Rows
                       /\ Migrated(entities[from][k]) # Absent
  BY <1>1, <1>2, <1>4, MigratedIsARow
<1>6. /\ entities'[from] = entities[from]
      /\ entities'[to] = [k \in Keys |-> IF k \in batch THEN Migrated(entities[from][k])
                                         ELSE entities[to][k]]
  BY <1>2, <1>3
<1>7. entities'[to] \in RowsByKey
  BY <1>2, <1>3, <1>5, <1>6 DEF RowsByKey
<1>8. entities' \in [Generations -> RowsByKey]
  BY <1>2, <1>3, <1>7
<1>9. Cardinality(batch) \in Nat
  BY <1>1, FS_CardinalityType
<1>10. /\ progress' \in Progresses
       /\ progress'.generation = to /\ progress'.from = from
       /\ progress'.target = progress.target /\ progress'.phase = "Entities"
       /\ progress'.after = Last(p) /\ progress'.copied = progress.copied + Cardinality(batch)
  <2> DEFINE count == CopiedCount(p)
  <2>1. count \in Nat /\ count = progress.copied + Cardinality(batch)
    BY <1>1, <1>9 DEF Progresses, CopiedCount
  <2> HIDE DEF count
  <2>2. progress' = [progress EXCEPT !.after = Last(p), !.copied = count]
    BY DEF count
  <2>3. progress' \in Progresses
    <3>1. progress \in Progresses /\ Last(p) \in Nat /\ count \in Nat
      BY <1>1, <2>1
    <3>2. [progress EXCEPT !.after = Last(p), !.copied = count] \in Progresses
      BY <3>1, AdvanceIsTyped
    <3> QED BY <2>2, <3>2
  <2> QED BY <1>1, <2>1, <2>2, <2>3 DEF Progresses
<1>11. /\ progress.copied = Cardinality(Present(to))
       /\ \A k \in Keys : entities[to][k] = IF k <= progress.after THEN Copy(k) ELSE Absent
  BY <1>1 DEF Copied, BeforeFlip, IsCopied
<1>12. ASSUME NEW k \in Keys
       PROVE  entities'[to][k] = IF k <= Last(p) THEN Copy(k)' ELSE Absent
  <2>1. Copy(k)' = IF entities[from][k] = Absent THEN Absent ELSE Migrated(entities[from][k])
    BY <1>6, <1>10 DEF Copy, Migrated
  <2>2. k \in Nat /\ progress.after \in Nat
    BY <1>1, BatchesAssumption DEF Progresses
  <2>3. CASE k \in batch
    BY <1>1, <1>4, <1>6, <2>1, <2>3
  <2>4. CASE k \notin batch /\ k <= progress.after
    BY <1>1, <1>6, <1>11, <2>1, <2>2, <2>4 DEF Copy
  <2>5. CASE k \notin batch /\ progress.after < k /\ k <= Last(p)
    <3>1. k \notin Present(from)
      BY <1>1, <2>5 DEF Prefix, Ahead
    <3> QED BY <1>6, <1>11, <2>1, <2>2, <2>5, <3>1 DEF Present
  <2>6. CASE Last(p) < k
    BY <1>1, <1>6, <1>11, <2>2, <2>6
  <2> QED BY <1>1, <2>2, <2>3, <2>4, <2>5, <2>6
<1>13. progress'.copied = Cardinality(Present(to)')
  <2>1. Present(to)' = Present(to) \cup batch
    BY <1>4, <1>5, <1>6, <1>10 DEF Present
  <2>2. IsFiniteSet(Present(to)) /\ Cardinality(Present(to)) \in Nat
    BY PresentIsFinite
  <2>3. Cardinality(Present(to) \cup batch) = Cardinality(Present(to)) + Cardinality(batch)
    <3> HIDE DEF batch, to
    <3>1. batch \cap Present(to) = {}
      BY DEF batch, to
    <3>2. Cardinality(Present(to) \cap batch) = 0
      BY <3>1, FS_EmptySet
    <3>3. Cardinality(Present(to) \cup batch) =
            Cardinality(Present(to)) + Cardinality(batch) - Cardinality(Present(to) \cap batch)
      BY <1>1, <2>2, FS_Union
    <3> QED BY <1>9, <2>2, <3>2, <3>3
  <2> QED BY <1>10, <1>11, <2>1, <2>3
<1>14. Copied'
  BY <1>10, <1>12, <1>13 DEF Copied, IsCopied, BeforeFlip
<1> QED BY <1>6, <1>8, <1>10, <1>14

LEMMA EntitiesBatchKeeps ==
  ASSUME ServerInv, NEW p \in Processes, EntitiesBatch(p)
  PROVE  ServerInv'
<1> USE DEF ServerInv, Database
<1> DEFINE batch == request[p].batch
<1>1. /\ At(p, "commit") /\ ValidateBatch(p) /\ progress.phase = "Entities"
      /\ UNCHANGED <<space, log, scoped>>
  BY DEF EntitiesBatch, InPhase, ValidateBatch
<1>2. /\ progress \in Progresses /\ progress # None
      /\ progress.generation = space.generation /\ space.active = progress.from
  BY <1>1, BatchRead DEF Agreement, BeforeFlip
<1>3. CASE batch # {} /\ batch \cap Present(progress.generation) # {}
  <2>1. Fail(p) /\ UNCHANGED database
    BY <1>1, <1>3 DEF EntitiesBatch, database
  <2> QED BY <2>1, FailKeeps
<1>4. CASE batch = {} \/ batch \cap Present(progress.generation) = {}
  <2>1. /\ entities' \in [Generations -> RowsByKey]
        /\ entities'[progress.from] = entities[progress.from]
        /\ progress' \in Progresses
        /\ Copied' /\ Committed(p)
        /\ progress'.source = progress.source /\ progress'.target = progress.target
        /\ progress'.generation = progress.generation /\ progress'.from = progress.from
        /\ \/ progress'.phase = "Flip"
           \/ progress'.phase = "Entities" /\ progress.after < progress'.after
    <3>1. CASE batch = {}
      <4>1. /\ progress' = [progress EXCEPT !.phase = "Flip", !.after = 0]
            /\ UNCHANGED entities /\ Committed(p)
        BY <3>1 DEF EntitiesBatch, Advance
      <4>2. progress' \in Progresses
        BY <1>2, <4>1, AdvanceIsTyped DEF Phases
      <4>3. /\ progress'.phase = "Flip" /\ progress'.copied = progress.copied
            /\ progress'.source = progress.source /\ progress'.target = progress.target
            /\ progress'.generation = progress.generation /\ progress'.from = progress.from
        BY <1>2, <4>1 DEF Progresses
      <4>4. Ahead(progress, Present(progress.from)) = {}
        BY <1>1, <3>1, BatchRead DEF Prefix
      <4>5. ASSUME NEW k \in Keys PROVE IsCopied(k) \/ Copy(k) = Absent
        <5>1. k \in Nat /\ progress.after \in Nat
          BY <1>2, BatchesAssumption DEF Progresses
        <5> QED BY <1>1, <4>4, <5>1 DEF IsCopied, Copy, Ahead, Present
      <4>6. \A k \in Keys : IsCopied(k)' /\ Copy(k)' = Copy(k)
        BY <4>1, <4>3 DEF IsCopied, Copy, Migrated
      <4>7. Copied'
        BY <1>1, <1>2, <4>1, <4>3, <4>5, <4>6 DEF Copied, BeforeFlip, Present
      <4> QED BY <4>1, <4>2, <4>3, <4>7 DEF DatabaseType
    <3>2. CASE batch # {}
      <4>1. /\ entities' = [entities EXCEPT ![progress.generation] =
                  [k \in Keys |-> IF k \in batch THEN Migrated(entities[progress.from][k])
                                 ELSE @[k]]]
            /\ progress' = [progress EXCEPT !.after = Last(p), !.copied = CopiedCount(p)]
            /\ Committed(p)
        BY <1>4, <3>2 DEF EntitiesBatch
      <4>2. /\ entities' \in [Generations -> RowsByKey]
            /\ entities'[progress.from] = entities[progress.from]
            /\ progress' \in Progresses /\ Copied'
        BY <1>1, <1>4, <3>2, <4>1, EntitiesBatchCopies
      <4>3. /\ progress'.phase = "Entities" /\ progress.after < progress'.after
            /\ progress'.source = progress.source /\ progress'.target = progress.target
            /\ progress'.generation = progress.generation /\ progress'.from = progress.from
        BY <1>1, <1>2, <3>2, <4>1, BatchRead DEF Progresses
      <4> QED BY <4>1, <4>2, <4>3
    <3> QED BY <3>1, <3>2
  <2>2. progress' # None
    BY <2>1, NoneAssumption
  <2>3. DatabaseType'
    BY <1>1, <2>1 DEF DatabaseType
  <2>4. Agreement'
    BY <1>1, <1>2, <2>1, <2>2 DEF Agreement, BeforeFlip
  <2>5. Bounded'
    BY <1>1 DEF Bounded, Top
  <2>6. Counted'
    BY <1>1, <1>2, <2>1 DEF Counted, Present
  <2>7. Views'
    BY <1>1, <1>2, <2>1, <2>2 DEF Views, RowsOf, Cleared
  <2>8. ASSUME NEW q \in Processes, NEW s \in Requests, Sound(q, s) PROVE Sound(q, s)'
    BY <1>1, <1>2, <2>1, <2>8, OnwardKeeps DEF Rank
  <2>9. Requesting'
    BY <2>1, <2>8, CommittedKeeps
  <2> QED BY <2>1, <2>3, <2>4, <2>5, <2>6, <2>7, <2>9
<1> QED BY <1>3, <1>4

LEMMA FlipKeeps ==
  ASSUME ServerInv, NEW p \in Processes, Flip(p)
  PROVE  ServerInv'
<1> USE DEF ServerInv, Database
<1>1. /\ At(p, "commit") /\ ValidateBatch(p) /\ progress.phase = "Flip"
      /\ UNCHANGED <<entities, log, scoped>> /\ Committed(p)
      /\ space' = [space EXCEPT !.active = progress.generation, !.count = progress.copied]
      /\ progress' = [progress EXCEPT !.phase = "CleanupScopedSnapshotEntries", !.after = 0]
  BY DEF Flip, InPhase, ValidateBatch, Advance
<1>2. progress \in Progresses /\ progress # None /\ space \in Spaces
  BY <1>1, BatchRead DEF DatabaseType
<1>3. progress' \in Progresses /\ progress' # None
  <2>1. progress' \in Progresses
    BY <1>1, <1>2, AdvanceIsTyped DEF Phases
  <2> QED BY <2>1, NoneAssumption
<1>4. /\ progress'.phase = "CleanupScopedSnapshotEntries"
      /\ progress'.source = progress.source /\ progress'.target = progress.target
      /\ progress'.generation = progress.generation /\ progress'.from = progress.from
  BY <1>1, <1>2 DEF Progresses
<1>5. /\ space' \in Spaces
      /\ space'.generation = space.generation /\ space'.active = progress.generation
      /\ space'.schema = space.schema /\ space'.target = space.target
      /\ space'.count = progress.copied
  BY <1>1, <1>2 DEF Spaces, Progresses
<1>6. DatabaseType'
  BY <1>1, <1>3, <1>5 DEF DatabaseType
<1>7. Agreement'
  BY <1>2, <1>3, <1>4, <1>5 DEF Agreement, BeforeFlip
<1>8. Bounded'
  BY <1>5 DEF Bounded, Top
<1>9. Copied'
  BY <1>4 DEF Copied, BeforeFlip
<1>10. Counted'
  BY <1>1, <1>2, <1>5 DEF Copied, Counted, BeforeFlip, Present
<1>11. Views'
  BY <1>1, <1>2, <1>3, <1>4 DEF Views, RowsOf, Cleared
<1>12. ASSUME NEW q \in Processes, NEW s \in Requests, Sound(q, s) PROVE Sound(q, s)'
  BY <1>1, <1>2, <1>3, <1>4, <1>5, <1>12, OnwardKeeps DEF Rank
<1>13. Requesting'
  BY <1>1, <1>12, CommittedKeeps
<1> QED BY <1>6, <1>7, <1>8, <1>9, <1>10, <1>11, <1>13

(* What the table of cleanups says: each empties a table whose children    *)
(* are empty, and the next phase follows from it.                          *)
LEMMA CleanupOrder ==
  ASSUME NEW phase \in DOMAIN Cleanups
  PROVE  LET t == Cleanups[phase][1]
             next == Cleanups[phase][2]
         IN /\ t \in Tables /\ next \in Phases /\ next \notin BeforeFlip
            /\ phase \in Phases /\ phase \notin BeforeFlip
            /\ t = "snapshots" => Cleared("entries", phase)
            /\ \A u \in Tables : Cleared(u, next) => u = t \/ Cleared(u, phase)
<1>1. phase \in {"CleanupScopedSnapshotEntries", "CleanupScopedSnapshots",
                "CleanupReplicationPages", "CleanupReplicationViewEntities",
                "CleanupReplicationViews"}
  BY DEF Cleanups
<1>2. CASE phase = "CleanupScopedSnapshotEntries"
  BY <1>2 DEF Cleanups, Tables, Phases, BeforeFlip, Cleared
<1>3. CASE phase = "CleanupScopedSnapshots"
  BY <1>3 DEF Cleanups, Tables, Phases, BeforeFlip, Cleared
<1>4. CASE phase = "CleanupReplicationPages"
  BY <1>4 DEF Cleanups, Tables, Phases, BeforeFlip, Cleared
<1>5. CASE phase = "CleanupReplicationViewEntities"
  BY <1>5 DEF Cleanups, Tables, Phases, BeforeFlip, Cleared
<1>6. CASE phase = "CleanupReplicationViews"
  BY <1>6 DEF Cleanups, Tables, Phases, BeforeFlip, Cleared
<1> QED BY <1>1, <1>2, <1>3, <1>4, <1>5, <1>6

LEMMA CleanupScopedKeeps ==
  ASSUME ServerInv, NEW p \in Processes, CleanupScoped(p)
  PROVE  ServerInv'
<1> USE DEF ServerInv, Database
<1>1. PICK phase \in DOMAIN Cleanups :
        LET t == Cleanups[phase][1]
            deleted == Lowest(Reachable(t), BatchSize)
        IN /\ InPhase(p, phase)
           /\ scoped' = [scoped EXCEPT ![t] =
                           [c \in Clients |-> IF c \in deleted THEN 0 ELSE @[c]]]
           /\ progress' = IF Remaining(t) \subseteq deleted THEN Advance(Cleanups[phase][2])
                          ELSE progress
           /\ Committed(p)
           /\ UNCHANGED <<space, entities, log, failures>>
  BY DEF CleanupScoped
<1>2. PICK t, next, deleted :
        /\ t = Cleanups[phase][1] /\ next = Cleanups[phase][2]
        /\ deleted = Lowest(Reachable(t), BatchSize)
  OBVIOUS
<1>3. /\ t \in Tables /\ next \in Phases /\ next \notin BeforeFlip
      /\ phase \in Phases /\ phase \notin BeforeFlip
      /\ t = "snapshots" => Cleared("entries", phase)
      /\ \A u \in Tables : Cleared(u, next) => u = t \/ Cleared(u, phase)
  BY <1>2, CleanupOrder
<1>4. /\ At(p, "commit") /\ ValidateBatch(p) /\ progress.phase = phase
      /\ scoped' = [scoped EXCEPT ![t] =
                      [c \in Clients |-> IF c \in deleted THEN 0 ELSE scoped[t][c]]]
      /\ progress' = IF Remaining(t) \subseteq deleted
                      THEN [progress EXCEPT !.phase = next, !.after = 0] ELSE progress
      /\ Committed(p) /\ UNCHANGED <<space, entities, log>>
  BY <1>1, <1>2, <1>3 DEF InPhase, ValidateBatch, Advance, DatabaseType
<1> HIDE <1>1, <1>2
<1>5. progress \in Progresses /\ progress # None /\ scoped \in [Tables -> [Clients -> Nat]]
  BY <1>4, BatchRead DEF DatabaseType
<1>6. progress' \in Progresses /\ progress' # None
  <2>1. [progress EXCEPT !.phase = next, !.after = 0] \in Progresses
    BY <1>3, <1>5, AdvanceIsTyped
  <2> QED BY <1>4, <1>5, <2>1, NoneAssumption
<1>7. /\ progress'.phase = IF Remaining(t) \subseteq deleted THEN next ELSE phase
      /\ progress'.phase \notin BeforeFlip
      /\ progress'.source = progress.source /\ progress'.target = progress.target
      /\ progress'.generation = progress.generation /\ progress'.from = progress.from
  BY <1>3, <1>4, <1>5 DEF Progresses
<1>8. /\ scoped' \in [Tables -> [Clients -> Nat]]
      /\ RowsOf(t)' = RowsOf(t) \ deleted
      /\ \A u \in Tables : u # t => RowsOf(u)' = RowsOf(u)
  BY <1>3, <1>4, <1>5 DEF RowsOf
<1>9. DatabaseType'
  BY <1>4, <1>6, <1>8 DEF DatabaseType
<1>10. Agreement'
  BY <1>3, <1>4, <1>5, <1>6, <1>7 DEF Agreement
<1>11. Bounded' /\ Copied' /\ Counted'
  BY <1>4, <1>7 DEF Bounded, Top, Copied, Counted, Present
<1>12. Views'
  <2>1. RowsOf("entries")' \subseteq RowsOf("snapshots")'
    <3>1. "entries" \in Tables /\ "snapshots" \in Tables
      BY DEF Tables
    <3>2. CASE t = "snapshots"
      BY <1>3, <1>4, <1>5, <1>8, <3>1, <3>2 DEF Views
    <3>3. CASE t # "snapshots"
      BY <1>8, <3>1, <3>3 DEF Views
    <3> QED BY <3>2, <3>3
  <2>2. ASSUME NEW u \in Tables, Cleared(u, progress'.phase) PROVE RowsOf(u)' = {}
    <3>1. CASE Cleared(u, phase)
      BY <1>4, <1>5, <1>8, <3>1 DEF Views
    <3>2. CASE ~ Cleared(u, phase)
      <4>1. Remaining(t) \subseteq deleted /\ u = t
        BY <1>3, <1>7, <2>2, <3>2
      <4>2. Remaining(t) = RowsOf(t)
        BY DEF Remaining, Reachable, Views
      <4> QED BY <1>8, <4>1, <4>2
    <3> QED BY <3>1, <3>2
  <2> QED BY <1>6, <2>1, <2>2 DEF Views
<1>13. ASSUME NEW q \in Processes, NEW s \in Requests, Sound(q, s) PROVE Sound(q, s)'
  <2>1. Rank(progress.phase) = 3 /\ Rank(progress'.phase) = 3
    BY <1>3, <1>4, <1>7 DEF Rank, BeforeFlip
  <2> QED BY <1>4, <1>5, <1>6, <1>7, <1>13, <2>1, OnwardKeeps
<1>14. Requesting'
  BY <1>4, <1>13, CommittedKeeps
<1> QED BY <1>9, <1>10, <1>11, <1>12, <1>14

LEMMA CleanupEntitiesKeeps ==
  ASSUME ServerInv, NEW p \in Processes, CleanupEntities(p)
  PROVE  ServerInv'
<1> USE DEF ServerInv, Database
<1>1. PICK deleted :
        /\ At(p, "commit") /\ ValidateBatch(p) /\ progress.phase = "CleanupEntities"
        /\ entities' = [entities EXCEPT ![progress.from] =
             [k \in Keys |-> IF k \in deleted THEN Absent ELSE @[k]]]
        /\ progress' = [progress EXCEPT !.phase = "Finalize", !.after = 0]
             \/ progress' = progress
        /\ Committed(p) /\ UNCHANGED <<space, log, scoped>>
  BY DEF CleanupEntities, InPhase, ValidateBatch, Advance
<1>2. /\ progress \in Progresses /\ progress # None
      /\ progress.generation = space.generation /\ space.active = progress.generation
  BY <1>1, BatchRead DEF Agreement, BeforeFlip
<1>3. /\ progress.from \in Generations /\ progress.generation \in Generations
      /\ progress.from # progress.generation
  BY <1>2, RoomForGenerations
<1>4. progress' \in Progresses /\ progress' # None
  <2>1. [progress EXCEPT !.phase = "Finalize", !.after = 0] \in Progresses
    BY <1>2, AdvanceIsTyped DEF Phases
  <2> QED BY <1>1, <1>2, <2>1, NoneAssumption
<1>5. /\ progress'.phase \in {"CleanupEntities", "Finalize"}
      /\ progress'.source = progress.source /\ progress'.target = progress.target
      /\ progress'.generation = progress.generation /\ progress'.from = progress.from
  BY <1>1, <1>2 DEF Progresses
<1>6. /\ entities' \in [Generations -> RowsByKey]
      /\ entities'[space.active] = entities[space.active]
  BY <1>1, <1>2, <1>3 DEF DatabaseType, RowsByKey
<1>7. DatabaseType'
  BY <1>1, <1>4, <1>6 DEF DatabaseType
<1>8. Agreement'
  BY <1>1, <1>2, <1>4, <1>5 DEF Agreement, BeforeFlip
<1>9. Bounded' /\ Copied'
  BY <1>1, <1>5 DEF Bounded, Top, Copied, BeforeFlip
<1>10. Counted'
  BY <1>1, <1>6 DEF Counted, Present
<1>11. Views'
  BY <1>1, <1>2, <1>4, <1>5 DEF Views, RowsOf, Cleared
<1>12. ASSUME NEW q \in Processes, NEW s \in Requests, Sound(q, s) PROVE Sound(q, s)'
  <2>1. Rank(progress.phase) = 3 /\ Rank(progress'.phase) = 3
    BY <1>1, <1>5 DEF Rank
  <2> QED BY <1>1, <1>2, <1>4, <1>5, <1>12, <2>1, OnwardKeeps
<1>13. Requesting'
  BY <1>1, <1>12, CommittedKeeps
<1> QED BY <1>7, <1>8, <1>9, <1>10, <1>11, <1>13

(* The step the assumption on overtaking is about: a process that saw the  *)
(* space in the middle of this promotion must not begin another after it.  *)
LEMMA FinalizeKeeps ==
  ASSUME ServerInv, ~ Overtakes, NEW p \in Processes, Finalize(p)
  PROVE  ServerInv'
<1> USE DEF ServerInv, Database
<1>1. /\ At(p, "commit") /\ ValidateBatch(p) /\ progress.phase = "Finalize"
      /\ \A q \in Processes : ~ (At(q, "begin") /\ Saw(q).target # None)
      /\ space' = [space EXCEPT !.schema = progress.target, !.target = None]
      /\ progress' = None
      /\ Committed(p) /\ UNCHANGED <<entities, log, scoped>>
  BY DEF Finalize, InPhase, ValidateBatch
<1>2. /\ progress \in Progresses /\ progress # None /\ space \in Spaces
      /\ progress.generation = space.generation /\ space.active = space.generation
      /\ progress.target = space.target /\ progress.target \in Versions
      /\ space.target # None
  BY <1>1, BatchRead DEF DatabaseType, Agreement, BeforeFlip
<1>3. /\ space' \in Spaces
      /\ space'.generation = space.generation /\ space'.active = space.active
      /\ space'.schema = space.target /\ space'.target = None /\ space'.count = space.count
  BY <1>1, <1>2 DEF Spaces, Progresses
<1>4. DatabaseType'
  BY <1>1, <1>3 DEF DatabaseType
<1>5. Agreement'
  BY <1>1, <1>2, <1>3 DEF Agreement
<1>6. Bounded'
  <2>1. Top' = Top
    BY <1>2, <1>3 DEF Top
  <2> QED BY <1>3, <2>1 DEF Bounded
<1>7. Copied' /\ Counted'
  BY <1>1, <1>3 DEF Copied, Counted, Present
<1>8. Views'
  <2>1. \A t \in Tables : RowsOf(t) = {}
    BY <1>1, <1>2 DEF Views, Cleared
  <2>2. \A t \in Tables : RowsOf(t)' = {}
    BY <1>1, <2>1 DEF RowsOf
  <2> QED BY <1>1, <2>2 DEF Views, Tables
<1>9. ASSUME NEW q \in Processes, NEW s \in Requests, s = request[q], Sound(q, s)
      PROVE  Sound(q, s)'
  <2>1. s.at = "begin" => SeenSpace(q, s.saw)'
    <3>1. s.at = "begin" => SeenSpace(q, s.saw) /\ s.saw.target = None
      BY <1>1, <1>9 DEF Sound, At, Saw
    <3> QED BY <1>2, <1>3, <3>1 DEF SeenSpace
  <2>2. s.at \in {"rows", "commit"} => SeenProgress(s.saw)'
    BY <1>1, <1>2, <1>3, <1>9 DEF Sound, SeenProgress
  <2>3. s.at = "commit" => s.saw # progress'
    BY <1>1, <1>9, NoneAssumption DEF Sound, SeenProgress
  <2> QED BY <1>9, <2>1, <2>2, <2>3 DEF Sound
<1>10. Requesting'
  BY <1>1, <1>9, CommittedKeeps
<1> QED BY <1>4, <1>5, <1>6, <1>7, <1>8, <1>10

(***************************************************************************)
(* The beginning of a promotion.                                           *)
(***************************************************************************)
LEMMA BegunKeeps ==
  ASSUME ServerInv, NEW p \in Processes, BeginPromotion(p), Promotable(p)
  PROVE  Database' /\ \A q \in Processes, s \in Requests : Sound(q, s) => Sound(q, s)'
<1> USE DEF ServerInv, Database
<1>1. /\ space' = [space EXCEPT !.generation = Beginning(p).generation,
                               !.schema = Saw(p).schema, !.target = Version[p]]
      /\ progress' = Beginning(p)
      /\ entities' = [entities EXCEPT ![Beginning(p).generation] = NoEntities]
      /\ UNCHANGED <<log, scoped>>
  BY DEF BeginPromotion
<1>2. Saw(p).schema < Version[p] /\ space.schema = Saw(p).schema
      /\ space.active = Saw(p).active /\ space.generation = Saw(p).generation
      /\ Saw(p) \in Spaces /\ space \in Spaces
      /\ space.target = None /\ progress = None /\ space.active = space.generation
  <2>1. Sound(p, request[p]) /\ request[p].at = "begin"
    BY DEF Requesting, BeginPromotion, At
  <2>2. SeenSpace(p, Saw(p))
    BY <2>1 DEF Sound, Saw
  <2> QED BY <2>2 DEF SeenSpace, Promotable, DatabaseType, Agreement
<1>3. /\ Version[p] \in Versions /\ Version[p] \in Nat /\ Version[p] # None
      /\ space.schema \in Versions /\ space.schema \in Nat /\ space.generation \in Nat
  BY <1>2, VersionsAreNaturals, NoneAssumption DEF Agreement, Spaces
<1>4. /\ progress' \in Progresses /\ progress' # None
      /\ progress'.source = space.schema /\ progress'.target = Version[p]
      /\ progress'.generation = space.generation + 1 /\ progress'.from = space.generation
      /\ progress'.phase = "Log" /\ progress'.after = 0 /\ progress'.copied = 0
  <2>1. progress' = [source |-> space.schema, target |-> Version[p],
                     generation |-> space.generation + 1, from |-> space.generation,
                     phase |-> "Log", after |-> 0, copied |-> 0]
    BY <1>1, <1>2 DEF Beginning
  <2>2. progress' \in Progresses
    BY <1>3, <2>1 DEF Progresses, Phases
  <2> QED BY <2>1, <2>2, NoneAssumption
<1>5. /\ space' \in Spaces
      /\ space'.generation = space.generation + 1 /\ space'.active = space.active
      /\ space'.schema = space.schema /\ space'.target = Version[p]
      /\ space'.count = space.count
  <2>1. space' = [space EXCEPT !.generation = space.generation + 1,
                               !.schema = space.schema, !.target = Version[p]]
    BY <1>1, <1>2 DEF Beginning
  <2>2. PICK g \in Nat, v \in Nat : g = space.generation + 1 /\ v = Version[p]
    BY <1>3
  <2>3. space' = [space EXCEPT !.generation = g, !.schema = space.schema, !.target = v]
    BY <2>1, <2>2
  <2>4. space.schema \in Nat
    BY <1>3
  <2> HIDE <2>1
  <2> QED BY <1>2, <2>2, <2>3, <2>4 DEF Spaces
<1>6. Bounded'
  <2>1. Top = space.schema /\ Top' = Version[p]
    BY <1>2, <1>3, <1>5 DEF Top
  <2>2. /\ Cardinality(UpTo(Top)) < Cardinality(UpTo(Version[p]))
        /\ Cardinality(UpTo(Top)) \in Nat /\ Cardinality(UpTo(Version[p])) \in Nat
    BY <1>2, <1>3, <2>1, UpToGrows
  <2> QED BY <1>3, <1>5, <2>1, <2>2 DEF Bounded
<1>7. space.generation + 1 \in Generations /\ space.generation \in Generations
  <2>1. IsFiniteSet(UpTo(Top')) /\ Cardinality(UpTo(Top')) <= Cardinality(Versions)
        /\ Cardinality(UpTo(Top')) \in Nat /\ Cardinality(Versions) \in Nat
    BY VersionsAreNaturals, FS_Subset, FS_CardinalityType DEF UpTo
  <2> QED BY <1>3, <1>5, <1>6, <2>1 DEF Bounded, Generations
<1>8. /\ entities' \in [Generations -> RowsByKey]
      /\ entities'[space.generation + 1] = NoEntities
      /\ entities'[space.generation] = entities[space.generation]
  <2>1. NoEntities \in RowsByKey
    BY DEF NoEntities, RowsByKey
  <2>2. entities' = [entities EXCEPT ![space.generation + 1] = NoEntities]
    BY <1>1, <1>2 DEF Beginning
  <2> QED BY <1>3, <1>7, <2>1, <2>2 DEF DatabaseType
<1>9. DatabaseType'
  BY <1>1, <1>4, <1>5, <1>8 DEF DatabaseType
<1>10. Agreement'
  BY <1>2, <1>3, <1>4, <1>5 DEF Agreement, BeforeFlip
<1>11. Copied'
  <2>1. Present(progress.generation)' = {}
    BY <1>4, <1>8 DEF Present, NoEntities
  <2>2. Cardinality(Present(progress.generation)') = 0
    BY <2>1, FS_EmptySet
  <2> QED BY <1>4, <1>8, <2>2 DEF Copied, IsCopied, NoEntities
<1>12. Counted'
  BY <1>2, <1>5, <1>8 DEF Counted, Present
<1>13. Views'
  BY <1>1, <1>4 DEF Views, RowsOf, Cleared
<1>14. ASSUME NEW q \in Processes, NEW s \in Requests, Sound(q, s) PROVE Sound(q, s)'
  <2>1. s.at = "begin" => SeenSpace(q, s.saw)'
    BY <1>3, <1>5, <1>14 DEF Sound, SeenSpace, Spaces
  <2>2. s.at \in {"rows", "commit"} => s.saw.generation <= space.generation
    BY <1>3, <1>14 DEF Sound, SeenProgress, Progresses
  <2>3. s.at \in {"rows", "commit"} => SeenProgress(s.saw)'
    BY <1>3, <1>5, <1>14, <2>2 DEF Sound, SeenProgress, Progresses
  <2>4. s.at = "commit" => s.saw # progress'
    BY <1>3, <1>4, <1>14, <2>2 DEF Sound, SeenProgress, Progresses
  <2> QED BY <1>14, <2>1, <2>3, <2>4 DEF Sound
<1> QED BY <1>6, <1>9, <1>10, <1>11, <1>12, <1>13, <1>14

LEMMA BeginPromotionKeeps ==
  ASSUME ServerInv, NEW p \in Processes, BeginPromotion(p)
  PROVE  ServerInv'
<1>1. CASE ~ Promotable(p)
  <2>1. PICK r : Goto(p, r) /\ r = [Idle EXCEPT !.at = "begun"]
    BY DEF BeginPromotion
  <2>2. r \in Requests /\ r.at = "begun"
    BY <2>1 DEF Idle, Requests, Steps
  <2>3. UNCHANGED database
    BY <1>1 DEF BeginPromotion, database
  <2> QED BY <2>1, <2>2, <2>3, RestingIsSound, AnswerKeeps
<1>2. CASE Promotable(p)
  <2>1. PICK r : Goto(p, r) /\ r = [Idle EXCEPT !.at = "begun"]
    BY DEF BeginPromotion
  <2>2. r \in Requests /\ r.at = "begun"
    BY <2>1 DEF Idle, Requests, Steps
  <2>3. Requesting'
    BY <1>2, <2>1, <2>2, BegunKeeps, RestingIsSound, GotoKeeps DEF ServerInv
  <2> QED BY <1>2, <2>3, BegunKeeps DEF ServerInv
<1> QED BY <1>1, <1>2

(***************************************************************************)
(* What prepared requests do.                                              *)
(***************************************************************************)
LEMMA WrittenKeeps ==
  ASSUME ServerInv, progress = None, NEW k \in Keys, NEW seen \in {Absent} \cup Rows,
         Written(k, seen), UNCHANGED <<progress, scoped>>
  PROVE  Database' /\ \A q \in Processes, s \in Requests : Sound(q, s) => Sound(q, s)'
<1> USE DEF ServerInv, Database
<1> DEFINE g == space.active
           count == Cardinality({j \in Keys : (IF j = k THEN seen ELSE entities[g][j]) # Absent})
<1>1. /\ entities' = [entities EXCEPT ![g][k] = seen]
      /\ space' = [space EXCEPT !.count = count]
      /\ log' = Append(log, k)
  BY DEF Written
<1>2. g \in Generations /\ entities \in [Generations -> RowsByKey] /\ space \in Spaces
  BY RoomForGenerations DEF DatabaseType
<1>3. /\ entities' \in [Generations -> RowsByKey]
      /\ entities'[g] = [entities[g] EXCEPT ![k] = seen]
  BY <1>1, <1>2 DEF RowsByKey
<1>4. {j \in Keys : (IF j = k THEN seen ELSE entities[g][j]) # Absent}
        = {j \in Keys : entities'[g][j] # Absent}
  BY <1>2, <1>3 DEF RowsByKey
<1>5. count \in Nat
  BY BatchesAssumption, FS_Subset, FS_CardinalityType
<1> HIDE DEF count
<1>6. /\ space' \in Spaces /\ space'.generation = space.generation
      /\ space'.active = space.active /\ space'.schema = space.schema
      /\ space'.target = space.target /\ space'.count = count
  BY <1>1, <1>2, <1>5 DEF Spaces
<1>7. DatabaseType'
  BY <1>1, <1>3, <1>6 DEF DatabaseType
<1>8. Agreement'
  BY <1>6 DEF Agreement
<1>9. Bounded' /\ Copied'
  BY <1>6 DEF Bounded, Top, Copied
<1>10. Counted'
  BY <1>4, <1>6 DEF Counted, Present, count
<1>11. Views'
  BY <1>6 DEF Views, RowsOf
<1>12. ASSUME NEW q \in Processes, NEW s \in Requests, Sound(q, s) PROVE Sound(q, s)'
  <2>1. s.at = "begin" => SeenSpace(q, s.saw)'
    BY <1>6, <1>12 DEF Sound, SeenSpace
  <2>2. s.at \in {"rows", "commit"} => SeenProgress(s.saw)'
    BY <1>6, <1>12 DEF Sound, SeenProgress
  <2>3. s.at = "commit" => s.saw # progress'
    BY <1>12, NoneAssumption DEF Sound, SeenProgress
  <2> QED BY <1>12, <2>1, <2>2, <2>3 DEF Sound
<1> QED BY <1>7, <1>8, <1>9, <1>10, <1>11, <1>12

LEMMA AdmitKeeps ==
  ASSUME ServerInv, NEW p \in Processes, Admit(p)
  PROVE  ServerInv'
<1>1. CASE ~ ValidateStoredSpace(p)
  <2>1. Fail(p) /\ UNCHANGED database
    BY <1>1 DEF Admit, Fail, database
  <2> QED BY <2>1, FailKeeps
<1>2. CASE ValidateStoredSpace(p)
  <2>1. PICK k \in Keys : \/ \E v \in Values : Written(k, Row(v, Version[p]))
                          \/ Written(k, Absent)
    BY <1>2 DEF Admit
  <2>2. \A v \in Values : Row(v, Version[p]) \in Rows
    BY VersionsAreNaturals DEF Row, Rows
  <2>3. PICK seen \in {Absent} \cup Rows : Written(k, seen)
    BY <2>1, <2>2
  <2>4. progress = None /\ UNCHANGED <<progress, scoped>> /\ Goto(p, Idle)
    BY <1>2 DEF ValidateStoredSpace, Admit, ServerInv, Database, Agreement
  <2>5. Database' /\ \A q \in Processes, s \in Requests : Sound(q, s) => Sound(q, s)'
    BY <2>3, <2>4, WrittenKeeps
  <2>6. Requesting'
    BY <2>4, <2>5, IdleIsSound, GotoKeeps DEF ServerInv
  <2> QED BY <2>5, <2>6 DEF ServerInv
<1> QED BY <1>1, <1>2

LEMMA ReplicateKeeps ==
  ASSUME ServerInv, NEW p \in Processes, Replicate(p)
  PROVE  ServerInv'
<1> USE DEF Database
<1>1. CASE ~ ValidatePreparedSpace(p)
  <2>1. Fail(p) /\ UNCHANGED database
    BY <1>1 DEF Replicate, Fail, database
  <2> QED BY <2>1, FailKeeps
<1>2. CASE ValidatePreparedSpace(p)
  <2>1. PICK c \in Clients : scoped' = [t \in Tables |-> [scoped[t] EXCEPT ![c] = Version[p]]]
    BY <1>2 DEF Replicate
  <2>2. /\ UNCHANGED <<space, progress, entities, log>> /\ Goto(p, Idle)
        /\ space.schema = Version[p] /\ space.target = None /\ progress = None
    BY <1>2 DEF Replicate, ValidatePreparedSpace, ServerInv, Agreement
  <2>3. Version[p] \in Nat /\ Version[p] # 0 /\ scoped \in [Tables -> [Clients -> Nat]]
    BY VersionsAreNaturals DEF ServerInv, DatabaseType
  <2>4. /\ scoped' \in [Tables -> [Clients -> Nat]]
        /\ \A t \in Tables, d \in Clients :
             scoped'[t][d] = IF d = c THEN Version[p] ELSE scoped[t][d]
    BY <2>1, <2>3
  <2>5. \A t \in Tables : RowsOf(t)' = RowsOf(t) \cup {c}
    BY <2>3, <2>4 DEF RowsOf
  <2>6. DatabaseType' /\ Agreement' /\ Bounded' /\ Copied' /\ Counted'
    BY <2>2, <2>4 DEF ServerInv, DatabaseType, Agreement, Bounded, Top, Copied, Counted, Present
  <2>7. Views'
    <3>1. RowsOf("entries")' \subseteq RowsOf("snapshots")'
      BY <2>5 DEF ServerInv, Views, Tables
    <3> QED BY <2>2, <2>4, <2>5, <3>1 DEF ServerInv, Views, RowsOf
  <2>8. ASSUME NEW q \in Processes, NEW s \in Requests, Sound(q, s) PROVE Sound(q, s)'
    BY <2>2, <2>8 DEF Sound, SeenSpace, SeenProgress, Read, Present
  <2>9. Requesting'
    BY <2>2, <2>8, IdleIsSound, GotoKeeps DEF ServerInv
  <2> QED BY <2>6, <2>7, <2>9 DEF ServerInv
<1> QED BY <1>1, <1>2

(***************************************************************************)
(* The invariant holds.                                                    *)
(***************************************************************************)
LEMMA OldestIsAVersion == Oldest \in Versions
<1>1. \E v \in Versions : \A w \in Versions : v <= w
  BY VersionsAreNaturals, LeastExists
<1> QED BY <1>1 DEF Oldest

LEMMA InitEstablishes ==
  ASSUME ServerInit
  PROVE  ServerInv
<1>1. PICK rows \in [Keys -> {Absent} \cup {Row(v, Oldest) : v \in Values}] :
       /\ entities = [g \in Generations |-> IF g = 0 THEN rows ELSE NoEntities]
       /\ space = [generation |-> 0, active |-> 0, schema |-> Oldest, target |-> None,
                   count |-> Cardinality({k \in Keys : rows[k] # Absent})]
  BY DEF ServerInit
<1>2. /\ progress = None /\ log = <<>>
      /\ scoped = [t \in Tables |-> [c \in Clients |-> 0]]
      /\ request = [p \in Processes |-> Idle]
  BY DEF ServerInit
<1>3. Oldest \in Versions /\ Oldest \in Nat
  BY OldestIsAVersion, VersionsAreNaturals
<1>4. 0 \in Generations
  BY VersionsAreNaturals, FS_CardinalityType DEF Generations
<1>5. Cardinality({k \in Keys : rows[k] # Absent}) \in Nat
  BY BatchesAssumption, FS_Subset, FS_CardinalityType
<1>6. rows \in RowsByKey /\ NoEntities \in RowsByKey
  <2>1. \A v \in Values : Row(v, Oldest) \in Rows
    BY <1>3 DEF Row, Rows
  <2> QED BY <1>1, <2>1 DEF RowsByKey, NoEntities
<1>7. DatabaseType
  <2>1. space \in Spaces
    BY <1>1, <1>3, <1>5 DEF Spaces
  <2>2. entities \in [Generations -> RowsByKey]
    BY <1>1, <1>6
  <2> QED BY <1>2, <2>1, <2>2 DEF DatabaseType
<1>8. Agreement
  BY <1>1, <1>2, <1>3 DEF Agreement
<1>9. Bounded
  <2>1. Oldest \in UpTo(Oldest) /\ UpTo(Oldest) \subseteq Versions
    BY <1>3 DEF UpTo
  <2>2. IsFiniteSet(UpTo(Oldest))
    BY <2>1, VersionsAreNaturals, FS_Subset
  <2>3. Cardinality(UpTo(Oldest)) \in Nat /\ Cardinality(UpTo(Oldest)) # 0
    BY <2>1, <2>2, FS_CardinalityType, FS_EmptySet
  <2> QED BY <1>1, <2>3 DEF Bounded, Top
<1>10. Copied /\ Counted
  BY <1>1, <1>2, <1>4 DEF Copied, Counted, Present
<1>11. Views
  <2>1. \A t \in Tables : RowsOf(t) = {}
    BY <1>2 DEF RowsOf
  <2> QED BY <1>2, <2>1 DEF Views, Tables
<1>12. Requesting
  <2>1. Idle \in Requests
    BY DEF Idle, Requests, Steps
  <2> QED BY <1>2, <2>1, IdleIsSound DEF Requesting
<1> QED BY <1>7, <1>8, <1>9, <1>10, <1>11, <1>12 DEF ServerInv, Database

LEMMA StepKeeps ==
  ASSUME ServerInv, ~ Overtakes, [ServerNext]_serverVars
  PROVE  ServerInv'
<1>1. CASE UNCHANGED serverVars
  <2>1. UNCHANGED database /\ request' = request
    BY <1>1 DEF serverVars
  <2>2. Requesting'
    BY <2>1 DEF ServerInv, Requesting, Sound, SeenSpace, SeenProgress, Read, Present, database
  <2> QED BY <2>1, <2>2, DatabaseKept DEF ServerInv
<1>2. ASSUME NEW p \in Processes, Receive(p) \/ Prepare(p) \/ Serve(p) \/ Interrupt(p)
      PROVE  ServerInv'
  BY <1>2, ReadingKeeps, BeginPromotionKeeps, LogBatchKeeps, EntitiesBatchKeeps, FlipKeeps,
     CleanupScopedKeeps, CleanupEntitiesKeeps, FinalizeKeeps, AdmitKeeps, ReplicateKeeps
     DEF Prepare, Serve
<1> QED BY <1>1, <1>2 DEF ServerNext

(* The rows that tell of a promotion agree at every moment, the new        *)
(* generation is the migration of the old one as far as it was copied, and *)
(* every process validates what is still so.                               *)
THEOREM PromotionInvariance ==
  ASSUME ~ Overtakes
  PROVE  ServerSpec => []ServerInv
BY InitEstablishes, StepKeeps, PTL DEF ServerSpec

(* Once a promotion has ended no snapshot, page or view of the old schema  *)
(* is left and the count that bounds capacity is that of the entities      *)
(* readers find, however many processes promoted the space.                *)
THEOREM ViewsCorrect ==
  ASSUME ~ Overtakes
  PROVE  ServerSpec => []ViewsAreCurrent
<1>1. ServerInv => ViewsAreCurrent
  BY DEF ServerInv, Database, Views, Counted, ViewsAreCurrent
<1> QED BY <1>1, PromotionInvariance, PTL

(***************************************************************************)
(* Readers see one upgrade.                                                *)
(***************************************************************************)
LEMMA InitIsUpgradeInit ==
  ASSUME ServerInit
  PROVE  Upgrade!Init
<1>1. PICK rows \in [Keys -> {Absent} \cup {Row(v, Oldest) : v \in Values}] :
       /\ entities = [g \in Generations |-> IF g = 0 THEN rows ELSE NoEntities]
       /\ space.active = 0 /\ space.generation = 0 /\ space.schema = Oldest
       /\ progress = None
  BY DEF ServerInit
<1>2. 0 \in Generations
  BY VersionsAreNaturals, FS_CardinalityType DEF Generations
<1>3. entities[space.active] = rows /\ ShownSchema = Oldest
  BY <1>1, <1>2 DEF ShownSchema
<1> QED BY <1>1, <1>3, OldestIsAVersion DEF Upgrade!Init, Upgrade!Row, Row

\* What readers find is as it was
Shown == <<entities[space.active], ShownSchema>>

LEMMA ReadingIsStutter ==
  ASSUME UNCHANGED database
  PROVE  UNCHANGED Shown
BY DEF database, Shown, ShownSchema

LEMMA PromotingIsStutter ==
  ASSUME ServerInv, NEW p \in Processes,
         LogBatch(p) \/ EntitiesBatch(p) \/ CleanupScoped(p) \/ CleanupEntities(p)
  PROVE  UNCHANGED Shown
<1> USE DEF ServerInv, Database
<1>1. /\ At(p, "commit") /\ ValidateBatch(p) /\ UNCHANGED space
      /\ \/ UNCHANGED entities
         \/ progress.phase = "Entities" /\ EntitiesBatch(p)
         \/ progress.phase = "CleanupEntities" /\ CleanupEntities(p)
  BY DEF LogBatch, EntitiesBatch, CleanupScoped, CleanupEntities, InPhase, ValidateBatch
<1>2. /\ progress \in Progresses /\ progress # None
      /\ progress.from \in Generations /\ progress.generation \in Generations
      /\ progress.from # progress.generation
  BY <1>1, BatchRead, RoomForGenerations
<1>3. ServerInv'
  BY LogBatchKeeps, EntitiesBatchKeeps, CleanupScopedKeeps, CleanupEntitiesKeeps
<1>4. progress' # None
  BY <1>1, <1>2, <1>3 DEF Agreement
<1>5. ShownSchema' = ShownSchema
  BY <1>1, <1>2, <1>4 DEF ShownSchema
<1>6. entities'[space.active] = entities[space.active]
  <2>1. CASE progress.phase = "Entities" /\ EntitiesBatch(p)
    <3>1. space.active = progress.from
      BY <1>2, <2>1 DEF Agreement, BeforeFlip
    <3> QED BY <1>2, <2>1, <3>1 DEF EntitiesBatch, DatabaseType
  <2>2. CASE progress.phase = "CleanupEntities" /\ CleanupEntities(p)
    <3>1. space.active = progress.generation
      BY <1>2, <2>2 DEF Agreement, BeforeFlip
    <3> QED BY <1>2, <2>2, <3>1 DEF CleanupEntities, DatabaseType
  <2> QED BY <1>1, <2>1, <2>2
<1> QED BY <1>1, <1>5, <1>6 DEF Shown

LEMMA BeginPromotionIsStutter ==
  ASSUME ServerInv, NEW p \in Processes, BeginPromotion(p)
  PROVE  UNCHANGED Shown
<1> USE DEF ServerInv, Database
<1>1. CASE ~ Promotable(p)
  BY <1>1, ReadingIsStutter DEF BeginPromotion, database
<1>2. CASE Promotable(p)
  <2>1. SeenSpace(p, Saw(p)) /\ Saw(p) \in Spaces /\ space \in Spaces
    BY DEF Requesting, Sound, SeenSpace, BeginPromotion, At, Saw, DatabaseType
  <2>2. /\ space.target = None /\ progress = None /\ space.active = space.generation
        /\ space.schema = Saw(p).schema /\ space.generation = Saw(p).generation
        /\ space.generation \in Nat
    BY <1>2, <2>1 DEF SeenSpace, Promotable, Agreement, Spaces
  <2>3. /\ space'.active = space.active /\ space'.generation = space.generation + 1
        /\ space'.schema = space.schema
        /\ entities' = [entities EXCEPT ![space.generation + 1] = NoEntities]
    BY <1>2, <2>1, <2>2 DEF BeginPromotion, Beginning, Spaces
  <2>4. entities'[space.active] = entities[space.active]
    BY <2>2, <2>3, RoomForGenerations DEF DatabaseType
  <2> QED BY <2>2, <2>3, <2>4 DEF Shown, ShownSchema
<1> QED BY <1>1, <1>2

LEMMA FinalizeIsStutter ==
  ASSUME ServerInv, NEW p \in Processes, Finalize(p)
  PROVE  UNCHANGED Shown
<1> USE DEF ServerInv, Database
<1>1. /\ At(p, "commit") /\ ValidateBatch(p) /\ progress.phase = "Finalize"
      /\ space' = [space EXCEPT !.schema = progress.target, !.target = None]
      /\ progress' = None /\ UNCHANGED entities
  BY DEF Finalize, InPhase, ValidateBatch
<1>2. /\ progress # None /\ space \in Spaces
      /\ space.active = space.generation /\ progress.target = space.target
  BY <1>1, BatchRead DEF DatabaseType, Agreement, BeforeFlip
<1>3. space'.active = space.active /\ space'.schema = space.target
  BY <1>1, <1>2 DEF Spaces
<1> QED BY <1>1, <1>2, <1>3 DEF Shown, ShownSchema

LEMMA FlipIsUpgrade ==
  ASSUME ServerInv, NEW p \in Processes, Flip(p)
  PROVE  Upgrade!Upgrade(space.target) /\ space.target \in Versions
<1> USE DEF ServerInv, Database
<1>1. /\ At(p, "commit") /\ ValidateBatch(p) /\ progress.phase = "Flip" /\ UNCHANGED entities
      /\ space' = [space EXCEPT !.active = progress.generation, !.count = progress.copied]
      /\ progress' = Advance("CleanupScopedSnapshotEntries")
  BY DEF Flip, InPhase, ValidateBatch
<1>2. /\ progress \in Progresses /\ progress # None /\ space \in Spaces
      /\ space.active = progress.from /\ progress.generation = space.generation
      /\ progress.target = space.target /\ space.schema < space.target
      /\ progress.from # progress.generation
      /\ progress.from \in Generations /\ progress.generation \in Generations
  BY <1>1, BatchRead, RoomForGenerations DEF DatabaseType, Agreement, BeforeFlip
<1>3. ServerInv'
  BY FlipKeeps
<1>4. /\ space'.active = progress.generation /\ space'.generation = space.generation
      /\ space'.target = space.target
  BY <1>1, <1>2 DEF Spaces
<1>5. progress' # None /\ space.target \in Versions
  BY <1>2, <1>3, <1>4 DEF Agreement
<1>6. ShownSchema = space.schema /\ ShownSchema' = space.target
  BY <1>2, <1>4, <1>5 DEF ShownSchema
<1>7. \A k \in Keys : entities[progress.generation][k] =
        IF entities[space.active][k] = Absent THEN Absent
        ELSE Upgrade!Row(entities[space.active][k].value, space.target)
  BY <1>1, <1>2 DEF Copied, BeforeFlip, IsCopied, Copy, Migrated, Row, Upgrade!Row
<1>8. entities[progress.generation] =
        [k \in Keys |-> IF entities[space.active][k] = Absent THEN Absent
                       ELSE Upgrade!Row(entities[space.active][k].value, space.target)]
  BY <1>2, <1>7 DEF DatabaseType, RowsByKey
<1>9. space.schema \in Nat /\ space.target \in Nat
  BY <1>5, VersionsAreNaturals DEF Agreement
<1> QED BY <1>1, <1>2, <1>4, <1>5, <1>6, <1>8, <1>9 DEF Upgrade!Upgrade

LEMMA AdmitIsWrite ==
  ASSUME ServerInv, NEW p \in Processes, Admit(p)
  PROVE  UNCHANGED Shown \/ \E k \in Keys : Upgrade!Write(k)
<1> USE DEF ServerInv, Database
<1>1. CASE ~ ValidateStoredSpace(p)
  BY <1>1, ReadingIsStutter DEF Admit, database
<1>2. CASE ValidateStoredSpace(p)
  <2>1. PICK k \in Keys, seen \in {Absent} \cup {Row(v, Version[p]) : v \in Values} :
          Written(k, seen)
    BY <1>2 DEF Admit
  <2>2. /\ progress = None /\ progress' = None /\ space \in Spaces
        /\ space.schema = Version[p] /\ space.active \in Generations
    BY <1>2, RoomForGenerations DEF ValidateStoredSpace, Admit, Agreement, DatabaseType
  <2>3. /\ space'.active = space.active /\ space'.schema = space.schema
        /\ entities'[space.active] = [entities[space.active] EXCEPT ![k] = seen]
    BY <2>1, <2>2 DEF Written, Spaces, DatabaseType
  <2>4. ShownSchema = Version[p] /\ ShownSchema' = ShownSchema
    BY <2>2, <2>3 DEF ShownSchema
  <2>5. entities'[space'.active] = [entities[space.active] EXCEPT ![k] = seen]
    BY <2>3
  <2>6. Upgrade!Delete(k) \/ \E v \in Values : Upgrade!Upsert(k, v)
    BY <2>1, <2>4, <2>5 DEF Upgrade!Delete, Upgrade!Upsert, Upgrade!Row, Row
  <2> QED BY <2>4, <2>6 DEF Upgrade!Write
<1> QED BY <1>1, <1>2

LEMMA StepIsUpgradeStep ==
  ASSUME ServerInv, [ServerNext]_serverVars
  PROVE  [Upgrade!Next]_(Upgrade!vars)
<1>1. UNCHANGED Shown => UNCHANGED Upgrade!vars
  BY DEF Shown, Upgrade!vars
<1>2. CASE UNCHANGED serverVars
  BY <1>1, <1>2, ReadingIsStutter DEF serverVars
<1>3. ASSUME NEW p \in Processes, Receive(p) \/ Prepare(p) \/ Serve(p) \/ Interrupt(p)
      PROVE  Upgrade!Next \/ UNCHANGED Shown
  <2>1. CASE \/ Receive(p) \/ ReadProgress(p) \/ ReadSpace(p) \/ RereadProgress(p)
             \/ ReadState(p) \/ ReadRows(p) \/ Conflict(p) \/ Interrupt(p)
    BY <2>1, ReadingIsStutter DEF Receive, ReadProgress, ReadSpace, RereadProgress,
       ReadState, ReadRows, Conflict, Interrupt
  <2>2. CASE LogBatch(p) \/ EntitiesBatch(p) \/ CleanupScoped(p) \/ CleanupEntities(p)
    BY <2>2, PromotingIsStutter
  <2>3. CASE Flip(p)
    BY <2>3, FlipIsUpgrade DEF Upgrade!Next
  <2>4. CASE Admit(p)
    BY <2>4, AdmitIsWrite DEF Upgrade!Next
  <2>5. CASE Replicate(p)
    BY <2>5 DEF Replicate, Shown, ShownSchema
  <2> QED BY <1>3, <2>1, <2>2, <2>3, <2>4, <2>5, BeginPromotionIsStutter, FinalizeIsStutter
          DEF Prepare, Serve
<1> QED BY <1>1, <1>2, <1>3 DEF ServerNext

(* Whichever processes drive a promotion and wherever they die, a reader   *)
(* of the active generation finds the space change schema at once, with    *)
(* every entity migrated and none lost or invented.                        *)
THEOREM PromotionIsUpgrade ==
  ASSUME ~ Overtakes
  PROVE  ServerSpec => ImplementsUpgrade
<1>1. ServerInit => Upgrade!Init
  BY InitIsUpgradeInit
<1>2. ServerInv /\ [ServerNext]_serverVars => [Upgrade!Next]_(Upgrade!vars)
  BY StepIsUpgradeStep
<1> QED BY <1>1, <1>2, PromotionInvariance, PTL DEF ServerSpec, ImplementsUpgrade, Upgrade!Spec

(***************************************************************************)
(* The client's copy, however often the application stops.  ClientInv says *)
(* of the open generation that it has what the first version left, and of  *)
(* the new one that it has exactly what the cursor has passed of each      *)
(* table.                                                                  *)
(***************************************************************************)
Writers == Mutations \cup {Other}
Copies == [Keys -> SUBSET Writers]

\* No receipt of the copy came before the page it announces
Foretold == \A r \in before.receipts : r.covered

\* What a promotion has read of each table so far
CopiedKey(k) ==
  \/ evolution.phase \in {"Receipts", "Pending", "Retractions", "Flip"}
  \/ evolution.phase = "Entities" /\ k <= evolution.after
Told(m) ==
  \/ evolution.phase \in {"Pending", "Retractions", "Flip"}
  \/ evolution.phase = "Receipts" /\ m <= evolution.after
Treated(m) ==
  \/ evolution.phase \in {"Retractions", "Flip"}
  \/ evolution.phase = "Pending" /\ m <= evolution.after
FencedKey(k) ==
  \/ evolution.phase = "Flip"
  \/ evolution.phase = "Retractions" /\ k <= evolution.after

Older(v) == {u \in Releases : u < v}

ClientRows == [generation : Nat, active : Nat, schema : Releases,
               target : Releases \cup {None}, view : BOOLEAN]

ClientType ==
  /\ application \in Releases \cup {None}
  /\ row \in ClientRows /\ evolution \in Evolutions \cup {None}
  /\ DOMAIN canonical = GenerationNumbers /\ DOMAIN visible = GenerationNumbers
  /\ DOMAIN pending = GenerationNumbers /\ DOMAIN receipts = GenerationNumbers
  /\ DOMAIN retracted = GenerationNumbers
  /\ before.content \in Copies /\ before.owed \subseteq Mutations
  /\ before.receipts \subseteq [id : Mutations, covered : BOOLEAN]

\* The row of the space and that of its promotion are of one promotion
RowsAgree ==
  IF evolution = None THEN
    row.active = row.generation /\ row.generation <= Cardinality(Older(row.schema))
  ELSE
    /\ row.generation = evolution.generation /\ row.schema = evolution.source
    /\ row.target = evolution.target
    /\ row.active = IF evolution.phase \in UntilFlip THEN From ELSE To
    /\ evolution.source < evolution.target /\ From < To
    /\ To <= Cardinality(Older(evolution.target))

Promoting == evolution # None /\ evolution.phase \in UntilFlip

\* What the store would open
Open ==
  /\ canonical[Active] = before.content /\ receipts[Active] = before.receipts
  /\ visible[Active] \in Copies /\ retracted[Active] \subseteq Keys
  /\ pending[Active] \in Seq(Mutations) /\ Increasing(pending[Active])
  /\ before.owed = Range(pending[Active]) \cup quarantine
  /\ ~ Promoting => Range(pending[Active]) \cap quarantine = {}

\* What a promotion has made so far of what is open
New ==
  /\ canonical[To] = [k \in Keys |-> IF CopiedKey(k) THEN before.content[k] ELSE {}]
  /\ receipts[To] = {r \in before.receipts : Told(r.id)}
  /\ visible[To] \in Copies
  /\ pending[To] \in Seq(Mutations) /\ Increasing(pending[To])
  /\ Range(pending[To]) = {m \in Range(pending[From]) : Treated(m)} \ quarantine
  /\ \A m \in Range(pending[From]) \cap quarantine : Treated(m)
  /\ retracted[To] = {k \in retracted[From] : FencedKey(k)}
  /\ Foretold =>
       visible[To] = Hidden(Replay(pending[To], receipts[To], evolution.target, canonical[To]),
                            retracted[To])

ClientInv == ClientType /\ RowsAgree /\ Open /\ ShownIsReplay /\ (Promoting => New)

(***************************************************************************)
(* A client's copy.  Replaying one row more, and the rows of a batch, are  *)
(* the two recursive functions of the model.                               *)
(***************************************************************************)
Replaying(rows, rs, v, content, f, i) ==
  IF i = 0 THEN content
  ELSE IF rows[i] \in Covered(rs) THEN f[i - 1]
  ELSE Run(rows[i], v, f[i - 1])

LEMMA ReplayExists ==
  ASSUME NEW rows, NEW rs, NEW v, NEW content, NEW n \in Nat
  PROVE  \E f : f = [i \in 0 .. n |-> Replaying(rows, rs, v, content, f, i)]
<1>1. PICK Failing :
        Failing = {k \in Nat :
                     ~ \E f : f = [i \in 0 .. k |-> Replaying(rows, rs, v, content, f, i)]}
  OBVIOUS
<1> SUFFICES ASSUME Failing # {} PROVE FALSE
  BY <1>1
<1>2. PICK k \in Failing : \A x \in Failing : k <= x
  BY <1>1, LeastExists
<1>3. k \in Nat /\ ~ \E f : f = [i \in 0 .. k |-> Replaying(rows, rs, v, content, f, i)]
  BY <1>1
<1>4. k # 0
  <2>1. SUFFICES ASSUME k = 0 PROVE FALSE
    OBVIOUS
  <2>2. PICK f : f = [i \in 0 .. k |-> content]
    OBVIOUS
  <2>3. \A i \in 0 .. k : Replaying(rows, rs, v, content, f, i) = content
    BY <2>1 DEF Replaying
  <2>4. f = [i \in 0 .. k |-> Replaying(rows, rs, v, content, f, i)]
    BY <2>2, <2>3
  <2> QED BY <1>3, <2>4
<1>5. PICK f : f = [i \in 0 .. k - 1 |-> Replaying(rows, rs, v, content, f, i)]
  <2>1. k - 1 \in Nat /\ k - 1 \notin Failing
    BY <1>2, <1>3, <1>4
  <2> QED BY <1>1, <2>1
<1>6. PICK g : g = [i \in 0 .. k |-> IF i = k THEN Replaying(rows, rs, v, content, f, k) ELSE f[i]]
  OBVIOUS
<1>7. ASSUME NEW i \in 0 .. k PROVE g[i] = Replaying(rows, rs, v, content, g, i)
  <2>1. CASE i = 0
    <3>1. 0 \in 0 .. k - 1 /\ 0 \in 0 .. k /\ 0 # k
      BY <1>3, <1>4
    <3>2. f[0] = content /\ g[0] = f[0]
      BY <1>5, <1>6, <3>1 DEF Replaying
    <3> QED BY <2>1, <3>2 DEF Replaying
  <2>2. CASE i # 0
    <3>1. i - 1 \in 0 .. k - 1 /\ i - 1 \in 0 .. k /\ i - 1 # k
      BY ONLY <1>3, <2>2, i \in 0 .. k
    <3>2. g[i - 1] = f[i - 1]
      BY <1>6, <3>1
    <3>3. Replaying(rows, rs, v, content, g, i) = Replaying(rows, rs, v, content, f, i)
      BY <2>2, <3>2 DEF Replaying
    <3>4. i = k \/ i \in 0 .. k - 1
      BY ONLY <1>3, <2>2, i \in 0 .. k
    <3>5. g[i] = Replaying(rows, rs, v, content, f, i)
      BY <1>5, <1>6, <3>4
    <3> QED BY <3>3, <3>5
  <2> QED BY <2>1, <2>2
<1>8. g = [i \in 0 .. k |-> Replaying(rows, rs, v, content, g, i)]
  BY <1>6, <1>7
<1> QED BY <1>3, <1>8

LEMMA ReplayIs ==
  ASSUME NEW rows, NEW rs, NEW v, NEW content, Len(rows) \in Nat
  PROVE  \E f : /\ Replay(rows, rs, v, content) = f[Len(rows)]
                /\ f[0] = content
                /\ \A i \in 1 .. Len(rows) :
                     f[i] = IF rows[i] \in Covered(rs) THEN f[i - 1]
                            ELSE Run(rows[i], v, f[i - 1])
<1>1. PICK n \in Nat : n = Len(rows)
  OBVIOUS
<1>2. PICK f : f = CHOOSE g : g = [i \in 0 .. n |-> Replaying(rows, rs, v, content, g, i)]
  OBVIOUS
<1>3. f = [i \in 0 .. n |-> Replaying(rows, rs, v, content, f, i)]
  BY <1>2, ReplayExists
<1>4. Replay(rows, rs, v, content) = f[n]
  BY <1>1, <1>2 DEF Replay, Replaying
<1>5. 0 \in 0 .. n /\ \A i \in 1 .. n : i \in 0 .. n /\ i # 0
  OBVIOUS
<1>6. f[0] = content
  BY <1>3, <1>5 DEF Replaying
<1>7. \A i \in 1 .. n : f[i] = Replaying(rows, rs, v, content, f, i)
  BY <1>3, <1>5
<1>8. \A i \in 1 .. n : f[i] = IF rows[i] \in Covered(rs) THEN f[i - 1]
                               ELSE Run(rows[i], v, f[i - 1])
  BY <1>5, <1>7 DEF Replaying
<1> QED BY <1>1, <1>4, <1>6, <1>8

LEMMA ReplayNothing ==
  ASSUME NEW rs, NEW v, NEW content
  PROVE  Replay(<<>>, rs, v, content) = content
<1>1. Len(<<>>) = 0
  OBVIOUS
<1> QED BY <1>1, ReplayIs

LEMMA AppendedRow ==
  ASSUME NEW rows \in Seq(Mutations), NEW m \in Mutations
  PROVE  /\ Len(rows) \in Nat /\ Append(rows, m) \in Seq(Mutations)
         /\ Len(Append(rows, m)) = Len(rows) + 1
         /\ Append(rows, m)[Len(rows) + 1] = m
         /\ \A i \in 1 .. Len(rows) : Append(rows, m)[i] = rows[i]
OBVIOUS

(* A row at the end is replayed last.                                      *)
LEMMA ReplayAppend ==
  ASSUME NEW rows \in Seq(Mutations), NEW m \in Mutations, NEW rs, NEW v, NEW content
  PROVE  Replay(Append(rows, m), rs, v, content) =
           IF m \in Covered(rs) THEN Replay(rows, rs, v, content)
           ELSE Run(m, v, Replay(rows, rs, v, content))
<1>1. PICK n \in Nat, longer \in Seq(Mutations) :
        /\ n = Len(rows) /\ longer = Append(rows, m) /\ Len(longer) = n + 1
        /\ longer[n + 1] = m /\ \A i \in 1 .. n : longer[i] = rows[i]
  BY AppendedRow
<1>2. PICK f : /\ Replay(rows, rs, v, content) = f[n]
               /\ f[0] = content
               /\ \A i \in 1 .. n : f[i] = IF rows[i] \in Covered(rs) THEN f[i - 1]
                                           ELSE Run(rows[i], v, f[i - 1])
  BY <1>1, ReplayIs
<1>3. PICK g : /\ Replay(longer, rs, v, content) = g[n + 1]
               /\ g[0] = content
               /\ \A i \in 1 .. n + 1 : g[i] = IF longer[i] \in Covered(rs) THEN g[i - 1]
                                               ELSE Run(longer[i], v, g[i - 1])
  <2>1. Len(longer) \in Nat
    BY <1>1
  <2>2. \E g : /\ Replay(longer, rs, v, content) = g[Len(longer)]
               /\ g[0] = content
               /\ \A i \in 1 .. Len(longer) :
                    g[i] = IF longer[i] \in Covered(rs) THEN g[i - 1]
                           ELSE Run(longer[i], v, g[i - 1])
    BY <2>1, ReplayIs
  <2> QED BY <1>1, <2>2
<1>4. PICK Failing : Failing = {i \in 0 .. n : f[i] # g[i]}
  OBVIOUS
<1>5. ASSUME Failing # {} PROVE FALSE
  <2>1. PICK k \in Failing : \A x \in Failing : k <= x
    <3>1. Failing \in SUBSET Nat
      BY <1>4
    <3> QED BY <1>5, <3>1, LeastExists
  <2>2. k \in 0 .. n /\ f[k] # g[k]
    BY <1>4
  <2>3. k # 0
    BY <1>2, <1>3, <2>2
  <2>4. k \in 1 .. n /\ k \in 1 .. n + 1 /\ k - 1 \in 0 .. n /\ ~ (k <= k - 1)
    BY ONLY <2>2, <2>3, n \in Nat
  <2>5. f[k - 1] = g[k - 1]
    BY <1>4, <2>1, <2>4
  <2>6. longer[k] = rows[k]
    BY <1>1, <2>4
  <2> QED BY <1>2, <1>3, <2>2, <2>4, <2>5, <2>6
<1>6. f[n] = g[n]
  <2>1. n \in 0 .. n
    OBVIOUS
  <2> QED BY <1>4, <1>5, <2>1
<1>7. n + 1 \in 1 .. n + 1 /\ (n + 1) - 1 = n
  OBVIOUS
<1>8. g[n + 1] = IF m \in Covered(rs) THEN g[n] ELSE Run(m, v, g[n])
  BY <1>1, <1>3, <1>7
<1> QED BY <1>1, <1>2, <1>3, <1>6, <1>8

StartState == [content |-> visible[To], rows |-> pending[To], aside |-> {}]

Promotes(batch, f, i) ==
  IF i = 0 THEN StartState
  ELSE IF pending[From][i] \in batch THEN PromoteRow(f[i - 1], pending[From][i])
  ELSE f[i - 1]

LEMMA PromotionExists ==
  ASSUME NEW batch, NEW n \in Nat
  PROVE  \E f : f = [i \in 0 .. n |-> Promotes(batch, f, i)]
<1>1. PICK Failing :
        Failing = {k \in Nat : ~ \E f : f = [i \in 0 .. k |-> Promotes(batch, f, i)]}
  OBVIOUS
<1> SUFFICES ASSUME Failing # {} PROVE FALSE
  BY <1>1
<1>2. PICK k \in Failing : \A x \in Failing : k <= x
  BY <1>1, LeastExists
<1>3. k \in Nat /\ ~ \E f : f = [i \in 0 .. k |-> Promotes(batch, f, i)]
  BY <1>1
<1>4. k # 0
  <2>1. SUFFICES ASSUME k = 0 PROVE FALSE
    OBVIOUS
  <2>2. PICK f : f = [i \in 0 .. k |-> StartState]
    OBVIOUS
  <2>3. \A i \in 0 .. k : Promotes(batch, f, i) = StartState
    BY <2>1 DEF Promotes
  <2>4. f = [i \in 0 .. k |-> Promotes(batch, f, i)]
    BY <2>2, <2>3
  <2> QED BY <1>3, <2>4
<1>5. PICK f : f = [i \in 0 .. k - 1 |-> Promotes(batch, f, i)]
  <2>1. k - 1 \in Nat /\ k - 1 \notin Failing
    BY <1>2, <1>3, <1>4
  <2> QED BY <1>1, <2>1
<1>6. PICK g : g = [i \in 0 .. k |-> IF i = k THEN Promotes(batch, f, k) ELSE f[i]]
  OBVIOUS
<1>7. ASSUME NEW i \in 0 .. k PROVE g[i] = Promotes(batch, g, i)
  <2>1. CASE i = 0
    <3>1. 0 \in 0 .. k - 1 /\ 0 \in 0 .. k /\ 0 # k
      BY <1>3, <1>4
    <3>2. f[0] = StartState /\ g[0] = f[0]
      BY <1>5, <1>6, <3>1 DEF Promotes
    <3> QED BY <2>1, <3>2 DEF Promotes
  <2>2. CASE i # 0
    <3>1. i - 1 \in 0 .. k - 1 /\ i - 1 \in 0 .. k /\ i - 1 # k
      BY ONLY <1>3, <2>2, i \in 0 .. k
    <3>2. g[i - 1] = f[i - 1]
      BY <1>6, <3>1
    <3>3. Promotes(batch, g, i) = Promotes(batch, f, i)
      BY <2>2, <3>2 DEF Promotes
    <3>4. i = k \/ i \in 0 .. k - 1
      BY ONLY <1>3, <2>2, i \in 0 .. k
    <3>5. g[i] = Promotes(batch, f, i)
      BY <1>5, <1>6, <3>4
    <3> QED BY <3>3, <3>5
  <2> QED BY <2>1, <2>2
<1>8. g = [i \in 0 .. k |-> Promotes(batch, g, i)]
  BY <1>6, <1>7
<1> QED BY <1>3, <1>8

LEMMA PromoteRowsIs ==
  ASSUME NEW batch, Len(pending[From]) \in Nat
  PROVE  \E f : /\ PromoteRows(batch) = f[Len(pending[From])]
                /\ f[0] = StartState
                /\ \A i \in 1 .. Len(pending[From]) :
                     f[i] = IF pending[From][i] \in batch
                              THEN PromoteRow(f[i - 1], pending[From][i])
                            ELSE f[i - 1]
<1>1. PICK n \in Nat : n = Len(pending[From])
  OBVIOUS
<1>2. PICK f : f = CHOOSE g : g = [i \in 0 .. n |-> Promotes(batch, g, i)]
  OBVIOUS
<1>3. f = [i \in 0 .. n |-> Promotes(batch, f, i)]
  BY <1>2, PromotionExists
<1>4. PromoteRows(batch) = f[n]
  BY <1>1, <1>2 DEF PromoteRows, Promotes, StartState
<1>5. 0 \in 0 .. n /\ \A i \in 1 .. n : i \in 0 .. n /\ i # 0
  OBVIOUS
<1>6. f[0] = StartState
  BY <1>3, <1>5 DEF Promotes
<1>7. \A i \in 1 .. n : f[i] = Promotes(batch, f, i)
  BY <1>3, <1>5
<1>8. \A i \in 1 .. n : f[i] = IF pending[From][i] \in batch
                                 THEN PromoteRow(f[i - 1], pending[From][i])
                               ELSE f[i - 1]
  BY <1>5, <1>7 DEF Promotes
<1> QED BY <1>1, <1>4, <1>6, <1>8

\* The rows of a batch among the first i
Earlier(batch, i) == {pending[From][j] : j \in 1 .. i} \cap batch

\* What has become of them
Done(s, batch, i) ==
  /\ s = [content |-> s.content, rows |-> s.rows, aside |-> s.aside]
  /\ s.content \in Copies
  /\ s.rows \in Seq(Mutations) /\ Increasing(s.rows)
  /\ s.aside \subseteq Earlier(batch, i)
  /\ Range(s.rows) = Range(pending[To]) \cup (Earlier(batch, i) \ s.aside)
  /\ Foretold => s.content = Replay(s.rows, receipts[To], application, canonical[To])

\* A promotion between two batches of pending mutations
AtRows ==
  /\ pending[From] \in Seq(Mutations) /\ Increasing(pending[From])
  /\ pending[To] \in Seq(Mutations) /\ Increasing(pending[To])
  /\ evolution.after \in Nat
  /\ \A m \in Range(pending[To]) : m <= evolution.after
  /\ visible[To] \in Copies
  /\ Foretold => /\ Covered(receipts[To]) = Received(From)
                 /\ visible[To] = Replay(pending[To], receipts[To], application, canonical[To])

LEMMA AppendLarger ==
  ASSUME NEW rows \in Seq(Mutations), NEW m \in Mutations, Increasing(rows),
         \A x \in Range(rows) : x < m
  PROVE  /\ Append(rows, m) \in Seq(Mutations) /\ Increasing(Append(rows, m))
         /\ Range(Append(rows, m)) = Range(rows) \cup {m}
<1>1. PICK n \in Nat, longer \in Seq(Mutations) :
        /\ n = Len(rows) /\ longer = Append(rows, m) /\ Len(longer) = n + 1
        /\ longer[n + 1] = m /\ \A i \in 1 .. n : longer[i] = rows[i]
  BY AppendedRow
<1>2. DOMAIN rows = 1 .. n /\ DOMAIN longer = 1 .. n + 1
  BY <1>1
<1>3. \A i \in 1 .. n + 1 : i \in 1 .. n \/ i = n + 1
  OBVIOUS
<1>4. \A i \in 1 .. n : rows[i] < m /\ i \in 1 .. n + 1
  BY <1>2 DEF Range
<1>5. ASSUME NEW i \in 1 .. n + 1, NEW j \in 1 .. n + 1, i < j PROVE longer[i] < longer[j]
  <2>1. i \in 1 .. n
    BY <1>5
  <2>2. CASE j \in 1 .. n
    BY <1>1, <1>2, <1>5, <2>1, <2>2 DEF Increasing
  <2>3. CASE j = n + 1
    BY <1>1, <1>4, <2>1, <2>3
  <2> QED BY <1>3, <2>2, <2>3
<1>6. Range(longer) = Range(rows) \cup {m}
  <2>1. \A i \in 1 .. n : i \in 1 .. n + 1
    OBVIOUS
  <2>2. n + 1 \in 1 .. n + 1
    OBVIOUS
  <2> QED BY <1>1, <1>2, <1>3, <2>1, <2>2 DEF Range
<1>7. Increasing(longer)
  BY <1>2, <1>5 DEF Increasing
<1> QED BY <1>1, <1>6, <1>7

LEMMA RunType ==
  ASSUME NEW m \in Mutations, NEW v, NEW content \in Copies
  PROVE  Run(m, v, content) \in Copies
<1>1. KeyOf[m] \in Keys
  BY ClientPromotionAssumption
<1>2. content[KeyOf[m]] \cup {m} \in SUBSET Writers
  BY <1>1 DEF Copies, Writers
<1> QED BY <1>1, <1>2 DEF Run, Copies

\* What PromoteRow does to a state
LEMMA RowDone ==
  ASSUME AtRows, NEW batch, \A m \in batch : m > evolution.after,
         NEW i \in Nat, i + 1 <= Len(pending[From]), NEW s, Done(s, batch, i),
         pending[From][i + 1] \in batch
  PROVE  Done(PromoteRow(s, pending[From][i + 1]), batch, i + 1)
<1>1. PICK m : m = pending[From][i + 1]
  OBVIOUS
<1>2. i + 1 \in 1 .. Len(pending[From]) /\ Len(pending[From]) \in Nat
  BY DEF AtRows
<1>3. m \in Mutations
  BY <1>1, <1>2 DEF AtRows
<1>4. Earlier(batch, i + 1) = Earlier(batch, i) \cup {m}
  <2>1. 1 .. i + 1 = 1 .. i \cup {i + 1}
    OBVIOUS
  <2> QED BY <1>1, <2>1 DEF Earlier
<1>5. \A x \in Earlier(batch, i) : x < m
  <2>1. SUFFICES ASSUME NEW j \in 1 .. i PROVE pending[From][j] < m
    BY DEF Earlier
  <2>2. j \in 1 .. Len(pending[From]) /\ j < i + 1
    BY ONLY <1>2, i \in Nat, j \in 1 .. i, i + 1 <= Len(pending[From])
  <2> QED BY <1>1, <1>2, <2>2 DEF AtRows, Increasing
<1>6. \A x \in Range(pending[To]) : x < m
  <2>1. SUFFICES ASSUME NEW x \in Range(pending[To]) PROVE x < m
    OBVIOUS
  <2>2. x \in Mutations
    BY DEF AtRows, Range
  <2>3. x \in Nat /\ m \in Nat /\ evolution.after \in Nat
    BY <1>3, <2>2, ClientPromotionAssumption DEF AtRows
  <2>4. x <= evolution.after /\ m > evolution.after
    BY <1>1 DEF AtRows
  <2> QED BY <2>3, <2>4
<1>7. /\ s = [content |-> s.content, rows |-> s.rows, aside |-> s.aside]
      /\ s.content \in Copies /\ s.rows \in Seq(Mutations) /\ Increasing(s.rows)
      /\ s.aside \subseteq Earlier(batch, i)
      /\ Range(s.rows) = Range(pending[To]) \cup (Earlier(batch, i) \ s.aside)
      /\ Foretold => s.content = Replay(s.rows, receipts[To], application, canonical[To])
  BY DEF Done
<1>8. \A x \in Range(s.rows) : x < m
  BY <1>5, <1>6, <1>7
<1>9. m \notin Earlier(batch, i)
  <2>1. ~ (m < m)
    BY <1>3, ClientPromotionAssumption
  <2> QED BY <1>5, <2>1
<1>10. PICK longer : longer = Append(s.rows, m)
  OBVIOUS
<1>11. /\ longer \in Seq(Mutations) /\ Increasing(longer)
       /\ Range(longer) = Range(s.rows) \cup {m}
  BY <1>3, <1>7, <1>8, <1>10, AppendLarger
<1>12. Foretold => Replay(longer, receipts[To], application, canonical[To]) =
                     IF m \in Received(From) THEN s.content ELSE Run(m, application, s.content)
  BY <1>3, <1>7, <1>10, ReplayAppend DEF AtRows
<1>13. CASE Carried(m)
  <2>1. PromoteRow(s, m) = [content |-> s.content, rows |-> longer, aside |-> s.aside]
    BY <1>7, <1>10, <1>13 DEF PromoteRow
  <2> QED BY <1>1, <1>4, <1>7, <1>9, <1>11, <1>12, <1>13, <2>1 DEF Done, Carried
<1>14. CASE ~ Carried(m) /\ Refuses(m, application, s.content)
  <2>1. PromoteRow(s, m) = [content |-> s.content, rows |-> s.rows, aside |-> s.aside \cup {m}]
    BY <1>7, <1>14 DEF PromoteRow
  <2> QED BY <1>1, <1>4, <1>7, <1>9, <2>1 DEF Done
<1>15. CASE ~ Carried(m) /\ ~ Refuses(m, application, s.content)
  <2>1. PromoteRow(s, m) =
          [content |-> Run(m, application, s.content), rows |-> longer, aside |-> s.aside]
    BY <1>7, <1>10, <1>15 DEF PromoteRow
  <2>2. Run(m, application, s.content) \in Copies
    BY <1>3, <1>7, RunType
  <2> QED BY <1>1, <1>4, <1>7, <1>9, <1>11, <1>12, <1>15, <2>1, <2>2 DEF Done, Carried
<1> QED BY <1>1, <1>13, <1>14, <1>15

(* All of a batch: rows stay in order, each is kept or set aside, and what *)
(* is shown is what a replay of the kept ones shows.                       *)
LEMMA RowsDone ==
  ASSUME AtRows, NEW batch, \A m \in batch : m > evolution.after
  PROVE  Done(PromoteRows(batch), batch, Len(pending[From]))
<1>1. PICK n \in Nat : n = Len(pending[From])
  BY DEF AtRows
<1>2. PICK f : /\ PromoteRows(batch) = f[n] /\ f[0] = StartState
               /\ \A i \in 1 .. n : f[i] = IF pending[From][i] \in batch
                                             THEN PromoteRow(f[i - 1], pending[From][i])
                                           ELSE f[i - 1]
  BY <1>1, PromoteRowsIs
<1>3. PICK Failing : Failing = {i \in 0 .. n : ~ Done(f[i], batch, i)}
  OBVIOUS
<1>4. ASSUME Failing # {} PROVE FALSE
  <2>1. PICK k \in Failing : \A x \in Failing : k <= x
    <3>1. Failing \in SUBSET Nat
      BY <1>3
    <3> QED BY <1>4, <3>1, LeastExists
  <2>2. k \in 0 .. n /\ ~ Done(f[k], batch, k)
    BY <1>3
  <2>3. k # 0
    <3>1. Earlier(batch, 0) = {}
      BY DEF Earlier
    <3>2. Done(f[0], batch, 0)
      BY <1>2, <3>1 DEF Done, StartState, AtRows
    <3> QED BY <2>2, <3>2
  <2>4. PICK i \in Nat : k = i + 1
    BY ONLY <2>2, <2>3, <1>1
  <2>5. i \in 0 .. n /\ i + 1 <= n /\ i + 1 \in 1 .. n /\ (i + 1) - 1 = i /\ ~ (i + 1 <= i)
    BY ONLY <1>1, <2>2, <2>4
  <2>6. Done(f[i], batch, i)
    BY <1>3, <2>1, <2>4, <2>5
  <2>7. CASE pending[From][i + 1] \in batch
    <3>1. f[k] = PromoteRow(f[i], pending[From][i + 1])
      BY <1>2, <2>4, <2>5, <2>7
    <3> QED BY <1>1, <2>2, <2>4, <2>5, <2>6, <2>7, <3>1, RowDone
  <2>8. CASE pending[From][i + 1] \notin batch
    <3>1. f[k] = f[i]
      BY <1>2, <2>4, <2>5, <2>8
    <3>2. Earlier(batch, i + 1) = Earlier(batch, i)
      <4>1. 1 .. i + 1 = 1 .. i \cup {i + 1}
        OBVIOUS
      <4> QED BY <2>8, <4>1 DEF Earlier
    <3> QED BY <2>2, <2>4, <2>6, <3>1, <3>2 DEF Done
  <2> QED BY <2>7, <2>8
<1>5. n \in 0 .. n
  OBVIOUS
<1> QED BY <1>1, <1>2, <1>3, <1>4, <1>5

(***************************************************************************)
(* Releases, and the cursor of a promotion.                                *)
(***************************************************************************)
LEMMA OlderGrows ==
  ASSUME NEW v \in Releases, NEW w \in Releases, v < w
  PROVE  /\ Cardinality(Older(v)) \in Nat /\ Cardinality(Older(w)) \in Nat
         /\ Cardinality(Older(v)) + 1 <= Cardinality(Older(w))
<1>1. IsFiniteSet(Releases) /\ \A u \in Releases : u \in Nat
  BY ClientPromotionAssumption
<1>2. Older(v) \subseteq Older(w) /\ v \in Older(w) /\ v \notin Older(v)
  <2>1. \A u \in Releases : u < v => u < w
    BY <1>1
  <2>2. ~ (v < v)
    BY <1>1
  <2> QED BY <2>1, <2>2 DEF Older
<1>3. IsFiniteSet(Older(v)) /\ IsFiniteSet(Older(w))
  BY <1>1, FS_Subset DEF Older
<1>4. /\ Cardinality(Older(v)) <= Cardinality(Older(w))
      /\ Cardinality(Older(v)) # Cardinality(Older(w))
  BY <1>2, <1>3, FS_Subset
<1>5. Cardinality(Older(v)) \in Nat /\ Cardinality(Older(w)) \in Nat
  BY <1>3, FS_CardinalityType
<1> QED BY <1>4, <1>5

LEMMA OlderFits ==
  ASSUME NEW v \in Releases, NEW g \in Nat, g <= Cardinality(Older(v))
  PROVE  \A h \in 0 .. g : h \in GenerationNumbers
<1>1. Older(v) \subseteq Releases /\ IsFiniteSet(Releases)
  BY ClientPromotionAssumption DEF Older
<1>2. /\ Cardinality(Older(v)) <= Cardinality(Releases)
      /\ Cardinality(Releases) \in Nat /\ Cardinality(Older(v)) \in Nat
  BY <1>1, FS_Subset, FS_CardinalityType
<1>3. g <= Cardinality(Releases)
  BY <1>2
<1> QED BY <1>2, <1>3 DEF GenerationNumbers

\* Only the phase and the cursor of a promotion have changed
Onward ==
  /\ evolution \in Evolutions /\ evolution' \in Evolutions
  /\ evolution'.source = evolution.source /\ evolution'.target = evolution.target
  /\ evolution'.generation = evolution.generation /\ evolution'.from = evolution.from

LEMMA Proceeded ==
  ASSUME evolution \in Evolutions, NEW next \in UntilFlip \cup AfterFlip, Proceed(next)
  PROVE  Onward /\ evolution'.phase = next /\ evolution'.after = 0
BY DEF Proceed, Evolutions, Onward

(* After a batch the cursor is behind what it was behind, and the batch.   *)
LEMMA Continued ==
  ASSUME evolution \in Evolutions, NEW S \in SUBSET (Nat \ {0}), IsFiniteSet(S),
         NEW batch \in NextBatches(S), NEW next \in UntilFlip \cup AfterFlip,
         next # evolution.phase, Continue(batch, next)
  PROVE  /\ batch \subseteq S /\ \A x \in batch : x > evolution.after
         /\ Onward
         /\ \/ evolution'.phase = evolution.phase
            \/ evolution'.phase = next /\ evolution'.after = 0
         /\ \A x \in S : evolution'.phase = next \/ x <= evolution'.after
                           <=> x <= evolution.after \/ x \in batch
<1>1. PICK rest : rest = {x \in S : x > evolution.after}
  OBVIOUS
<1>2. rest \in SUBSET Nat /\ IsFiniteSet(rest) /\ evolution.after \in Nat
  BY <1>1, FS_Subset DEF Evolutions
<1>3. Prefix(batch, rest)
  <2>1. CASE rest = {}
    BY <1>1, <2>1 DEF NextBatches, Prefix
  <2>2. CASE rest # {}
    <3>1. PICK n \in 1 .. BatchSize : batch = Lowest(rest, n)
      BY <1>1, <2>2 DEF NextBatches
    <3>2. n \in Nat \ {0}
      BY BatchesAssumption
    <3> QED BY <1>2, <3>1, <3>2, LowestIsPrefix
  <2> QED BY <2>1, <2>2
<1>4. batch \subseteq rest /\ batch \in SUBSET Nat /\ IsFiniteSet(batch)
  BY <1>2, <1>3, FS_Subset DEF Prefix
<1>5. CASE batch = {}
  <2>1. Proceed(next) /\ rest = {}
    BY <1>3, <1>5 DEF Continue, Prefix
  <2>2. \A x \in S : x <= evolution.after
    <3>1. \A x \in S : x \in Nat /\ ~ (x > evolution.after)
      BY <1>1, <2>1
    <3> QED BY <1>2, <3>1
  <2> QED BY <1>5, <2>1, <2>2, Proceeded
<1>6. CASE batch # {}
  <2>1. PICK h : h = Highest(batch)
    OBVIOUS
  <2>2. h \in batch /\ \A y \in batch : y <= h
    BY <1>4, <1>6, <2>1, HighestIsGreatest
  <2>3. evolution' = [evolution EXCEPT !.after = h]
    BY <1>6, <2>1 DEF Continue
  <2>4. h \in Nat
    BY <1>4, <2>2
  <2>5. Onward /\ evolution'.phase = evolution.phase /\ evolution'.after = h
    BY <2>3, <2>4 DEF Evolutions, Onward
  <2>6. ASSUME NEW x \in S PROVE x <= h <=> x <= evolution.after \/ x \in batch
    <3>1. x \in Nat /\ h > evolution.after
      BY <1>1, <1>4, <2>2
    <3>2. x \in batch => x <= h
      BY <2>2
    <3>3. x > evolution.after /\ x <= h => x \in batch
      BY <1>1, <1>3, <2>2 DEF Prefix
    <3> QED BY <1>2, <2>4, <3>1, <3>2, <3>3
  <2> QED BY <1>1, <1>4, <2>5, <2>6
<1> QED BY <1>5, <1>6

LEMMA EmptyRows ==
  ASSUME NEW rows \in Seq(Mutations), Range(rows) = {}
  PROVE  rows = <<>>
<1>1. Len(rows) \in Nat /\ \A i \in 1 .. Len(rows) : rows[i] \in Range(rows)
  BY DEF Range
<1>2. Len(rows) = 0
  BY <1>1
<1> QED BY <1>2

LEMMA HiddenNothing ==
  ASSUME NEW c \in Copies
  PROVE  Hidden(c, {}) = c
BY DEF Hidden, Copies

LEMMA HiddenTwice ==
  ASSUME NEW c, NEW A, NEW B
  PROVE  Hidden(Hidden(c, A), B) = Hidden(c, A \cup B)
BY DEF Hidden

LEMMA HiddenType ==
  ASSUME NEW c \in Copies, NEW A
  PROVE  Hidden(c, A) \in Copies
BY DEF Hidden, Copies

(* Where a promotion is while it copies.                                   *)
LEMMA Copying ==
  ASSUME ClientInv, NEW phase \in UntilFlip, InClientPhase(phase)
  PROVE  /\ Promoting /\ New /\ evolution \in Evolutions /\ evolution.phase = phase
         /\ application = evolution.target /\ Active = From
         /\ From \in GenerationNumbers /\ To \in GenerationNumbers /\ From # To
         /\ Active # evolution.generation
<1>1. /\ evolution # None /\ evolution.phase = phase /\ application = evolution.target
      /\ evolution \in Evolutions
  BY DEF InClientPhase, ClientInv, ClientType
<1>2. Promoting /\ New
  BY <1>1 DEF Promoting, ClientInv
<1>3. /\ row.active = From /\ From < To /\ To <= Cardinality(Older(evolution.target))
  BY <1>1 DEF ClientInv, RowsAgree
<1>4. From \in Nat /\ To \in Nat /\ evolution.target \in Releases
  BY <1>1 DEF Evolutions, From, To
<1>5. From \in 0 .. To /\ To \in 0 .. To
  BY <1>3, <1>4
<1>6. From \in GenerationNumbers /\ To \in GenerationNumbers
  BY <1>3, <1>4, <1>5, OlderFits
<1> QED BY <1>1, <1>2, <1>3, <1>4, <1>6 DEF Active, To

(* A batch that is put into the new generation only.                       *)
LEMMA CopyKeeps ==
  ASSUME ClientInv, Promoting, Active = From, From # To, Onward, evolution'.phase \in UntilFlip,
         UNCHANGED <<application, row, before>>,
         DOMAIN canonical' = DOMAIN canonical, DOMAIN visible' = DOMAIN visible,
         DOMAIN pending' = DOMAIN pending, DOMAIN receipts' = DOMAIN receipts,
         DOMAIN retracted' = DOMAIN retracted,
         canonical'[From] = canonical[From], visible'[From] = visible[From],
         pending'[From] = pending[From], receipts'[From] = receipts[From],
         retracted'[From] = retracted[From],
         Range(pending[From]) \cup quarantine' = before.owed,
         New'
  PROVE  ClientInv'
<1>1. evolution # None /\ evolution' # None /\ evolution.phase \in UntilFlip
  BY ClientNoneAssumption DEF Promoting, Onward
<1>2. /\ To' = To /\ From' = From /\ evolution'.generation = evolution.generation
      /\ evolution'.target = evolution.target /\ evolution'.source = evolution.source
      /\ evolution'.from = evolution.from
  BY DEF Onward, From, To
<1>3. Promoting'
  BY <1>1 DEF Promoting
<1>4. ClientType'
  BY DEF ClientInv, ClientType, Onward
<1>5. RowsAgree'
  BY <1>1, <1>2 DEF ClientInv, RowsAgree
<1>6. Active' = From
  BY DEF Active
<1>7. Open'
  BY <1>3, <1>6 DEF ClientInv, Open
<1>8. ShownIsReplay'
  <2>1. evolution.generation # Active /\ evolution'.generation # Active'
    BY <1>2, <1>6 DEF To
  <2>2. ShownVersion = row.schema /\ ShownVersion' = row.schema
    BY <2>1 DEF ShownVersion
  <2>3. /\ visible'[Active'] = visible[Active] /\ pending'[Active'] = pending[Active]
        /\ receipts'[Active'] = receipts[Active] /\ canonical'[Active'] = canonical[Active]
        /\ retracted'[Active'] = retracted[Active]
    BY <1>6
  <2> QED BY <2>2, <2>3 DEF ClientInv, ShownIsReplay
<1> QED BY <1>3, <1>4, <1>5, <1>7, <1>8 DEF ClientInv

LEMMA LogKeeps == ClientInv /\ Log => ClientInv'
<1> SUFFICES ASSUME ClientInv, Log PROVE ClientInv'
  OBVIOUS
<1>1. /\ Promoting /\ New /\ evolution \in Evolutions /\ evolution.phase = "Log"
      /\ Active = From /\ From # To
  BY Copying DEF Log, UntilFlip
<1>2. Onward /\ evolution'.phase = "Entities" /\ evolution'.after = 0
  BY <1>1, Proceeded DEF Log, UntilFlip
<1>3. UNCHANGED <<application, row, tables, quarantine, before>>
  BY DEF Log
<1>4. UNCHANGED <<canonical, visible, pending, receipts, retracted>>
  BY <1>3 DEF tables
<1>5. /\ \A k \in Keys : ~ CopiedKey(k) /\ ~ CopiedKey(k)' /\ ~ FencedKey(k) /\ ~ FencedKey(k)'
      /\ \A m : ~ Told(m) /\ ~ Told(m)' /\ ~ Treated(m) /\ ~ Treated(m)'
  BY <1>1, <1>2, BatchesAssumption DEF CopiedKey, FencedKey, Told, Treated
<1>6. To' = To /\ From' = From /\ evolution'.target = evolution.target /\ Foretold' = Foretold
  BY <1>2, <1>3 DEF Onward, Foretold, From, To
<1>7. New'
  <2>1. retracted[From] \subseteq Keys
    BY <1>1 DEF ClientInv, Open
  <2>2. canonical'[To'] = [k \in Keys |-> IF CopiedKey(k)' THEN before'.content[k] ELSE {}]
    BY <1>1, <1>3, <1>4, <1>5, <1>6 DEF New
  <2>3. retracted'[To'] = {k \in retracted'[From'] : FencedKey(k)'}
    BY <1>1, <1>4, <1>5, <1>6, <2>1 DEF New
  <2>4. receipts'[To'] = {r \in before'.receipts : Told(r.id)'}
    BY <1>1, <1>3, <1>4, <1>5, <1>6 DEF New
  <2>5. /\ Range(pending'[To']) = {m \in Range(pending'[From']) : Treated(m)'} \ quarantine'
        /\ \A m \in Range(pending'[From']) \cap quarantine' : Treated(m)'
    BY <1>1, <1>3, <1>4, <1>5, <1>6 DEF New
  <2>6. /\ visible'[To'] \in Copies /\ pending'[To'] \in Seq(Mutations) /\ Increasing(pending'[To'])
        /\ Foretold' =>
             visible'[To'] = Hidden(Replay(pending'[To'], receipts'[To'], evolution'.target,
                                           canonical'[To']), retracted'[To'])
    BY <1>1, <1>4, <1>6 DEF New
  <2> QED BY <2>2, <2>3, <2>4, <2>5, <2>6 DEF New
<1>8. Range(pending[From]) \cup quarantine' = before.owed
  BY <1>1, <1>3 DEF ClientInv, Open
<1>9. evolution'.phase \in UntilFlip
  BY <1>2 DEF UntilFlip
<1> QED BY <1>1, <1>2, <1>3, <1>4, <1>7, <1>8, <1>9, CopyKeeps

(* Keys and mutations are above the cursor a phase begins with.            *)
LEMMA NothingTaken ==
  ASSUME evolution \in Evolutions, Onward
  PROVE  /\ To' = To /\ From' = From /\ evolution'.target = evolution.target
         /\ evolution.phase \in {"Log", "Entities"} => \A m : ~ Told(m)
         /\ evolution.phase \in {"Log", "Entities", "Receipts"} => \A m : ~ Treated(m)
         /\ evolution.phase \in {"Log", "Entities", "Receipts", "Pending"} =>
              \A k : ~ FencedKey(k)
         /\ (evolution'.phase = "Receipts" => evolution'.after = 0)
              /\ evolution'.phase \in {"Log", "Entities", "Receipts"}
              => \A m \in Mutations : ~ Told(m)'
         /\ (evolution'.phase = "Pending" => evolution'.after = 0)
              /\ evolution'.phase \in {"Log", "Entities", "Receipts", "Pending"}
              => \A m \in Mutations : ~ Treated(m)'
         /\ (evolution'.phase = "Retractions" => evolution'.after = 0)
              /\ evolution'.phase \in {"Log", "Entities", "Receipts", "Pending", "Retractions"}
              => \A k \in Keys : ~ FencedKey(k)'
<1>1. \A m \in Mutations : m \in Nat /\ ~ (m <= 0)
  BY ClientPromotionAssumption
<1>2. \A k \in Keys : k \in Nat /\ ~ (k <= 0)
  BY BatchesAssumption
<1> QED BY <1>1, <1>2 DEF Told, Treated, FencedKey, Onward, From, To

LEMMA EntitiesKeep == ClientInv /\ Entities => ClientInv'
<1> SUFFICES ASSUME ClientInv, Entities PROVE ClientInv'
  OBVIOUS
<1>1. /\ Promoting /\ New /\ evolution \in Evolutions /\ evolution.phase = "Entities"
      /\ Active = From /\ From # To /\ From \in GenerationNumbers /\ To \in GenerationNumbers
  BY Copying DEF Entities, UntilFlip
<1>2. /\ canonical[From] = before.content /\ before.content \in Copies
      /\ receipts[From] = before.receipts
      /\ before.receipts \subseteq [id : Mutations, covered : BOOLEAN]
      /\ pending[From] \in Seq(Mutations) /\ retracted[From] \subseteq Keys
  BY <1>1 DEF ClientInv, Open, ClientType
<1>3. PICK S : S = Existing(canonical[From])
  OBVIOUS
<1>4. /\ S \in SUBSET (Nat \ {0}) /\ IsFiniteSet(S) /\ S \subseteq Keys
      /\ \A k \in Keys \ S : before.content[k] = {}
  BY <1>2, <1>3, BatchesAssumption, FS_Subset DEF Existing
<1>5. PICK batch \in NextBatches(S) :
        /\ canonical' = [canonical EXCEPT ![To] =
             [k \in Keys |-> IF k \in batch THEN canonical[From][k] ELSE canonical[To][k]]]
        /\ visible' = [visible EXCEPT ![To] =
             [k \in Keys |-> IF k \in batch THEN canonical[From][k] ELSE visible[To][k]]]
        /\ Continue(batch, "Receipts")
  BY <1>3 DEF Entities
<1>6. UNCHANGED <<application, row, pending, receipts, retracted, quarantine, before>>
  BY DEF Entities
<1>7. /\ batch \subseteq S /\ Onward
      /\ \/ evolution'.phase = "Entities"
         \/ evolution'.phase = "Receipts" /\ evolution'.after = 0
      /\ \A k \in S : evolution'.phase = "Receipts" \/ k <= evolution'.after
                        <=> k <= evolution.after \/ k \in batch
  <2>1. "Receipts" \in UntilFlip \cup AfterFlip /\ "Receipts" # evolution.phase
    BY <1>1 DEF UntilFlip
  <2> QED BY <1>1, <1>4, <1>5, <2>1, Continued
<1>8. /\ To' = To /\ From' = From /\ evolution'.target = evolution.target
      /\ \A m \in Mutations : ~ Told(m) /\ ~ Told(m)' /\ ~ Treated(m) /\ ~ Treated(m)'
      /\ \A k \in Keys : ~ FencedKey(k) /\ ~ FencedKey(k)'
  BY <1>1, <1>7, NothingTaken
<1>9. DOMAIN canonical = GenerationNumbers /\ DOMAIN visible = GenerationNumbers
  BY DEF ClientInv, ClientType
<1>10. \A k \in S : CopiedKey(k)' <=> CopiedKey(k) \/ k \in batch
  BY <1>1, <1>7 DEF CopiedKey
<1>11. /\ DOMAIN canonical' = DOMAIN canonical /\ DOMAIN visible' = DOMAIN visible
       /\ canonical'[From] = canonical[From] /\ visible'[From] = visible[From]
       /\ canonical'[To] =
            [k \in Keys |-> IF k \in batch THEN before.content[k] ELSE canonical[To][k]]
       /\ visible'[To] =
            [k \in Keys |-> IF k \in batch THEN before.content[k] ELSE visible[To][k]]
  BY <1>1, <1>2, <1>5, <1>9
<1>12. canonical[To] = [k \in Keys |-> IF CopiedKey(k) THEN before.content[k] ELSE {}]
  BY <1>1 DEF New
<1>13. canonical'[To] = [k \in Keys |-> IF CopiedKey(k)' THEN before.content[k] ELSE {}]
  <2>1. ASSUME NEW k \in Keys
        PROVE  (IF k \in batch THEN before.content[k] ELSE canonical[To][k]) =
               (IF CopiedKey(k)' THEN before.content[k] ELSE {})
    <3>1. canonical[To][k] = IF CopiedKey(k) THEN before.content[k] ELSE {}
      BY <1>12
    <3>2. CASE k \in S
      BY <1>10, <3>1, <3>2
    <3>3. CASE k \notin S
      BY <1>4, <1>7, <3>1, <3>3
    <3> QED BY <3>2, <3>3
  <2> QED BY <1>11, <2>1
<1>14. /\ canonical[To] \in Copies /\ canonical'[To] \in Copies /\ visible'[To] \in Copies
  BY <1>1, <1>2, <1>11, <1>12, <1>13 DEF Copies, New
<1>15. pending[To] = <<>> /\ retracted[To] = {} /\ receipts[To] = {}
  <2>1. Range(pending[From]) \subseteq Mutations
    BY <1>2 DEF Range
  <2>2. Range(pending[To]) = {}
    BY <1>1, <1>8, <2>1 DEF New
  <2>3. retracted[To] = {}
    BY <1>1, <1>2, <1>8 DEF New
  <2>4. \A r \in before.receipts : r.id \in Mutations
    BY <1>2
  <2>5. receipts[To] = {}
    BY <1>1, <1>8, <2>4 DEF New
  <2> QED BY <1>1, <2>2, <2>3, <2>5, EmptyRows DEF New
<1>16. \A c \in Copies :
         Hidden(Replay(pending[To], receipts[To], evolution.target, c), retracted[To]) = c
  BY <1>15, ReplayNothing, HiddenNothing
<1>17. New'
  <2>1. Foretold' = Foretold
    BY <1>6 DEF Foretold
  <2>2. Foretold => visible'[To] = canonical'[To]
    <3>1. Foretold => visible[To] = canonical[To]
      BY <1>1, <1>14, <1>16 DEF New
    <3> QED BY <1>11, <3>1
  <2>3. Foretold' => visible'[To] = Hidden(Replay(pending'[To'], receipts'[To'],
                                                  evolution'.target, canonical'[To']),
                                           retracted'[To'])
    BY <1>6, <1>8, <1>14, <1>16, <2>1, <2>2
  <2>4. retracted'[To'] = {k \in retracted'[From'] : FencedKey(k)'}
    BY <1>2, <1>6, <1>8, <1>15
  <2>5. receipts'[To'] = {r \in before'.receipts : Told(r.id)'}
    <3>1. \A r \in before.receipts : r.id \in Mutations
      BY <1>2
    <3> QED BY <1>6, <1>8, <1>15, <3>1
  <2>6. /\ Range(pending'[To']) = {m \in Range(pending'[From']) : Treated(m)'} \ quarantine'
        /\ \A m \in Range(pending'[From']) \cap quarantine' : Treated(m)'
    <3>1. Range(pending[From]) \subseteq Mutations
      BY <1>2 DEF Range
    <3> QED BY <1>1, <1>6, <1>8, <3>1 DEF New
  <2>7. pending'[To'] \in Seq(Mutations) /\ Increasing(pending'[To'])
    BY <1>1, <1>6, <1>8 DEF New
  <2>8. canonical'[To'] = [k \in Keys |-> IF CopiedKey(k)' THEN before'.content[k] ELSE {}]
    BY <1>6, <1>8, <1>13
  <2> QED BY <1>8, <1>14, <2>3, <2>4, <2>5, <2>6, <2>7, <2>8 DEF New
<1>18. Range(pending[From]) \cup quarantine' = before.owed
  BY <1>1, <1>6 DEF ClientInv, Open
<1>19. evolution'.phase \in UntilFlip
  BY <1>7 DEF UntilFlip
<1> QED BY <1>1, <1>6, <1>7, <1>8, <1>11, <1>17, <1>18, <1>19, CopyKeeps

LEMMA ReceiptsKeep == ClientInv /\ Receipts => ClientInv'
<1> SUFFICES ASSUME ClientInv, Receipts PROVE ClientInv'
  OBVIOUS
<1>1. /\ Promoting /\ New /\ evolution \in Evolutions /\ evolution.phase = "Receipts"
      /\ Active = From /\ From # To /\ From \in GenerationNumbers /\ To \in GenerationNumbers
  BY Copying DEF Receipts, UntilFlip
<1>2. /\ receipts[From] = before.receipts
      /\ before.receipts \subseteq [id : Mutations, covered : BOOLEAN]
      /\ pending[From] \in Seq(Mutations) /\ retracted[From] \subseteq Keys
  BY <1>1 DEF ClientInv, Open, ClientType
<1>3. PICK S : S = Received(From)
  OBVIOUS
<1>4. S \in SUBSET (Nat \ {0}) /\ IsFiniteSet(S) /\ \A r \in before.receipts : r.id \in S
  <2>1. S \subseteq Mutations /\ \A r \in before.receipts : r.id \in S
    BY <1>2, <1>3 DEF Received
  <2> QED BY <2>1, ClientPromotionAssumption, FS_Subset
<1>5. PICK batch \in NextBatches(S) :
        /\ receipts' = [receipts EXCEPT ![To] = @ \cup {r \in receipts[From] : r.id \in batch}]
        /\ Continue(batch, "Pending")
  BY <1>3 DEF Receipts
<1>6. UNCHANGED <<application, row, canonical, visible, pending, retracted, quarantine, before>>
  BY DEF Receipts
<1>7. /\ batch \subseteq S /\ Onward
      /\ \/ evolution'.phase = "Receipts"
         \/ evolution'.phase = "Pending" /\ evolution'.after = 0
      /\ \A m \in S : evolution'.phase = "Pending" \/ m <= evolution'.after
                        <=> m <= evolution.after \/ m \in batch
  <2>1. "Pending" \in UntilFlip \cup AfterFlip /\ "Pending" # evolution.phase
    BY <1>1 DEF UntilFlip
  <2> QED BY <1>1, <1>4, <1>5, <2>1, Continued
<1>8. /\ To' = To /\ From' = From /\ evolution'.target = evolution.target
      /\ \A m \in Mutations : ~ Treated(m) /\ ~ Treated(m)'
      /\ \A k \in Keys : ~ FencedKey(k) /\ ~ FencedKey(k)'
  BY <1>1, <1>7, NothingTaken
<1>9. DOMAIN receipts = GenerationNumbers
  BY DEF ClientInv, ClientType
<1>10. \A m \in S : Told(m)' <=> Told(m) \/ m \in batch
  BY <1>1, <1>7 DEF Told
<1>11. /\ DOMAIN receipts' = DOMAIN receipts /\ receipts'[From] = receipts[From]
       /\ receipts'[To] = receipts[To] \cup {r \in before.receipts : r.id \in batch}
  BY <1>1, <1>2, <1>5, <1>9
<1>12. receipts[To] = {r \in before.receipts : Told(r.id)}
  BY <1>1 DEF New
<1>13. receipts'[To] = {r \in before.receipts : Told(r.id)'}
  BY <1>4, <1>10, <1>11, <1>12
<1>14. pending[To] = <<>>
  <2>1. Range(pending[From]) \subseteq Mutations
    BY <1>2 DEF Range
  <2>2. Range(pending[To]) = {}
    BY <1>1, <1>8, <2>1 DEF New
  <2> QED BY <1>1, <2>2, EmptyRows DEF New
<1>15. New'
  <2>1. Foretold' = Foretold
    BY <1>6 DEF Foretold
  <2>2. Replay(pending[To], receipts'[To], evolution.target, canonical[To])
          = Replay(pending[To], receipts[To], evolution.target, canonical[To])
    BY <1>14, ReplayNothing
  <2>3. Foretold' => visible'[To'] = Hidden(Replay(pending'[To'], receipts'[To'],
                                                   evolution'.target, canonical'[To']),
                                            retracted'[To'])
    BY <1>1, <1>6, <1>8, <2>1, <2>2 DEF New
  <2>4. retracted'[To'] = {k \in retracted'[From'] : FencedKey(k)'}
    BY <1>1, <1>2, <1>6, <1>8 DEF New
  <2>5. receipts'[To'] = {r \in before'.receipts : Told(r.id)'}
    BY <1>6, <1>8, <1>13
  <2>6. /\ Range(pending'[To']) = {m \in Range(pending'[From']) : Treated(m)'} \ quarantine'
        /\ \A m \in Range(pending'[From']) \cap quarantine' : Treated(m)'
    <3>1. Range(pending[From]) \subseteq Mutations
      BY <1>2 DEF Range
    <3> QED BY <1>1, <1>6, <1>8, <3>1 DEF New
  <2>7. /\ visible'[To'] \in Copies
        /\ pending'[To'] \in Seq(Mutations) /\ Increasing(pending'[To'])
    BY <1>1, <1>6, <1>8 DEF New
  <2>8. canonical'[To'] = [k \in Keys |-> IF CopiedKey(k)' THEN before'.content[k] ELSE {}]
    <3>1. \A k \in Keys : CopiedKey(k) /\ CopiedKey(k)'
      BY <1>1, <1>7 DEF CopiedKey
    <3> QED BY <1>1, <1>6, <1>8, <3>1 DEF New
  <2> QED BY <2>3, <2>4, <2>5, <2>6, <2>7, <2>8 DEF New
<1>16. Range(pending[From]) \cup quarantine' = before.owed
  BY <1>1, <1>6 DEF ClientInv, Open
<1>17. evolution'.phase \in UntilFlip
  BY <1>7 DEF UntilFlip
<1> QED BY <1>1, <1>6, <1>7, <1>8, <1>11, <1>15, <1>16, <1>17, CopyKeeps

LEMMA ReplayType ==
  ASSUME NEW rows \in Seq(Mutations), NEW rs, NEW v, NEW content \in Copies
  PROVE  Replay(rows, rs, v, content) \in Copies
<1>1. PICK n \in Nat : n = Len(rows) /\ \A i \in 1 .. n : rows[i] \in Mutations
  OBVIOUS
<1>2. PICK f : /\ Replay(rows, rs, v, content) = f[n]
               /\ f[0] = content
               /\ \A i \in 1 .. n : f[i] = IF rows[i] \in Covered(rs) THEN f[i - 1]
                                           ELSE Run(rows[i], v, f[i - 1])
  <2>1. \E f : /\ Replay(rows, rs, v, content) = f[Len(rows)]
               /\ f[0] = content
               /\ \A i \in 1 .. Len(rows) : f[i] = IF rows[i] \in Covered(rs) THEN f[i - 1]
                                                   ELSE Run(rows[i], v, f[i - 1])
    BY <1>1, ReplayIs
  <2> QED BY <1>1, <2>1
<1>3. PICK Failing : Failing = {i \in 0 .. n : f[i] \notin Copies}
  OBVIOUS
<1>4. ASSUME Failing # {} PROVE FALSE
  <2>1. PICK k \in Failing : \A x \in Failing : k <= x
    <3>1. Failing \in SUBSET Nat
      BY <1>3
    <3> QED BY <1>4, <3>1, LeastExists
  <2>2. k \in 0 .. n /\ f[k] \notin Copies
    BY <1>3
  <2>3. k # 0
    BY <1>2, <2>2
  <2>4. k - 1 \in 0 .. n /\ k \in 1 .. n /\ ~ (k <= k - 1)
    BY ONLY <1>1, <2>2, <2>3
  <2>5. f[k - 1] \in Copies
    BY <1>3, <2>1, <2>4
  <2>6. Run(rows[k], v, f[k - 1]) \in Copies
    BY <1>1, <2>4, <2>5, RunType
  <2> QED BY <1>2, <2>2, <2>4, <2>5, <2>6
<1>5. n \in 0 .. n
  OBVIOUS
<1> QED BY <1>2, <1>3, <1>4, <1>5

LEMMA PendingKeeps == ClientInv /\ Pending => ClientInv'
<1> SUFFICES ASSUME ClientInv, Pending PROVE ClientInv'
  OBVIOUS
<1>1. /\ Promoting /\ New /\ evolution \in Evolutions /\ evolution.phase = "Pending"
      /\ Active = From /\ From # To /\ From \in GenerationNumbers /\ To \in GenerationNumbers
      /\ application = evolution.target
  BY Copying DEF Pending, UntilFlip
<1>2. /\ receipts[From] = before.receipts /\ Increasing(pending[From])
      /\ before.receipts \subseteq [id : Mutations, covered : BOOLEAN]
      /\ pending[From] \in Seq(Mutations) /\ retracted[From] \subseteq Keys
      /\ before.owed = Range(pending[From]) \cup quarantine
  BY <1>1 DEF ClientInv, Open, ClientType
<1>3. PICK S : S = Range(pending[From])
  OBVIOUS
<1>4. S \in SUBSET (Nat \ {0}) /\ IsFiniteSet(S) /\ S \subseteq Mutations
  <2>1. S \subseteq Mutations
    BY <1>2, <1>3 DEF Range
  <2> QED BY <2>1, ClientPromotionAssumption, FS_Subset
<1>5. PICK batch \in NextBatches(S) :
        /\ visible' = [visible EXCEPT ![To] = PromoteRows(batch).content]
        /\ pending' = [pending EXCEPT ![To] = PromoteRows(batch).rows]
        /\ quarantine' = quarantine \cup PromoteRows(batch).aside
        /\ Continue(batch, "Retractions")
  BY <1>3 DEF Pending
<1>6. UNCHANGED <<application, row, canonical, receipts, retracted, before>>
  BY DEF Pending
<1>7. /\ batch \subseteq S /\ Onward /\ \A m \in batch : m > evolution.after
      /\ \/ evolution'.phase = "Pending"
         \/ evolution'.phase = "Retractions" /\ evolution'.after = 0
      /\ \A m \in S : evolution'.phase = "Retractions" \/ m <= evolution'.after
                        <=> m <= evolution.after \/ m \in batch
  <2>1. "Retractions" \in UntilFlip \cup AfterFlip /\ "Retractions" # evolution.phase
    BY <1>1 DEF UntilFlip
  <2> QED BY <1>1, <1>4, <1>5, <2>1, Continued
<1>8. /\ To' = To /\ From' = From /\ evolution'.target = evolution.target
      /\ \A k \in Keys : ~ FencedKey(k) /\ ~ FencedKey(k)'
  BY <1>1, <1>7, NothingTaken
<1>9. \A m : Told(m) /\ Told(m)'
  BY <1>1, <1>7 DEF Told
<1>10. /\ DOMAIN pending = GenerationNumbers /\ DOMAIN visible = GenerationNumbers
  BY DEF ClientInv, ClientType
<1>11. \A m \in S : Treated(m)' <=> Treated(m) \/ m \in batch
  BY <1>1, <1>7 DEF Treated
<1>12. \A m \in batch : ~ Treated(m)
  <2>1. \A m \in batch : m \in Nat /\ m > evolution.after /\ evolution.after \in Nat
    BY <1>1, <1>4, <1>7 DEF Evolutions
  <2> QED BY <1>1, <2>1 DEF Treated
<1>13. receipts[To] = before.receipts /\ retracted[To] = {}
  <2>1. receipts[To] = {r \in before.receipts : Told(r.id)}
    BY <1>1 DEF New
  <2>2. retracted[To] = {k \in retracted[From] : FencedKey(k)}
    BY <1>1 DEF New
  <2> QED BY <1>2, <1>8, <1>9, <2>1, <2>2
<1>14. /\ pending[To] \in Seq(Mutations) /\ Increasing(pending[To]) /\ visible[To] \in Copies
       /\ Range(pending[To]) = {m \in S : Treated(m)} \ quarantine
       /\ \A m \in S \cap quarantine : Treated(m)
  BY <1>1, <1>3 DEF New
<1>15. Foretold => visible[To] = Replay(pending[To], receipts[To], application, canonical[To])
  <2>1. ASSUME Foretold
        PROVE  visible[To] = Hidden(Replay(pending[To], receipts[To], application,
                                           canonical[To]), {})
    BY <1>1, <1>13, <2>1 DEF New
  <2>2. canonical[To] \in Copies
    <3>1. before.content \in Copies
      BY DEF ClientInv, ClientType
    <3>2. canonical[To] = [k \in Keys |-> IF CopiedKey(k) THEN before.content[k] ELSE {}]
      BY <1>1 DEF New
    <3> QED BY <3>1, <3>2 DEF Copies
  <2> QED BY <1>14, <2>1, <2>2, HiddenNothing, ReplayType
<1>16. AtRows
  <2>1. evolution.after \in Nat
    BY <1>1 DEF Evolutions
  <2>2. \A m \in Range(pending[To]) : m <= evolution.after
    BY <1>1, <1>14 DEF Treated
  <2>3. Foretold => Covered(receipts[To]) = Received(From)
    BY <1>2, <1>13 DEF Foretold, Covered, Received
  <2> QED BY <1>2, <1>14, <1>15, <2>1, <2>2, <2>3 DEF AtRows
<1>17. PICK s : s = PromoteRows(batch)
  OBVIOUS
<1>18. Done(s, batch, Len(pending[From]))
  BY <1>7, <1>16, <1>17, RowsDone
<1>19. Earlier(batch, Len(pending[From])) = batch
  BY <1>2, <1>3, <1>7 DEF Earlier, Range
<1>20. /\ s.content \in Copies /\ s.rows \in Seq(Mutations) /\ Increasing(s.rows)
       /\ s.aside \subseteq batch
       /\ Range(s.rows) = Range(pending[To]) \cup (batch \ s.aside)
       /\ Foretold => s.content = Replay(s.rows, receipts[To], application, canonical[To])
  BY <1>18, <1>19 DEF Done
<1>21. /\ DOMAIN pending' = DOMAIN pending /\ pending'[From] = pending[From]
       /\ DOMAIN visible' = DOMAIN visible /\ visible'[From] = visible[From]
       /\ visible'[To] = s.content /\ pending'[To] = s.rows
       /\ quarantine' = quarantine \cup s.aside
  BY <1>1, <1>5, <1>10, <1>17
<1>22. New'
  <2>1. Foretold' = Foretold
    BY <1>6 DEF Foretold
  <2>2. Foretold => visible'[To] = Hidden(s.content, {})
    BY <1>20, <1>21, HiddenNothing
  <2>3. Foretold' => visible'[To'] = Hidden(Replay(pending'[To'], receipts'[To'],
                                                   evolution'.target, canonical'[To']),
                                            retracted'[To'])
    BY <1>1, <1>6, <1>8, <1>13, <1>20, <1>21, <2>1, <2>2
  <2>4. retracted'[To'] = {k \in retracted'[From'] : FencedKey(k)'}
    BY <1>2, <1>6, <1>8, <1>13
  <2>5. receipts'[To'] = {r \in before'.receipts : Told(r.id)'}
    BY <1>6, <1>8, <1>9, <1>13
  <2>6. Range(pending'[To']) = {m \in Range(pending'[From']) : Treated(m)'} \ quarantine'
    <3>1. Range(s.rows) = {m \in S : Treated(m)'} \ (quarantine \cup s.aside)
      BY <1>7, <1>11, <1>12, <1>14, <1>20
    <3> QED BY <1>3, <1>8, <1>21, <3>1
  <2>7. \A m \in Range(pending'[From']) \cap quarantine' : Treated(m)'
    <3>1. \A m \in S \cap (quarantine \cup s.aside) : Treated(m)'
      BY <1>7, <1>11, <1>14, <1>20
    <3> QED BY <1>3, <1>8, <1>21, <3>1
  <2>8. /\ visible'[To'] \in Copies
        /\ pending'[To'] \in Seq(Mutations) /\ Increasing(pending'[To'])
    BY <1>8, <1>20, <1>21
  <2>9. canonical'[To'] = [k \in Keys |-> IF CopiedKey(k)' THEN before'.content[k] ELSE {}]
    <3>1. \A k \in Keys : CopiedKey(k) /\ CopiedKey(k)'
      BY <1>1, <1>7 DEF CopiedKey
    <3> QED BY <1>1, <1>6, <1>8, <3>1 DEF New
  <2> QED BY <2>3, <2>4, <2>5, <2>6, <2>7, <2>8, <2>9 DEF New
<1>23. Range(pending[From]) \cup quarantine' = before.owed
  BY <1>2, <1>3, <1>7, <1>20, <1>21
<1>24. evolution'.phase \in UntilFlip
  BY <1>7 DEF UntilFlip
<1> QED BY <1>1, <1>6, <1>7, <1>8, <1>21, <1>22, <1>23, <1>24, CopyKeeps

LEMMA RetractionsKeep == ClientInv /\ Retractions => ClientInv'
<1> SUFFICES ASSUME ClientInv, Retractions PROVE ClientInv'
  OBVIOUS
<1>1. /\ Promoting /\ New /\ evolution \in Evolutions /\ evolution.phase = "Retractions"
      /\ Active = From /\ From # To /\ From \in GenerationNumbers /\ To \in GenerationNumbers
  BY Copying DEF Retractions, UntilFlip
<1>2. retracted[From] \subseteq Keys
  BY <1>1 DEF ClientInv, Open
<1>3. PICK S : S = retracted[From]
  OBVIOUS
<1>4. S \in SUBSET (Nat \ {0}) /\ IsFiniteSet(S)
  BY <1>2, <1>3, BatchesAssumption, FS_Subset
<1>5. PICK batch \in NextBatches(S) :
        /\ retracted' = [retracted EXCEPT ![To] = @ \cup batch]
        /\ visible' = [visible EXCEPT ![To] = Hidden(@, batch)]
        /\ Continue(batch, "Flip")
  BY <1>3 DEF Retractions
<1>6. UNCHANGED <<application, row, canonical, pending, receipts, quarantine, before>>
  BY DEF Retractions
<1>7. /\ batch \subseteq S /\ Onward
      /\ \/ evolution'.phase = "Retractions"
         \/ evolution'.phase = "Flip" /\ evolution'.after = 0
      /\ \A k \in S : evolution'.phase = "Flip" \/ k <= evolution'.after
                        <=> k <= evolution.after \/ k \in batch
  <2>1. "Flip" \in UntilFlip \cup AfterFlip /\ "Flip" # evolution.phase
    BY <1>1 DEF UntilFlip
  <2> QED BY <1>1, <1>4, <1>5, <2>1, Continued
<1>8. /\ To' = To /\ From' = From /\ evolution'.target = evolution.target
      /\ \A k \in S : FencedKey(k)' <=> FencedKey(k) \/ k \in batch
      /\ \A m : Told(m) /\ Told(m)' /\ Treated(m) /\ Treated(m)'
      /\ \A k \in Keys : CopiedKey(k) /\ CopiedKey(k)'
  BY <1>1, <1>7 DEF Onward, From, To, FencedKey, Told, Treated, CopiedKey
<1>9. DOMAIN retracted = GenerationNumbers /\ DOMAIN visible = GenerationNumbers
  BY DEF ClientInv, ClientType
<1>10. /\ DOMAIN retracted' = DOMAIN retracted /\ retracted'[From] = retracted[From]
       /\ DOMAIN visible' = DOMAIN visible /\ visible'[From] = visible[From]
       /\ retracted'[To] = retracted[To] \cup batch
       /\ visible'[To] = Hidden(visible[To], batch)
  BY <1>1, <1>5, <1>9
<1>11. New'
  <2>1. Foretold' = Foretold
    BY <1>6 DEF Foretold
  <2>2. Foretold => visible'[To] =
                      Hidden(Replay(pending[To], receipts[To], evolution.target, canonical[To]),
                             retracted[To] \cup batch)
    BY <1>1, <1>10, HiddenTwice DEF New
  <2>3. Foretold' => visible'[To'] = Hidden(Replay(pending'[To'], receipts'[To'],
                                                   evolution'.target, canonical'[To']),
                                            retracted'[To'])
    BY <1>6, <1>8, <1>10, <2>1, <2>2
  <2>4. retracted'[To'] = {k \in retracted'[From'] : FencedKey(k)'}
    <3>1. retracted[To] = {k \in S : FencedKey(k)}
      BY <1>1, <1>3 DEF New
    <3> QED BY <1>3, <1>7, <1>8, <1>10, <3>1
  <2>5. receipts'[To'] = {r \in before'.receipts : Told(r.id)'}
    BY <1>1, <1>6, <1>8 DEF New
  <2>6. /\ Range(pending'[To']) = {m \in Range(pending'[From']) : Treated(m)'} \ quarantine'
        /\ \A m \in Range(pending'[From']) \cap quarantine' : Treated(m)'
    BY <1>1, <1>6, <1>8 DEF New
  <2>7. visible'[To'] \in Copies
    BY <1>1, <1>8, <1>10, HiddenType DEF New
  <2>8. /\ pending'[To'] \in Seq(Mutations) /\ Increasing(pending'[To'])
        /\ canonical'[To'] = [k \in Keys |-> IF CopiedKey(k)' THEN before'.content[k] ELSE {}]
    BY <1>1, <1>6, <1>8 DEF New
  <2> QED BY <2>3, <2>4, <2>5, <2>6, <2>7, <2>8 DEF New
<1>12. Range(pending[From]) \cup quarantine' = before.owed
  BY <1>1, <1>6 DEF ClientInv, Open
<1>13. evolution'.phase \in UntilFlip
  BY <1>7 DEF UntilFlip
<1> QED BY <1>1, <1>6, <1>7, <1>8, <1>10, <1>11, <1>12, <1>13, CopyKeeps

(* A promotion that has flipped: the open generation is the new one.       *)
LEMMA Flipped ==
  ASSUME ClientInv, NEW phase \in AfterFlip, InClientPhase(phase)
  PROVE  /\ ~ Promoting /\ evolution # None /\ evolution \in Evolutions
         /\ evolution.phase = phase /\ Active = To /\ From # To
         /\ Active = evolution.generation
<1>1. evolution # None /\ evolution.phase = phase /\ evolution \in Evolutions
  BY DEF InClientPhase, ClientInv, ClientType
<1>2. ~ Promoting
  BY <1>1 DEF Promoting, UntilFlip, AfterFlip
<1>3. row.active = To /\ From < To
  BY <1>1, <1>2 DEF ClientInv, RowsAgree, Promoting
<1>4. From # To
  BY <1>1, <1>3 DEF Evolutions, From, To
<1> QED BY <1>1, <1>2, <1>3, <1>4 DEF Active, To

LEMMA FlipActiveKeeps ==
  ASSUME ClientInv, FlipActive
  PROVE  ClientInv'
<1>1. /\ Promoting /\ New /\ evolution \in Evolutions /\ evolution.phase = "Flip"
      /\ Active = From /\ From # To
  BY Copying DEF FlipActive, UntilFlip
<1>2. Onward /\ evolution'.phase = "CleanupCanonical"
  BY <1>1, Proceeded DEF FlipActive, AfterFlip
<1>3. /\ UNCHANGED <<application, canonical, visible, pending, receipts, retracted,
                     quarantine, before>>
      /\ row' = [row EXCEPT !.active = To, !.view = FALSE]
  BY DEF FlipActive, tables
<1>4. evolution' # None /\ ~ Promoting' /\ evolution # None
  BY <1>1, <1>2, ClientNoneAssumption DEF Onward, Promoting, UntilFlip
<1>5. /\ To' = To /\ From' = From /\ evolution'.target = evolution.target
      /\ evolution'.generation = To
  BY <1>2 DEF Onward, From, To
<1>6. row \in ClientRows
  BY DEF ClientInv, ClientType
<1>7. /\ row' \in ClientRows /\ row'.active = To /\ row'.generation = row.generation
      /\ row'.schema = row.schema /\ row'.target = row.target
  <2>1. To \in Nat
    BY <1>1 DEF Evolutions, To
  <2> QED BY <1>3, <1>6, <2>1 DEF ClientRows
<1>8. ClientType'
  BY <1>2, <1>3, <1>7 DEF ClientInv, ClientType, Onward
<1>9. RowsAgree'
  <2>1. evolution'.phase \notin UntilFlip
    BY <1>2 DEF UntilFlip
  <2> QED BY <1>2, <1>4, <1>5, <1>7, <2>1 DEF ClientInv, RowsAgree, Onward
<1>10. Active' = To
  BY <1>7 DEF Active
<1>11. \A m : Told(m) /\ Treated(m) /\ CopiedKey(m) /\ FencedKey(m)
  BY <1>1 DEF Told, Treated, CopiedKey, FencedKey
<1>12. canonical[To] = before.content
  <2>1. before.content \in Copies
    BY DEF ClientInv, ClientType
  <2> QED BY <1>1, <1>11, <2>1 DEF New, Copies
<1>13. /\ receipts[To] = before.receipts /\ retracted[To] = retracted[From]
       /\ Range(pending[To]) = Range(pending[From]) \ quarantine
  BY <1>1, <1>11 DEF New
<1>14. /\ before.owed = Range(pending[From]) \cup quarantine /\ retracted[From] \subseteq Keys
  BY <1>1 DEF ClientInv, Open
<1>15. Open'
  <2>1. before.owed = Range(pending[To]) \cup quarantine
    BY <1>13, <1>14
  <2>2. Range(pending[To]) \cap quarantine = {}
    BY <1>13
  <2>3. /\ visible[To] \in Copies /\ pending[To] \in Seq(Mutations) /\ Increasing(pending[To])
    BY <1>1 DEF New
  <2> QED BY <1>3, <1>10, <1>12, <1>13, <1>14, <2>1, <2>2, <2>3 DEF Open
<1>16. ShownIsReplay'
  <2>1. ShownVersion' = evolution.target
    BY <1>4, <1>5, <1>10 DEF ShownVersion
  <2>2. Foretold => visible[To] = Hidden(Replay(pending[To], receipts[To], evolution.target,
                                                canonical[To]), retracted[To])
    BY <1>1 DEF New
  <2> QED BY <1>3, <1>10, <2>1, <2>2 DEF ShownIsReplay, Foretold
<1> QED BY <1>4, <1>8, <1>9, <1>15, <1>16 DEF ClientInv

(* Cleanup is of the generation that is closed.                            *)
LEMMA CleanKeeps ==
  ASSUME ClientInv, evolution # None, evolution.phase \in AfterFlip, Onward,
         evolution'.phase \in AfterFlip,
         UNCHANGED <<application, row, quarantine, before>>,
         DOMAIN canonical' = DOMAIN canonical, DOMAIN visible' = DOMAIN visible,
         DOMAIN pending' = DOMAIN pending, DOMAIN receipts' = DOMAIN receipts,
         DOMAIN retracted' = DOMAIN retracted,
         canonical'[Active] = canonical[Active], visible'[Active] = visible[Active],
         pending'[Active] = pending[Active], receipts'[Active] = receipts[Active],
         retracted'[Active] = retracted[Active]
  PROVE  ClientInv'
<1>1. evolution' # None /\ Active' = Active
  BY ClientNoneAssumption DEF Onward, Active
<1>2. evolution.phase \notin UntilFlip /\ evolution'.phase \notin UntilFlip
  BY DEF UntilFlip, AfterFlip
<1>3. ~ Promoting /\ ~ Promoting'
  BY <1>2 DEF Promoting
<1>4. ClientType'
  BY DEF ClientInv, ClientType, Onward
<1>5. RowsAgree'
  BY <1>1, <1>2 DEF ClientInv, RowsAgree, Onward, From, To
<1>6. Open'
  BY <1>1, <1>3 DEF ClientInv, Open
<1>7. ShownVersion' = ShownVersion
  BY <1>1 DEF ShownVersion, Onward
<1>8. ShownIsReplay'
  BY <1>1, <1>7 DEF ClientInv, ShownIsReplay
<1> QED BY <1>3, <1>4, <1>5, <1>6, <1>8 DEF ClientInv

LEMMA CleanupKeeps == ClientInv /\ Cleanup => ClientInv'
<1> SUFFICES ASSUME ClientInv PROVE Cleanup => ClientInv'
  OBVIOUS
<1> DEFINE Cleaning == /\ evolution # None /\ evolution \in Evolutions
                       /\ evolution.phase \in AfterFlip /\ Active = To /\ From # To
<1>1. \A phase \in AfterFlip : InClientPhase(phase) => Cleaning
  BY Flipped
<1>2. ASSUME Cleaning, NEW next \in AfterFlip, Proceed(next) \/ UNCHANGED evolution
      PROVE  Onward /\ evolution'.phase \in AfterFlip
  BY <1>2, Proceeded DEF Onward
<1>3. /\ DOMAIN canonical = GenerationNumbers /\ DOMAIN visible = GenerationNumbers
      /\ DOMAIN pending = GenerationNumbers /\ DOMAIN receipts = GenerationNumbers
      /\ DOMAIN retracted = GenerationNumbers
  BY DEF ClientInv, ClientType
<1> HIDE DEF Cleaning
<1>4. Cleaning => evolution # None /\ evolution.phase \in AfterFlip /\ Active # From
  BY DEF Cleaning
<1>5. CASE CleanupCanonical
  <2>1. Cleaning /\ (Proceed("CleanupVisible") \/ UNCHANGED evolution)
    BY <1>1, <1>5 DEF CleanupCanonical, AfterFlip
  <2>2. \E x : canonical' = [canonical EXCEPT ![From] = x]
    BY <1>5 DEF CleanupCanonical
  <2>3. DOMAIN canonical' = DOMAIN canonical /\ canonical'[Active] = canonical[Active]
    BY <1>3, <1>4, <2>1, <2>2
  <2>4. UNCHANGED <<application, row, visible, pending, receipts, retracted, quarantine, before>>
    BY <1>5 DEF CleanupCanonical
  <2>5. "CleanupVisible" \in AfterFlip
    BY DEF AfterFlip
  <2> QED BY <1>2, <1>4, <2>1, <2>3, <2>4, <2>5, CleanKeeps
<1>6. CASE CleanupVisible
  <2>1. Cleaning /\ (Proceed("CleanupRetractions") \/ UNCHANGED evolution)
    BY <1>1, <1>6 DEF CleanupVisible, AfterFlip
  <2>2. \E x : visible' = [visible EXCEPT ![From] = x]
    BY <1>6 DEF CleanupVisible
  <2>3. DOMAIN visible' = DOMAIN visible /\ visible'[Active] = visible[Active]
    BY <1>3, <1>4, <2>1, <2>2
  <2>4. UNCHANGED <<application, row, canonical, pending, receipts, retracted, quarantine, before>>
    BY <1>6 DEF CleanupVisible
  <2>5. "CleanupRetractions" \in AfterFlip
    BY DEF AfterFlip
  <2> QED BY <1>2, <1>4, <2>1, <2>3, <2>4, <2>5, CleanKeeps
<1>7. CASE CleanupRetractions
  <2>1. Cleaning /\ (Proceed("CleanupReceipts") \/ UNCHANGED evolution)
    BY <1>1, <1>7 DEF CleanupRetractions, AfterFlip
  <2>2. \E x : retracted' = [retracted EXCEPT ![From] = x]
    BY <1>7 DEF CleanupRetractions
  <2>3. DOMAIN retracted' = DOMAIN retracted /\ retracted'[Active] = retracted[Active]
    BY <1>3, <1>4, <2>1, <2>2
  <2>4. UNCHANGED <<application, row, canonical, visible, pending, receipts, quarantine, before>>
    BY <1>7 DEF CleanupRetractions
  <2>5. "CleanupReceipts" \in AfterFlip
    BY DEF AfterFlip
  <2> QED BY <1>2, <1>4, <2>1, <2>3, <2>4, <2>5, CleanKeeps
<1>8. CASE CleanupReceipts
  <2>1. Cleaning /\ (Proceed("CleanupPending") \/ UNCHANGED evolution)
    BY <1>1, <1>8 DEF CleanupReceipts, AfterFlip
  <2>2. \E x : receipts' = [receipts EXCEPT ![From] = x]
    BY <1>8 DEF CleanupReceipts
  <2>3. DOMAIN receipts' = DOMAIN receipts /\ receipts'[Active] = receipts[Active]
    BY <1>3, <1>4, <2>1, <2>2
  <2>4. UNCHANGED <<application, row, canonical, visible, pending, retracted, quarantine, before>>
    BY <1>8 DEF CleanupReceipts
  <2>5. "CleanupPending" \in AfterFlip
    BY DEF AfterFlip
  <2> QED BY <1>2, <1>4, <2>1, <2>3, <2>4, <2>5, CleanKeeps
<1>9. CASE CleanupPending
  <2>1. Cleaning /\ (Proceed("Finalize") \/ UNCHANGED evolution)
    BY <1>1, <1>9 DEF CleanupPending, AfterFlip
  <2>2. \E x : pending' = [pending EXCEPT ![From] = x]
    BY <1>9 DEF CleanupPending
  <2>3. DOMAIN pending' = DOMAIN pending /\ pending'[Active] = pending[Active]
    BY <1>3, <1>4, <2>1, <2>2
  <2>4. UNCHANGED <<application, row, canonical, visible, receipts, retracted, quarantine, before>>
    BY <1>9 DEF CleanupPending
  <2>5. "Finalize" \in AfterFlip
    BY DEF AfterFlip
  <2> QED BY <1>2, <1>4, <2>1, <2>3, <2>4, <2>5, CleanKeeps
<1> QED BY <1>5, <1>6, <1>7, <1>8, <1>9 DEF Cleanup

LEMMA FinishKeeps == ClientInv /\ FinishPromotion => ClientInv'
<1> SUFFICES ASSUME ClientInv, FinishPromotion PROVE ClientInv'
  OBVIOUS
<1>1. /\ ~ Promoting /\ evolution # None /\ evolution \in Evolutions
      /\ evolution.phase = "Finalize" /\ Active = To /\ Active = evolution.generation
  BY Flipped DEF FinishPromotion, AfterFlip
<1>2. /\ UNCHANGED <<application, canonical, visible, pending, receipts, retracted,
                     quarantine, before>>
      /\ row' = [row EXCEPT !.schema = evolution.target, !.target = None]
      /\ evolution' = None
  BY DEF FinishPromotion, tables
<1>3. row \in ClientRows /\ evolution.target \in Releases
  BY <1>1 DEF ClientInv, ClientType, Evolutions
<1>4. /\ row' \in ClientRows /\ row'.active = row.active /\ row'.generation = row.generation
      /\ row'.schema = evolution.target
  BY <1>2, <1>3 DEF ClientRows
<1>5. ~ Promoting' /\ Active' = Active
  BY <1>2, <1>4 DEF Promoting, Active
<1>6. ClientType'
  BY <1>2, <1>4 DEF ClientInv, ClientType
<1>7. RowsAgree'
  <2>1. row.generation = To /\ To <= Cardinality(Older(evolution.target)) /\ row.active = To
    BY <1>1 DEF ClientInv, RowsAgree, To, Active
  <2> QED BY <1>2, <1>4, <2>1 DEF RowsAgree
<1>8. Open'
  BY <1>1, <1>2, <1>5 DEF ClientInv, Open
<1>9. ShownVersion' = ShownVersion
  BY <1>1, <1>2, <1>4 DEF ShownVersion
<1>10. ShownIsReplay'
  BY <1>2, <1>5, <1>9 DEF ClientInv, ShownIsReplay
<1> QED BY <1>5, <1>6, <1>7, <1>8, <1>10 DEF ClientInv

LEMMA BeginKeeps ==
  ASSUME ClientInv, Begin
  PROVE  ClientInv'
<1>1. PICK g : g = row.generation + 1
  OBVIOUS
<1>2. /\ application # None /\ evolution = None /\ row.schema < application
      /\ row' = [row EXCEPT !.generation = g, !.target = application]
      /\ evolution' = [source |-> row.schema, target |-> application,
                       generation |-> g, from |-> row.active,
                       phase |-> "Log", after |-> 0]
      /\ canonical' = [canonical EXCEPT ![g] = Nothing]
      /\ visible' = [visible EXCEPT ![g] = Nothing]
      /\ pending' = [pending EXCEPT ![g] = <<>>]
      /\ receipts' = [receipts EXCEPT ![g] = {}]
      /\ retracted' = [retracted EXCEPT ![g] = {}]
      /\ UNCHANGED <<application, quarantine, before>>
  BY <1>1 DEF Begin, Emptied
<1>3. /\ row \in ClientRows /\ application \in Releases
      /\ row.active = row.generation /\ row.generation <= Cardinality(Older(row.schema))
  BY <1>2 DEF ClientInv, ClientType, RowsAgree
<1>4. row.generation \in Nat /\ row.schema \in Releases /\ g \in Nat /\ g # row.active
  BY <1>1, <1>3 DEF ClientRows
<1>5. g <= Cardinality(Older(application))
  <2>1. /\ Cardinality(Older(row.schema)) \in Nat /\ Cardinality(Older(application)) \in Nat
        /\ Cardinality(Older(row.schema)) + 1 <= Cardinality(Older(application))
    BY <1>2, <1>3, <1>4, OlderGrows
  <2> QED BY <1>1, <1>3, <1>4, <2>1
<1>6. g \in GenerationNumbers
  <2>1. g \in 0 .. g
    BY <1>4
  <2> QED BY <1>3, <1>4, <1>5, <2>1, OlderFits
<1>7. evolution' \in Evolutions
  BY <1>2, <1>3, <1>4 DEF Evolutions, UntilFlip
<1>8. /\ evolution' # None /\ To' = g /\ From' = row.active /\ evolution'.target = application
      /\ evolution'.phase = "Log" /\ evolution'.generation = g
  BY <1>2, <1>7, ClientNoneAssumption DEF From, To
<1>9. /\ row' \in ClientRows /\ row'.active = row.active /\ row'.generation = g
      /\ row'.schema = row.schema /\ row'.target = application
  BY <1>2, <1>3, <1>4 DEF ClientRows
<1>10. /\ DOMAIN canonical = GenerationNumbers /\ DOMAIN visible = GenerationNumbers
       /\ DOMAIN pending = GenerationNumbers /\ DOMAIN receipts = GenerationNumbers
       /\ DOMAIN retracted = GenerationNumbers
  BY DEF ClientInv, ClientType
<1>11. /\ DOMAIN canonical' = GenerationNumbers /\ DOMAIN visible' = GenerationNumbers
       /\ DOMAIN pending' = GenerationNumbers /\ DOMAIN receipts' = GenerationNumbers
       /\ DOMAIN retracted' = GenerationNumbers
       /\ canonical'[g] = Nothing /\ visible'[g] = Nothing /\ pending'[g] = <<>>
       /\ receipts'[g] = {} /\ retracted'[g] = {}
  BY <1>2, <1>6, <1>10
<1>12. /\ canonical'[Active] = canonical[Active] /\ visible'[Active] = visible[Active]
       /\ pending'[Active] = pending[Active] /\ receipts'[Active] = receipts[Active]
       /\ retracted'[Active] = retracted[Active]
  BY <1>2, <1>4, <1>10 DEF Active
<1>13. ~ Promoting /\ Promoting' /\ Active' = Active /\ From' = Active
  BY <1>2, <1>8, <1>9 DEF Promoting, UntilFlip, Active
<1>14. ClientType'
  BY <1>2, <1>3, <1>7, <1>9, <1>11 DEF ClientInv, ClientType
<1>15. RowsAgree'
  <2>1. evolution'.phase \in UntilFlip /\ evolution'.source = row.schema
    BY <1>2, <1>8 DEF UntilFlip
  <2>2. row.active < g
    BY <1>1, <1>3, <1>4
  <2> QED BY <1>2, <1>5, <1>8, <1>9, <2>1, <2>2 DEF RowsAgree
<1>16. Open'
  BY <1>2, <1>12, <1>13 DEF ClientInv, Open
<1>17. ShownIsReplay'
  <2>1. ShownVersion = row.schema /\ ShownVersion' = row.schema
    BY <1>2, <1>4, <1>8, <1>9 DEF ShownVersion, Active
  <2> QED BY <1>2, <1>12, <1>13, <2>1 DEF ClientInv, ShownIsReplay
<1>18. New'
  <2>1. \A x : ~ CopiedKey(x)' /\ ~ Told(x)' /\ ~ Treated(x)' /\ ~ FencedKey(x)'
    BY <1>8 DEF CopiedKey, Told, Treated, FencedKey
  <2>2. Range(pending[Active]) \cap quarantine = {}
    BY <1>13 DEF ClientInv, Open
  <2>3. Nothing \in Copies
    BY DEF Nothing, Copies
  <2>4. canonical'[To'] = [k \in Keys |-> IF CopiedKey(k)' THEN before'.content[k] ELSE {}]
    BY <1>8, <1>11, <2>1 DEF Nothing
  <2>5. receipts'[To'] = {r \in before'.receipts : Told(r.id)'}
    BY <1>8, <1>11, <2>1
  <2>6. <<>> \in Seq(Mutations) /\ Increasing(<<>>) /\ Range(<<>>) = {}
    BY DEF Increasing, Range
  <2>7. /\ Range(pending'[To']) = {m \in Range(pending'[From']) : Treated(m)'} \ quarantine'
        /\ \A m \in Range(pending'[From']) \cap quarantine' : Treated(m)'
    BY <1>2, <1>8, <1>11, <1>12, <1>13, <2>1, <2>2, <2>6
  <2>8. retracted'[To'] = {k \in retracted'[From'] : FencedKey(k)'}
    BY <1>8, <1>11, <2>1
  <2>9. visible'[To'] = Hidden(Replay(pending'[To'], receipts'[To'], evolution'.target,
                                      canonical'[To']), retracted'[To'])
    BY <1>8, <1>11, <2>3, ReplayNothing, HiddenNothing
  <2>10. /\ visible'[To'] \in Copies /\ pending'[To'] \in Seq(Mutations)
         /\ Increasing(pending'[To'])
    BY <1>8, <1>11, <2>3, <2>6
  <2> QED BY <2>4, <2>5, <2>7, <2>8, <2>9, <2>10 DEF New
<1> QED BY <1>13, <1>14, <1>15, <1>16, <1>17, <1>18 DEF ClientInv

(* Starts and stops touch nothing of the copy.                             *)
LEMMA ApplicationKeeps ==
  ASSUME ClientInv, application' \in Releases \cup {None},
         UNCHANGED <<row, evolution, tables, quarantine, before>>
  PROVE  ClientInv'
<1>1. UNCHANGED <<row, evolution, canonical, visible, pending, receipts, retracted,
                  quarantine, before>>
  BY DEF tables
<1>2. ClientType' /\ RowsAgree' /\ Promoting' = Promoting /\ Active' = Active
  BY <1>1 DEF ClientInv, ClientType, RowsAgree, Promoting, Active, From, To
<1>3. Open'
  BY <1>1, <1>2 DEF ClientInv, Open
<1>4. ShownIsReplay'
  BY <1>1 DEF ClientInv, ShownIsReplay, ShownVersion, Active
<1>5. ASSUME Promoting PROVE New'
  <2>1. New
    BY <1>5 DEF ClientInv
  <2> QED BY <1>1, <2>1 DEF New, From, To, CopiedKey, Told, Treated, FencedKey, Foretold
<1> QED BY <1>2, <1>3, <1>4, <1>5 DEF ClientInv

(***************************************************************************)
(* The members of a finite set of naturals in order.                       *)
(***************************************************************************)
LEMMA AscendingExists ==
  ASSUME NEW S \in SUBSET Nat, IsFiniteSet(S)
  PROVE  \E s \in [1 .. Cardinality(S) -> S] : Increasing(s)
<1> DEFINE Sorted(A, n) == \E s \in [1 .. n -> A] : Increasing(s)
           Sizes == {n \in Nat : \E A \in SUBSET S : Cardinality(A) = n /\ ~ Sorted(A, n)}
<1>1. Cardinality(S) \in Nat
  BY FS_CardinalityType
<1>2. SUFFICES ASSUME Sizes # {} PROVE FALSE
  BY <1>1
<1>3. PICK n \in Sizes : \A m \in Sizes : n <= m
  <2>1. Sizes \in SUBSET Nat
    OBVIOUS
  <2> HIDE DEF Sizes
  <2> QED BY <1>2, <2>1, LeastExists
<1>4. PICK A \in SUBSET S : Cardinality(A) = n /\ ~ Sorted(A, n)
  BY <1>3
<1>5. IsFiniteSet(A) /\ A \in SUBSET Nat /\ n \in Nat
  BY <1>3, <1>4, FS_Subset
<1>6. n # 0
  <2>1. SUFFICES ASSUME n = 0 PROVE FALSE
    OBVIOUS
  <2>2. PICK s : s = [i \in 1 .. 0 |-> i]
    OBVIOUS
  <2>3. 1 .. 0 = {}
    OBVIOUS
  <2>4. s \in [1 .. 0 -> A] /\ Increasing(s)
    BY <2>2, <2>3 DEF Increasing
  <2> QED BY <1>4, <2>1, <2>4
<1>7. A # {}
  BY <1>4, <1>6, FS_EmptySet
<1>8. PICK g \in A : \A x \in A : x <= g
  BY <1>5, <1>7, GreatestExists
<1>9. PICK B : B = A \ {g}
  OBVIOUS
<1>10. Cardinality(B) = n - 1 /\ B \in SUBSET S
  BY <1>4, <1>5, <1>9, FS_RemoveElement
<1>11. PICK t \in [1 .. n - 1 -> B] : Increasing(t)
  <2>1. n - 1 \in Nat /\ ~ (n <= n - 1)
    BY <1>5, <1>6
  <2>2. n - 1 \notin Sizes
    BY <1>3, <2>1
  <2> QED BY <1>10, <2>1, <2>2
<1>12. PICK s : s = [i \in 1 .. n |-> IF i = n THEN g ELSE t[i]]
  OBVIOUS
<1>13. \A i \in 1 .. n : i = n \/ i \in 1 .. n - 1
  BY <1>5
<1>14. \A i \in 1 .. n - 1 : t[i] \in B /\ t[i] < g
  <2>1. SUFFICES ASSUME NEW i \in 1 .. n - 1 PROVE t[i] \in B /\ t[i] < g
    OBVIOUS
  <2>2. t[i] \in B /\ t[i] \in Nat /\ g \in Nat /\ t[i] <= g /\ t[i] # g
    BY <1>5, <1>8, <1>9, <1>11
  <2> QED BY <2>2
<1>15. s \in [1 .. n -> A]
  BY <1>9, <1>12, <1>13, <1>14
<1>16. ASSUME NEW i \in 1 .. n, NEW j \in 1 .. n, i < j PROVE s[i] < s[j]
  <2>1. i \in 1 .. n - 1 /\ i # n
    BY <1>5, <1>16
  <2>2. CASE j = n
    BY <1>12, <1>14, <2>1, <2>2
  <2>3. CASE j # n
    BY <1>11, <1>12, <1>13, <1>16, <2>1, <2>3 DEF Increasing
  <2> QED BY <2>2, <2>3
<1>17. Increasing(s)
  BY <1>15, <1>16 DEF Increasing
<1> QED BY <1>4, <1>15, <1>17

LEMMA AscendingIs ==
  ASSUME NEW S \in SUBSET Mutations
  PROVE  /\ Ascending(S) \in Seq(Mutations) /\ Increasing(Ascending(S))
         /\ Range(Ascending(S)) = S
<1>1. S \in SUBSET Nat /\ IsFiniteSet(S)
  BY ClientPromotionAssumption, FS_Subset
<1>2. PICK n \in Nat : n = Cardinality(S)
  BY <1>1, FS_CardinalityType
<1>3. PICK s : s = Ascending(S)
  OBVIOUS
<1>4. s \in [1 .. n -> S] /\ Increasing(s)
  BY <1>1, <1>2, <1>3, AscendingExists DEF Ascending
<1>5. s \in Seq(Mutations)
  BY <1>4
<1>6. \A i, j \in 1 .. n : s[i] = s[j] => i = j
  <2>1. SUFFICES ASSUME NEW i \in 1 .. n, NEW j \in 1 .. n, s[i] = s[j], i < j PROVE FALSE
    BY <1>2
  <2>2. s[i] < s[j] /\ s[i] \in Nat
    BY <1>1, <1>4, <2>1 DEF Increasing
  <2> QED BY <2>1, <2>2
<1>7. s \in Injection(1 .. n, S)
  BY <1>4, <1>6 DEF Injection, IsInjective
<1>8. Cardinality(1 .. n) = n
  BY <1>2, FS_Interval
<1>9. s \in Surjection(1 .. n, S)
  BY <1>1, <1>2, <1>7, <1>8, FS_Injection
<1>10. Range(s) = S
  BY <1>4, <1>9 DEF Surjection, Range
<1> QED BY <1>3, <1>4, <1>5, <1>10

LEMMA ClientInitInv == ClientInit => ClientInv
<1> SUFFICES ASSUME ClientInit PROVE ClientInv
  OBVIOUS
<1> DEFINE Noted(decided, covered) == {[id |-> m, covered |-> m \in covered] : m \in decided}
<1>1. \E owes \in SUBSET Mutations : \E decided \in SUBSET owes : \E covered \in SUBSET decided :
        \E content \in Contents(covered) : \E fences \in SUBSET (Keys \ Existing(content)) :
          Left(content, owes, Noted(decided, covered), fences)
  BY DEF ClientInit
<1>2. PICK owes, decided, covered, content, fences, rs :
        /\ owes \in SUBSET Mutations /\ decided \in SUBSET owes /\ covered \in SUBSET decided
        /\ content \in Contents(covered) /\ fences \in SUBSET Keys
        /\ rs = Noted(decided, covered) /\ Left(content, owes, rs, fences)
  BY <1>1
<1>3. rs \subseteq [id : Mutations, covered : BOOLEAN]
  <2>1. SUFFICES ASSUME NEW m \in decided
                 PROVE  [id |-> m, covered |-> m \in covered]
                          \in [id : Mutations, covered : BOOLEAN]
    BY <1>2
  <2>2. m \in Mutations /\ (m \in covered) \in BOOLEAN
    BY <1>2
  <2> QED BY <2>2
<1>4. content \in Copies
  <2>1. content \in [Keys -> SUBSET (covered \cup {Other})]
    BY <1>2 DEF Contents
  <2>2. covered \subseteq Mutations
    BY <1>2
  <2>3. \A x \in SUBSET (covered \cup {Other}) : x \in SUBSET Writers
    BY <2>2 DEF Writers
  <2> QED BY <2>1, <2>3 DEF Copies
<1>5. PICK rows : rows = Ascending(owes)
  OBVIOUS
<1>6. rows \in Seq(Mutations) /\ Increasing(rows) /\ Range(rows) = owes
  BY <1>2, <1>5, AscendingIs
<1>7. First \in Releases
  <2>1. Releases \in SUBSET Nat /\ Releases # {}
    BY ClientPromotionAssumption
  <2> QED BY <2>1, LeastExists DEF First, Least
<1>8. 0 \in GenerationNumbers
  <2>1. Cardinality(Releases) \in Nat
    BY ClientPromotionAssumption, FS_CardinalityType
  <2> QED BY <2>1 DEF GenerationNumbers
<1>9. /\ canonical = [g \in GenerationNumbers |-> IF g = 0 THEN content ELSE Nothing]
      /\ pending = [g \in GenerationNumbers |-> IF g = 0 THEN rows ELSE <<>>]
      /\ receipts = [g \in GenerationNumbers |-> IF g = 0 THEN rs ELSE {}]
      /\ retracted = [g \in GenerationNumbers |-> IF g = 0 THEN fences ELSE {}]
      /\ visible = [g \in GenerationNumbers |->
                      IF g = 0 THEN Hidden(Replay(rows, rs, First, content), fences) ELSE Nothing]
      /\ before = [content |-> content, owed |-> owes, receipts |-> rs]
  BY <1>2, <1>5 DEF Left
<1>10. /\ row = [generation |-> 0, active |-> 0, schema |-> First, target |-> None,
                 view |-> TRUE]
       /\ evolution = None /\ quarantine = {} /\ application = None
  BY DEF ClientInit
<1>11. /\ canonical[0] = content /\ pending[0] = rows /\ receipts[0] = rs
       /\ retracted[0] = fences
       /\ visible[0] = Hidden(Replay(rows, rs, First, content), fences)
       /\ before.content = content /\ before.owed = owes /\ before.receipts = rs
       /\ Active = 0 /\ row.schema = First /\ row.generation = 0
  BY <1>8, <1>9, <1>10 DEF Active
<1>12. ~ Promoting /\ ShownVersion = First
  BY <1>10 DEF Promoting, ShownVersion
<1>13. ClientType
  <2>1. row \in ClientRows
    BY <1>7, <1>10 DEF ClientRows
  <2>2. /\ DOMAIN canonical = GenerationNumbers /\ DOMAIN visible = GenerationNumbers
        /\ DOMAIN pending = GenerationNumbers /\ DOMAIN receipts = GenerationNumbers
        /\ DOMAIN retracted = GenerationNumbers
    BY <1>9
  <2> QED BY <1>2, <1>3, <1>4, <1>10, <1>11, <2>1, <2>2 DEF ClientType
<1>14. RowsAgree
  <2>1. IsFiniteSet(Older(First))
    BY ClientPromotionAssumption, FS_Subset DEF Older
  <2>2. Cardinality(Older(First)) \in Nat
    BY <2>1, FS_CardinalityType
  <2> QED BY <1>10, <1>11, <2>2 DEF RowsAgree
<1>15. Open
  <2>1. visible[0] \in Copies
    BY <1>4, <1>6, <1>11, ReplayType, HiddenType
  <2>2. owes = Range(rows) \cup quarantine /\ Range(rows) \cap quarantine = {}
    BY <1>6, <1>10
  <2> QED BY <1>2, <1>6, <1>11, <2>1, <2>2 DEF Open
<1>16. ShownIsReplay
  BY <1>11, <1>12 DEF ShownIsReplay
<1> QED BY <1>12, <1>13, <1>14, <1>15, <1>16 DEF ClientInv

LEMMA ClientNextInv == ClientInv /\ [ClientNext]_clientVars => ClientInv'
<1> SUFFICES ASSUME ClientInv, [ClientNext]_clientVars PROVE ClientInv'
  OBVIOUS
<1>1. ASSUME NEW v \in Releases, Start(v) PROVE ClientInv'
  BY <1>1, ApplicationKeeps DEF Start
<1>2. CASE Stop
  BY <1>2, ApplicationKeeps DEF Stop
<1>3. CASE Refuse
  BY <1>3, ApplicationKeeps DEF Refuse
<1>4. CASE Begin
  BY <1>4, BeginKeeps
<1>5. CASE Batch
  BY <1>5, LogKeeps, EntitiesKeep, ReceiptsKeep, PendingKeeps, RetractionsKeep, FlipActiveKeeps,
     CleanupKeeps, FinishKeeps DEF Batch
<1>6. CASE UNCHANGED clientVars
  BY <1>6, ApplicationKeeps DEF clientVars, ClientInv, ClientType
<1> QED BY <1>1, <1>2, <1>3, <1>4, <1>5, <1>6 DEF ClientNext

(* What the client's promotion has and has yet to copy, in every state.    *)
THEOREM ClientInvariance == ClientSpec => []ClientInv
BY ClientInitInv, ClientNextInv, PTL DEF ClientSpec

(* However a promotion is cut into batches, stopped and resumed, and       *)
(* whatever handlers refuse, the open generation has every canonical       *)
(* entity, and each mutation that was waiting still waits, in order, or is *)
(* in quarantine, and in the end not both.                                 *)
THEOREM NothingIsLost == ClientSpec => []NothingLost
<1>1. ClientInv => NothingLost
  BY DEF ClientInv, Open, NothingLost, Promoting
<1> QED BY <1>1, ClientInvariance, PTL

(* If no receipt came before the page it announces, what the application   *)
(* shows is a replay of its pending mutations by its own handlers over its *)
(* canonical entities, before, during and after each promotion.            *)
THEOREM ShownCorrect == ClientSpec => []ShownIsReplay
<1>1. ClientInv => ShownIsReplay
  BY DEF ClientInv
<1> QED BY <1>1, ClientInvariance, PTL
==============================================================================
