------------------------- MODULE WakeAndWindowProofs -------------------------
(***************************************************************************)
(* Proofs about WindowIndex and OfflineWake.                               *)
(*                                                                         *)
(* WindowIndex: the deltas are exact and the client has its windows, for   *)
(* every number of keys, processes, releases, descriptors, partitions and  *)
(* writes, every size of the windows, the pages and the suffix, and every  *)
(* mutation, as long as operators only go forward and no release restores  *)
(* an index.                                                               *)
(*                                                                         *)
(* OfflineWake: for every set of clients, server processes and watches,    *)
(* and any number of writes, crashes, failures and lapses.                 *)
(***************************************************************************)
EXTENDS WindowIndex, OfflineWake, FiniteSetTheorems, WellFoundedInduction, TLAPS

Forward == RollingBack = FALSE /\ NeverRestored

Content == Values \cup {Absent}

(***************************************************************************)
(* The values of the variables.                                            *)
(***************************************************************************)
Views ==
  [layout : Range(Layouts), delivered : Nat, shown : [Keys -> Content]]

ValidPage(sent) ==
  /\ DOMAIN sent.changes \subseteq Keys
  /\ \A k \in DOMAIN sent.changes : sent.changes[k].value \in Content
  /\ sent.sequence \in 0 .. Head /\ sent.more \in BOOLEAN

WindowTypeInv ==
  /\ entities \in [Keys -> Content]
  /\ Head \in Nat /\ floor \in 0 .. Head
  /\ \A t \in touched : t[1] \in 1 .. Head
  /\ release \in [Processes -> DOMAIN Layouts] /\ owner \in Processes
  /\ installed \in DOMAIN Layouts /\ generation \in Nat
  /\ view # Void => view \in Views /\ view.delivered <= Head
  /\ page # Void => ValidPage(page)

(***************************************************************************)
(* The catalog has the indexes of the release installed last, and so has   *)
(* every release a process runs that is newer.  What is filled, the        *)
(* serving process maintains.                                              *)
(***************************************************************************)
CatalogInv ==
  /\ catalog = Needs(installed)
  /\ \A p \in Processes : release[p] > installed => Needs(release[p]) = Needs(installed)
  /\ built \subseteq catalog /\ built \subseteq Needs(release[owner])

(***************************************************************************)
(* A script that can still be applied was rendered for this catalog, and   *)
(* for a release that is newer than the one installed.                     *)
(***************************************************************************)
ScriptInv ==
  \A s \in scripts :
    /\ s.generation \in Nat /\ s.generation <= generation + 1
    /\ GenerationFree(s) =>
         /\ s.release \in DOMAIN Layouts /\ s.release > installed
         /\ s.missing = Missing(s.release) /\ s.orphans = Orphans(s.release)
         /\ Needs(s.release) # catalog

(***************************************************************************)
(* A filled table has the entities; the descriptors of the view are filled *)
(* or dropped for good.                                                    *)
(***************************************************************************)
Retired(d) ==
  /\ d \notin Needs(installed)
  /\ \E n \in DOMAIN Layouts : n < installed /\ d \in Needs(n)

TableInv ==
  /\ \A d \in built : rows[d] = entities
  /\ view # Void => \A d \in Range(view.layout) : d \in built \/ Retired(d)

(***************************************************************************)
(* What the client will have when it has applied its page is kept up to    *)
(* date by the suffix of the log and by the touched partitions: of what    *)
(* did not change it has the truth or nothing; it has whatever is in the   *)
(* window of an untouched partition, and what it has is in a window unless *)
(* a partition of it was touched.                                          *)
(***************************************************************************)
Kept(v) ==
  /\ v.delivered >= floor
  /\ Range(v.layout) \subseteq built \/ v.delivered = Head

InWindow(d, table, k) ==
  table[k] # Absent /\ k \in Members(d, table, {PartitionOf(d, table[k])})

Untouched(v, d, k) == PartitionOf(d, entities[k]) \notin Affected(v, d)

UpToDate(v) ==
  \A k \in Keys \ ChangedSince(v) :
    /\ v.shown[k] \in {Absent, entities[k]}
    /\ \A d \in Range(v.layout) :
         InWindow(d, entities, k) /\ Untouched(v, d, k) => v.shown[k] = entities[k]
    /\ (v.shown[k] # Absent /\ \A d \in Range(v.layout) : Untouched(v, d, k)) =>
         \E d \in Range(v.layout) : InWindow(d, entities, k)

ShownInv == view # Void /\ Kept(Acknowledged) => UpToDate(Acknowledged)

IndexInv == WindowTypeInv /\ CatalogInv /\ ScriptInv /\ TableInv /\ ShownInv

-----------------------------------------------------------------------------
(***************************************************************************)
(* Of the changes of a mutation to a key one is the last: with the changes *)
(* counted backwards it is the first.                                      *)
(***************************************************************************)
LEMMA LastIsContent ==
  ASSUME NEW m \in Mutations, NEW k \in Changed(m)
  PROVE  Last(m, k) \in Content
<1> DEFINE at == {i \in DOMAIN m : m[i].key = k}
           size == Cardinality(DOMAIN m)
           back == {size - i : i \in at}
           Below == {pair \in Nat \X Nat : pair[1] < pair[2]}
<1>1. IsFiniteSet(DOMAIN m) /\ DOMAIN m = 1 .. size
  BY WindowIndexAssumption
<1>2. size \in Nat
  BY <1>1, FS_CardinalityType
<1>3. at # {} /\ \A i \in at : i \in 1 .. size
  BY <1>1 DEF Changed
<1>4. back \subseteq Nat /\ back # {}
  <2> HIDE DEF at, size
  <2>1. ASSUME NEW i \in at PROVE size - i \in Nat
    BY <1>2, <1>3
  <2> QED BY <1>3, <2>1
<1>5. IsWellFoundedOn(Below, Nat)
  BY NatLessThanWellFounded DEF OpToRel
<1>6. PICK b \in back : \A c \in back : ~ (<<c, b>> \in Below)
  <2> HIDE DEF back, Below
  <2> QED BY <1>4, <1>5, WFMin
<1>7. PICK i \in at : b = size - i
  BY <1>6
<1>8. \A j \in at : j <= i
  <2> SUFFICES ASSUME NEW j \in at PROVE j <= i
    OBVIOUS
  <2>1. size - j \in back /\ size - j \in Nat /\ b \in Nat
    BY <1>4, <1>6
  <2>2. ~ (size - j < b)
    BY <1>6, <2>1
  <2> HIDE DEF at, size
  <2> QED BY <1>2, <1>3, <1>7, <2>2
<1>9. (CHOOSE n \in at : \A j \in at : j <= n) \in at
  BY <1>8
<1>10. \A n \in DOMAIN m : m[n].value \in Content
  BY WindowIndexAssumption DEF Content
<1> QED BY <1>9, <1>10 DEF Last

(***************************************************************************)
(* Windows: a member of some partitions is a member of its own; and which  *)
(* entities of a partition a window shows depends on that partition only.  *)
(***************************************************************************)
LEMMA MemberOf ==
  ASSUME NEW d, NEW table, NEW parts, NEW k
  PROVE  k \in Members(d, table, parts)
           <=> k \in Keys /\ PartitionOf(d, table[k]) \in parts /\ InWindow(d, table, k)
<1> DEFINE of(part) == {j \in Keys : table[j] # Absent /\ PartitionOf(d, table[j]) = part}
           shows(part) == {j \in of(part) :
                             \/ Cardinality({i \in of(part) : Newer(table, i, j)}) < Count[part]
                             \/ table[j].age >= Bound[part]}
<1>1. ASSUME NEW some PROVE Members(d, table, some) = UNION {shows(part) : part \in some}
  BY DEF Members
<1>2. ASSUME NEW part, k \in shows(part)
      PROVE  k \in Keys /\ table[k] # Absent /\ PartitionOf(d, table[k]) = part
  BY <1>2
<1> HIDE DEF shows
<1>3. k \in Members(d, table, parts) <=> \E part \in parts : k \in shows(part)
  BY <1>1
<1>4. k \in Members(d, table, {PartitionOf(d, table[k])}) <=> k \in shows(PartitionOf(d, table[k]))
  BY <1>1
<1> QED BY <1>2, <1>3, <1>4 DEF InWindow

LEMMA SameWindow ==
  ASSUME NEW d, NEW before, NEW after, NEW part,
         \A j \in Keys :
           \/ before[j] # Absent /\ PartitionOf(d, before[j]) = part
           \/ after[j] # Absent /\ PartitionOf(d, after[j]) = part
           => before[j] = after[j]
  PROVE  Members(d, before, {part}) = Members(d, after, {part})
<1> DEFINE of(table) == {k \in Keys : table[k] # Absent /\ PartitionOf(d, table[k]) = part}
           newer(table, k) == {j \in of(table) : Newer(table, j, k)}
           shows(table) == {k \in of(table) : \/ Cardinality(newer(table, k)) < Count[part]
                                              \/ table[k].age >= Bound[part]}
<1>1. of(before) = of(after)
  OBVIOUS
<1>2. \A k \in of(before) : before[k] = after[k]
  OBVIOUS
<1>3. ASSUME NEW k \in of(before) PROVE newer(before, k) = newer(after, k)
  <2>1. ASSUME NEW j \in of(before) PROVE Newer(before, j, k) <=> Newer(after, j, k)
    BY <1>2, <1>3 DEF Newer
  <2> HIDE DEF of
  <2> QED BY <1>1, <2>1
<1>4. shows(before) = shows(after)
  <2> HIDE DEF of, newer
  <2> QED BY <1>1, <1>2, <1>3
<1>5. ASSUME NEW table PROVE Members(d, table, {part}) = shows(table)
  BY DEF Members
<1> HIDE DEF shows
<1> QED BY <1>4, <1>5

(* An entity with the same value in both is then in both windows or none.  *)
LEMMA SameMember ==
  ASSUME NEW d, NEW before, NEW after, NEW k, before[k] = after[k],
         \A j \in Keys :
           \/ before[j] # Absent /\ PartitionOf(d, before[j]) = PartitionOf(d, before[k])
           \/ after[j] # Absent /\ PartitionOf(d, after[j]) = PartitionOf(d, before[k])
           => before[j] = after[j]
  PROVE  InWindow(d, before, k) <=> InWindow(d, after, k)
<1>1. Members(d, before, {PartitionOf(d, before[k])}) = Members(d, after, {PartitionOf(d, before[k])})
  BY SameWindow
<1> QED BY <1>1 DEF InWindow

(***************************************************************************)
(* The tables a request reads have the entities, so the window computed    *)
(* from nothing is the true one.                                           *)
(***************************************************************************)
LEMMA FilledIsTrue ==
  ASSUME TableInv, NEW d
  PROVE  Filled(d) = entities
BY DEF TableInv, Filled

LEMMA SelectionIsTrue ==
  ASSUME TableInv, NEW layout
  PROVE  Selection(layout) = TrueWindow(layout)
<1>1. {Members(d, Filled(d), Partitions) : d \in Range(layout)}
        = {Members(d, entities, Partitions) : d \in Range(layout)}
  BY FilledIsTrue
<1> QED BY <1>1 DEF Selection, TrueWindow

LEMMA TrueWindowAt ==
  ASSUME WindowTypeInv, NEW layout \in Range(Layouts), NEW k \in Keys
  PROVE  /\ (\E d \in Range(layout) : InWindow(d, entities, k)) =>
               TrueWindow(layout)[k] = entities[k] /\ entities[k] # Absent
         /\ ~ (\E d \in Range(layout) : InWindow(d, entities, k)) =>
               TrueWindow(layout)[k] = Absent
<1> DEFINE windowed == UNION {Members(d, entities, Partitions) : d \in Range(layout)}
<1>1. entities \in [Keys -> Content]
  BY DEF WindowTypeInv
<1>2. TrueWindow(layout)[k] = IF k \in windowed THEN entities[k] ELSE Absent
  BY DEF TrueWindow
<1>4. Range(layout) \subseteq Descriptors
  BY WindowIndexAssumption DEF Range
<1>5. ASSUME NEW d \in Range(layout)
      PROVE  k \in Members(d, entities, Partitions) <=> InWindow(d, entities, k)
  <2>1. InWindow(d, entities, k) => entities[k] \in Values
    BY <1>1 DEF InWindow, Content
  <2>2. InWindow(d, entities, k) => PartitionOf(d, entities[k]) \in Partitions
    BY <1>4, <2>1, WindowIndexAssumption
  <2> QED BY <2>2, MemberOf
<1>6. k \in windowed <=> \E d \in Range(layout) : InWindow(d, entities, k)
  BY <1>5
<1>7. (\E d \in Range(layout) : InWindow(d, entities, k)) => entities[k] # Absent
  BY DEF InWindow
<1> HIDE DEF windowed
<1> QED BY <1>2, <1>6, <1>7

LEMMA TrueWindowType ==
  ASSUME WindowTypeInv, NEW layout
  PROVE  TrueWindow(layout) \in [Keys -> Content]
<1> DEFINE windowed == UNION {Members(d, entities, Partitions) : d \in Range(layout)}
<1>1. entities \in [Keys -> Content]
  BY DEF WindowTypeInv
<1>2. TrueWindow(layout) = [j \in Keys |-> IF j \in windowed THEN entities[j] ELSE Absent]
  BY DEF TrueWindow
<1> HIDE DEF windowed
<1> QED BY <1>1, <1>2 DEF Content

(***************************************************************************)
(* The delta of a view that is up to date is exact.                        *)
(***************************************************************************)
LEMMA UpToDateIsExact ==
  ASSUME WindowTypeInv, TableInv, NEW v \in Views, UpToDate(v)
  PROVE  Delta(v, v.layout) = Diff(v.shown, TrueWindow(v.layout))
<1> DEFINE L == Range(v.layout)
           candidates == Candidates(v, v.layout)
           read(d) == Affected(v, d) \cup PartitionsOf(d, {Filled(d)[k] : k \in candidates})
           windowed == UNION {Members(d, Filled(d), read(d)) : d \in L}
           target == [k \in Keys |-> IF k \notin candidates THEN v.shown[k]
                                     ELSE IF k \in windowed THEN entities[k] ELSE Absent]
           true == TrueWindow(v.layout)
<1>1. Delta(v, v.layout) = Diff(v.shown, target)
  BY DEF Delta
<1>2. \A d : Filled(d) = entities
  BY FilledIsTrue
<1>3. v.layout \in Range(Layouts)
  BY DEF Views
<1>4. ASSUME NEW k \in Keys, k \notin candidates PROVE v.shown[k] = true[k]
  <2>1. k \notin ChangedSince(v)
    BY <1>4 DEF Candidates
  <2>2. /\ v.shown[k] \in {Absent, entities[k]}
        /\ \A d \in L : InWindow(d, entities, k) /\ Untouched(v, d, k)
                          => v.shown[k] = entities[k]
        /\ (v.shown[k] # Absent /\ \A d \in L : Untouched(v, d, k)) =>
              \E d \in L : InWindow(d, entities, k)
    BY <2>1 DEF UpToDate
  <2>3. ASSUME NEW d \in L
        PROVE  /\ k \notin HeldIn(v, d, Affected(v, d))
               /\ k \notin Members(d, entities, Affected(v, d))
    BY <1>2, <1>4 DEF Candidates
  <2>4. ASSUME NEW d \in L, v.shown[k] # Absent PROVE Untouched(v, d, k)
    BY <1>2, <2>2, <2>3, <2>4 DEF HeldIn, Untouched
  <2>5. ASSUME NEW d \in L, InWindow(d, entities, k) PROVE Untouched(v, d, k)
    BY <2>3, <2>5, MemberOf DEF Untouched
  <2>6. /\ (\E d \in L : InWindow(d, entities, k)) => true[k] = entities[k]
        /\ ~ (\E d \in L : InWindow(d, entities, k)) => true[k] = Absent
    BY <1>3, TrueWindowAt
  <2>7. CASE \E d \in L : InWindow(d, entities, k)
    BY <2>2, <2>5, <2>6, <2>7
  <2>8. CASE ~ \E d \in L : InWindow(d, entities, k)
    BY <2>2, <2>4, <2>6, <2>8
  <2> QED BY <2>7, <2>8
<1>5. ASSUME NEW k \in Keys, k \in candidates
      PROVE  (IF k \in windowed THEN entities[k] ELSE Absent) = true[k]
  <2>1. ASSUME NEW d \in L
        PROVE  k \in Members(d, Filled(d), read(d)) <=> InWindow(d, entities, k)
    <3>1. InWindow(d, entities, k) =>
            PartitionOf(d, entities[k]) \in PartitionsOf(d, {entities[j] : j \in candidates})
      BY <1>5 DEF InWindow, PartitionsOf
    <3>2. InWindow(d, entities, k) => PartitionOf(d, entities[k]) \in read(d)
      BY <1>2, <3>1
    <3> HIDE DEF read
    <3>3. k \in Members(d, entities, read(d)) <=>
            PartitionOf(d, entities[k]) \in read(d) /\ InWindow(d, entities, k)
      BY MemberOf
    <3> QED BY <1>2, <3>2, <3>3
  <2>2. k \in windowed <=> \E d \in L : InWindow(d, entities, k)
    <3> HIDE DEF read
    <3> QED BY <2>1
  <2> HIDE DEF windowed
  <2> QED BY <1>3, <2>2, TrueWindowAt
<1>6. true \in [Keys -> Content]
  BY TrueWindowType
<1>7. target = true
  <2> HIDE DEF windowed, candidates, true
  <2>1. \A k \in Keys : target[k] = true[k]
    BY <1>4, <1>5
  <2>2. target = [k \in Keys |-> target[k]] /\ true = [k \in Keys |-> true[k]]
    BY <1>6
  <2> HIDE DEF target
  <2> QED BY <2>1, <2>2
<1> QED BY <1>1, <1>7

-----------------------------------------------------------------------------
(***************************************************************************)
(* The view when its page is applied.                                      *)
(***************************************************************************)
After(v, sent) ==
  [v EXCEPT
     !.shown = [k \in Keys |-> IF k \in DOMAIN sent.changes THEN sent.changes[k].value
                               ELSE v.shown[k]],
     !.delivered = Watermark(v, sent)]

LEMMA AfterType ==
  ASSUME NEW v \in Views, NEW sent, NEW head \in Nat, v.delivered <= head,
         \A k \in DOMAIN sent.changes : sent.changes[k].value \in Content,
         sent.sequence \in 0 .. head
  PROVE  /\ After(v, sent) \in Views
         /\ After(v, sent).layout = v.layout
         /\ After(v, sent).delivered = Watermark(v, sent)
         /\ After(v, sent).delivered <= head
         /\ \A k \in Keys : After(v, sent).shown[k] =
              IF k \in DOMAIN sent.changes THEN sent.changes[k].value ELSE v.shown[k]
<1> DEFINE shown == [k \in Keys |-> IF k \in DOMAIN sent.changes THEN sent.changes[k].value
                                    ELSE v.shown[k]]
<1>1. shown \in [Keys -> Content]
  BY DEF Views
<1>2. Watermark(v, sent) \in Nat /\ Watermark(v, sent) <= head
  BY DEF Watermark, Views
<1>3. After(v, sent) = [v EXCEPT !.shown = shown, !.delivered = Watermark(v, sent)]
  BY DEF After
<1> HIDE DEF shown
<1>4. /\ After(v, sent) \in Views /\ After(v, sent).layout = v.layout
      /\ After(v, sent).delivered = Watermark(v, sent) /\ After(v, sent).shown = shown
  BY <1>1, <1>2, <1>3 DEF Views
<1> QED BY <1>2, <1>4 DEF shown

LEMMA AcknowledgedIs ==
  Acknowledged = IF page = Void THEN view ELSE After(view, page)
BY DEF Acknowledged, After

LEMMA AcknowledgedType ==
  ASSUME WindowTypeInv, view # Void
  PROVE  /\ Acknowledged \in Views /\ Acknowledged.delivered \in 0 .. Head
         /\ Acknowledged.layout = view.layout
<1>1. view \in Views /\ view.delivered <= Head /\ Head \in Nat
  BY DEF WindowTypeInv
<1>2. CASE page = Void
  BY <1>1, <1>2, AcknowledgedIs DEF Views
<1>3. CASE page # Void
  <2>1. ValidPage(page)
    BY <1>3 DEF WindowTypeInv
  <2>2. /\ After(view, page) \in Views /\ After(view, page).layout = view.layout
        /\ After(view, page).delivered <= Head
    BY <1>1, <2>1, AfterType DEF ValidPage
  <2> QED BY <1>3, <2>2, AcknowledgedIs DEF Views
<1> QED BY <1>2, <1>3

(***************************************************************************)
(* A view served from the current catalog is up to date: a descriptor that *)
(* was dropped is not in it.  So every pull sends what a comparison of the *)
(* client's entities with the true window gives.                           *)
(***************************************************************************)
LEMMA ServedIsBuilt ==
  ASSUME CatalogInv, TableInv, view # Void, Range(view.layout) \subseteq catalog
  PROVE  Range(view.layout) \subseteq built
BY DEF CatalogInv, TableInv, Retired

LEMMA SuffixIsExact ==
  ASSUME IndexInv, view # Void, Range(view.layout) \subseteq catalog,
         SuffixServes(Acknowledged)
  PROVE  Delta(Acknowledged, view.layout)
           = Diff(Acknowledged.shown, TrueWindow(view.layout))
<1>1. WindowTypeInv /\ CatalogInv /\ TableInv /\ ShownInv
  BY DEF IndexInv
<1>2. /\ Acknowledged \in Views /\ Acknowledged.delivered \in 0 .. Head
      /\ Acknowledged.layout = view.layout
  BY <1>1, AcknowledgedType
<1>3. Range(view.layout) \subseteq built
  BY <1>1, ServedIsBuilt
<1>4. Acknowledged.delivered >= floor
  BY <1>1, <1>2 DEF SuffixServes, WindowTypeInv
<1>5. UpToDate(Acknowledged)
  BY <1>1, <1>2, <1>3, <1>4 DEF ShownInv, Kept
<1>6. Delta(Acknowledged, Acknowledged.layout)
        = Diff(Acknowledged.shown, TrueWindow(Acknowledged.layout))
  BY <1>1, <1>2, <1>5, UpToDateIsExact
<1> QED BY <1>2, <1>6

LEMMA DerivedIsExact ==
  ASSUME IndexInv, view # Void, Range(view.layout) \subseteq catalog
  PROVE  Derived(Acknowledged, view.layout)
           = Diff(Acknowledged.shown, TrueWindow(view.layout))
BY SuffixIsExact, SelectionIsTrue DEF Derived, IndexInv

(***************************************************************************)
(* A view that has the true window and all changes is up to date.          *)
(***************************************************************************)
LEMMA WholeIsUpToDate ==
  ASSUME WindowTypeInv, NEW v \in Views, v.shown = TrueWindow(v.layout)
  PROVE  UpToDate(v)
<1> SUFFICES ASSUME NEW k \in Keys \ ChangedSince(v)
             PROVE  /\ v.shown[k] \in {Absent, entities[k]}
                    /\ \A d \in Range(v.layout) : InWindow(d, entities, k) => v.shown[k] = entities[k]
                    /\ v.shown[k] # Absent => \E d \in Range(v.layout) : InWindow(d, entities, k)
  BY DEF UpToDate
<1>1. v.layout \in Range(Layouts)
  BY DEF Views
<1> QED BY <1>1, TrueWindowAt

(* A view is also up to date when it has the true window of some keys and  *)
(* was up to date.                                                         *)
LEMMA PartIsUpToDate ==
  ASSUME WindowTypeInv, NEW v \in Views, NEW w \in Views, UpToDate(v),
         w.layout = v.layout, w.delivered = v.delivered,
         \A k \in Keys : w.shown[k] \in {v.shown[k], TrueWindow(v.layout)[k]}
  PROVE  UpToDate(w)
<1>1. ChangedSince(w) = ChangedSince(v)
  BY DEF ChangedSince, Suffix
<1>2. ASSUME NEW d, NEW k PROVE Untouched(w, d, k) <=> Untouched(v, d, k)
  BY DEF Untouched, Affected
<1> SUFFICES ASSUME NEW k \in Keys \ ChangedSince(v)
             PROVE  /\ w.shown[k] \in {Absent, entities[k]}
                    /\ \A d \in Range(v.layout) :
                         InWindow(d, entities, k) /\ Untouched(v, d, k) => w.shown[k] = entities[k]
                    /\ (w.shown[k] # Absent /\ \A d \in Range(v.layout) : Untouched(v, d, k)) =>
                          \E d \in Range(v.layout) : InWindow(d, entities, k)
  BY <1>1, <1>2 DEF UpToDate
<1>3. v.layout \in Range(Layouts)
  BY DEF Views
<1>4. CASE w.shown[k] = v.shown[k]
  BY <1>4 DEF UpToDate
<1>5. CASE w.shown[k] = TrueWindow(v.layout)[k]
  BY <1>3, <1>5, TrueWindowAt
<1> QED BY <1>4, <1>5

(***************************************************************************)
(* Both do not depend on the indexes, so a step that changes neither the   *)
(* entities nor the logs keeps them.                                       *)
(***************************************************************************)
LEMMA UpToDateKept ==
  ASSUME UNCHANGED <<entities, log, touched>>, NEW v, UpToDate(v)
  PROVE  UpToDate(v)'
<1>1. Head' = Head
  BY DEF Head
<1>2. ChangedSince(v)' = ChangedSince(v)
  BY <1>1 DEF ChangedSince, Suffix
<1>3. ASSUME NEW d, NEW k PROVE Untouched(v, d, k)' <=> Untouched(v, d, k)
  BY DEF Untouched, Affected
<1>4. ASSUME NEW d, NEW k PROVE InWindow(d, entities, k)' <=> InWindow(d, entities, k)
  BY DEF InWindow, Members, Newer
<1> QED BY <1>2, <1>3, <1>4 DEF UpToDate

-----------------------------------------------------------------------------
(***************************************************************************)
(* Installing the indexes of a release that is not older than the one      *)
(* installed: what a filled table loses is dropped for good.               *)
(***************************************************************************)
LEMMA RetiredStays ==
  ASSUME Forward, WindowTypeInv, NEW n \in DOMAIN Layouts, n >= installed, installed' = n,
         NEW d, Retired(d)
  PROVE  Retired(d)'
<1>1. PICK l \in DOMAIN Layouts : l < installed /\ d \in Needs(l)
  BY DEF Retired
<1>2. DOMAIN Layouts \subseteq Nat /\ installed \in DOMAIN Layouts
  BY WindowIndexAssumption DEF WindowTypeInv
<1>3. d \notin Needs(installed)
  BY DEF Retired
<1>4. d \notin Needs(n)
  <2>1. CASE n = installed
    BY <1>3, <2>1
  <2>2. CASE n # installed
    <3>1. l < installed /\ installed < n
      BY <1>1, <1>2, <2>2
    <3>2. Needs(l) \cap Needs(n) \subseteq Needs(installed)
      BY <1>2, <3>1 DEF Forward, NeverRestored
    <3> QED BY <1>1, <1>3, <3>2
  <2> QED BY <2>1, <2>2
<1>5. l < n
  BY <1>1, <1>2
<1> QED BY <1>1, <1>4, <1>5 DEF Retired, Needs

LEMMA Installing ==
  ASSUME Forward, WindowTypeInv, CatalogInv, NEW n \in DOMAIN Layouts, n >= installed,
         Install(Missing(n), Orphans(n)), installed' = n
  PROVE  /\ catalog' = Needs(n)
         /\ built' \subseteq built /\ built' \subseteq Needs(n)
         /\ \A d \in built : d \in built' \/ Retired(d)'
<1>1. DOMAIN Layouts \subseteq Nat /\ installed \in DOMAIN Layouts
  BY WindowIndexAssumption DEF WindowTypeInv
<1>2. catalog = Needs(installed) /\ built \subseteq catalog
  BY DEF CatalogInv
<1>3. /\ catalog' = (catalog \cup Missing(n)) \ Orphans(n)
      /\ built' = built \ Orphans(n)
  BY DEF Install
<1>4. catalog' = Needs(n) /\ built' \subseteq built /\ built' \subseteq Needs(n)
  BY <1>2, <1>3 DEF Missing, Orphans
<1>5. ASSUME NEW d \in built, d \notin built' PROVE Retired(d)'
  <2>1. d \in Needs(installed) /\ d \notin Needs(n)
    BY <1>2, <1>3, <1>5 DEF Orphans
  <2>2. installed < n
    BY <1>1, <2>1
  <2> QED BY <1>1, <2>1, <2>2 DEF Retired, Needs
<1> QED BY <1>4, <1>5

(* Releases between two with the same indexes have these.                  *)
LEMMA SameBetween ==
  ASSUME Forward, NEW l \in DOMAIN Layouts, NEW m \in DOMAIN Layouts, NEW n \in DOMAIN Layouts,
         l <= m, m <= n, Needs(n) = Needs(l)
  PROVE  Needs(m) = Needs(l)
<1>1. l \in Nat /\ m \in Nat /\ n \in Nat
  BY WindowIndexAssumption
<1>2. CASE l = m \/ m = n
  BY <1>2
<1>3. CASE l < m /\ m < n
  BY <1>3 DEF Forward, NeverRestored
<1> QED BY <1>1, <1>2, <1>3

(***************************************************************************)
(* A script that can still be applied is for a newer release.              *)
(***************************************************************************)
LEMMA ApplyingScript ==
  ASSUME ScriptInv, NEW s \in scripts, ApplyScript(s)
  PROVE  /\ s.release \in DOMAIN Layouts /\ s.release > installed
         /\ Install(Missing(s.release), Orphans(s.release)) /\ installed' = s.release
         /\ Needs(s.release) # catalog
<1>1. GenerationFree(s)
  BY DEF ApplyScript
<1>2. /\ s.release \in DOMAIN Layouts /\ s.release > installed
      /\ s.missing = Missing(s.release) /\ s.orphans = Orphans(s.release)
      /\ Needs(s.release) # catalog
  BY <1>1 DEF ScriptInv
<1>3. Install(s.missing, s.orphans) /\ installed' = s.release
  BY DEF ApplyScript
<1>4. Install(Missing(s.release), Orphans(s.release))
  BY <1>2, <1>3
<1> QED BY <1>2, <1>3, <1>4

LEMMA ScriptGeneration ==
  ASSUME WindowTypeInv, ScriptInv, NEW s \in scripts, ApplyScript(s)
  PROVE  generation' = generation + 1
BY DEF ApplyScript, ScriptInv, GenerationFree, WindowTypeInv

(***************************************************************************)
(* Init.                                                                   *)
(***************************************************************************)
LEMMA IndexInit ==
  ASSUME WindowInit
  PROVE  IndexInv
<1>1. DOMAIN Layouts \subseteq Nat /\ 1 \in DOMAIN Layouts
  BY WindowIndexAssumption
<1>2. Head = 0
  BY FS_EmptySet DEF WindowInit, Head
<1>3. WindowTypeInv
  BY <1>1, <1>2 DEF WindowInit, WindowTypeInv, Nothing, Content
<1>4. CatalogInv /\ ScriptInv /\ TableInv /\ ShownInv
  BY <1>1 DEF WindowInit, CatalogInv, ScriptInv, TableInv, ShownInv
<1> QED BY <1>3, <1>4 DEF IndexInv

(***************************************************************************)
(* CatalogInv.                                                             *)
(***************************************************************************)
LEMMA CatalogStep ==
  ASSUME Forward, IndexInv, WindowNext
  PROVE  CatalogInv'
<1> USE DEF IndexInv
<1>1. DOMAIN Layouts \subseteq Nat /\ installed \in DOMAIN Layouts
  BY WindowIndexAssumption DEF WindowTypeInv
<1>2. release \in [Processes -> DOMAIN Layouts] /\ owner \in Processes
  BY DEF WindowTypeInv
<1>3. ~ RollingBack
  BY DEF Forward
<1>4. ASSUME NEW p \in Processes, NEW n \in DOMAIN Layouts, Boot(p, n) PROVE CatalogInv'
  <2>1. n >= installed /\ Install(Missing(n), Orphans(n)) /\ installed' = n
        /\ release' = [release EXCEPT ![p] = n] /\ owner' = owner
    BY <1>3, <1>4 DEF Boot, MayRelease
  <2>2. catalog' = Needs(n) /\ built' \subseteq built /\ built' \subseteq Needs(n)
    BY <2>1, Installing
  <2>3. ASSUME NEW q \in Processes, release'[q] > n PROVE Needs(release'[q]) = Needs(n)
    <3>1. release'[q] = release[q]
      BY <1>1, <1>2, <2>1, <2>3
    <3>2. release[q] > installed
      BY <1>1, <1>2, <2>1, <2>3, <3>1
    <3>3. Needs(release[q]) = Needs(installed)
      BY <3>2 DEF CatalogInv
    <3>4. Needs(n) = Needs(installed)
      BY <1>1, <1>2, <2>1, <2>3, <3>1, <3>3, SameBetween
    <3> QED BY <3>1, <3>3, <3>4
  <2>4. built' \subseteq Needs(release'[owner])
    BY <1>2, <2>1, <2>2 DEF CatalogInv
  <2> QED BY <2>1, <2>2, <2>3, <2>4 DEF CatalogInv, Needs
<1>5. ASSUME NEW p \in Processes, NEW n \in DOMAIN Layouts, BootVerified(p, n) PROVE CatalogInv'
  <2>1. /\ Missing(n) \cup Orphans(n) = {} /\ release' = [release EXCEPT ![p] = n]
        /\ catalog' = catalog /\ built' = built /\ installed' = installed /\ owner' = owner
    BY <1>5 DEF BootVerified, indexTables
  <2>2. Needs(n) = catalog
    BY <2>1 DEF Missing, Orphans
  <2>3. ASSUME NEW q \in Processes
        PROVE  /\ release'[q] > installed => Needs(release'[q]) = Needs(installed)
               /\ built \subseteq Needs(release[q]) => built \subseteq Needs(release'[q])
    <3>1. CASE q = p
      BY <1>2, <2>1, <2>2, <3>1 DEF CatalogInv
    <3>2. CASE q # p
      BY <1>2, <2>1, <3>2 DEF CatalogInv
    <3> QED BY <3>1, <3>2
  <2> QED BY <1>2, <2>1, <2>3 DEF CatalogInv, Needs
<1>6. ASSUME NEW s \in scripts, ApplyScript(s) PROVE CatalogInv'
  <2> DEFINE n == s.release
  <2>1. /\ n \in DOMAIN Layouts /\ n > installed
        /\ Install(Missing(n), Orphans(n)) /\ installed' = n
    BY <1>6, ApplyingScript
  <2>2. release' = release /\ owner' = owner
    BY <1>6 DEF ApplyScript
  <2> HIDE DEF n
  <2>3. n >= installed
    BY <1>1, <2>1
  <2>4. catalog' = Needs(n) /\ built' \subseteq built /\ built' \subseteq Needs(n)
    BY <2>1, <2>3, Installing
  <2>5. ASSUME NEW q \in Processes, release[q] > n PROVE Needs(release[q]) = Needs(n)
    <3>1. release[q] > installed
      BY <1>1, <1>2, <2>1, <2>5
    <3>2. Needs(release[q]) = Needs(installed)
      BY <3>1 DEF CatalogInv
    <3>3. Needs(n) = Needs(installed)
      BY <1>1, <1>2, <2>1, <2>3, <2>5, <3>2, SameBetween
    <3> QED BY <3>2, <3>3
  <2> QED BY <2>1, <2>2, <2>4, <2>5 DEF CatalogInv, Needs
<1>7. ASSUME NEW p \in Processes, MoveSpace(p) PROVE CatalogInv'
  <2>1. /\ release[p] >= release[owner] /\ owner' = p
        /\ catalog' = catalog /\ built' = built /\ installed' = installed /\ release' = release
    BY <1>3, <1>7 DEF MoveSpace, indexTables
  <2>2. built \subseteq Needs(installed) /\ built \subseteq Needs(release[owner])
    BY DEF CatalogInv
  <2>3. release[p] \in DOMAIN Layouts /\ release[owner] \in DOMAIN Layouts
    BY <1>2
  <2>4. CASE release[p] > installed \/ release[p] = installed \/ release[p] = release[owner]
    <3>1. built \subseteq Needs(release[p])
      BY <2>2, <2>4 DEF CatalogInv
    <3> QED BY <2>1, <3>1 DEF CatalogInv, Needs
  <2>5. CASE release[owner] < release[p] /\ release[p] < installed
    <3>1. Needs(release[owner]) \cap Needs(installed) \subseteq Needs(release[p])
      BY <1>1, <2>3, <2>5 DEF Forward, NeverRestored
    <3> QED BY <2>1, <2>2, <3>1 DEF CatalogInv, Needs
  <2> QED BY <1>1, <2>1, <2>3, <2>4, <2>5
<1>8. ASSUME UNCHANGED <<catalog, built, release, owner, installed>> PROVE CatalogInv'
  BY <1>8 DEF CatalogInv, Needs
<1>9. ASSUME UNCHANGED <<catalog, release, owner, installed>>, EnsureBuilt(Layout(owner))
      PROVE  CatalogInv'
  BY <1>9 DEF CatalogInv, Needs, EnsureBuilt, Layout
<1>10. ASSUME NEW n \in DOMAIN Layouts, Render(n) PROVE CatalogInv'
  BY <1>8, <1>10 DEF Render, indexTables
<1>11. ASSUME NEW m \in Mutations, Write(m) PROVE CatalogInv'
  BY <1>8, <1>11 DEF Write
<1>12. ASSUME NEW through \in 1 .. MaxMutations, Prune(through) PROVE CatalogInv'
  BY <1>8, <1>12 DEF Prune
<1>13. ASSUME PullWindow PROVE CatalogInv'
  BY <1>9, <1>13 DEF PullWindow
<1>14. ASSUME PullAgain PROVE CatalogInv'
  BY <1>9, <1>14 DEF PullAgain
<1> QED BY <1>4, <1>5, <1>6, <1>7, <1>10, <1>11, <1>12, <1>13, <1>14 DEF WindowNext

(***************************************************************************)
(* ScriptInv.                                                              *)
(***************************************************************************)
LEMMA ScriptStep ==
  ASSUME Forward, IndexInv, WindowNext
  PROVE  ScriptInv'
<1> USE DEF IndexInv
<1>1. DOMAIN Layouts \subseteq Nat /\ installed \in DOMAIN Layouts /\ generation \in Nat
  BY WindowIndexAssumption DEF WindowTypeInv
<1>2. catalog = Needs(installed)
  BY DEF CatalogInv
<1>3. ~ RollingBack
  BY DEF Forward
<1>4. ASSUME UNCHANGED <<scripts, catalog, generation, installed>> PROVE ScriptInv'
  BY <1>4 DEF ScriptInv, GenerationFree, Missing, Orphans, Needs
<1>5. ASSUME scripts' = scripts, generation' = generation + 1 PROVE ScriptInv'
  BY <1>1, <1>5 DEF ScriptInv, GenerationFree
<1>6. ASSUME NEW p \in Processes, NEW n \in DOMAIN Layouts, Boot(p, n) PROVE ScriptInv'
  <2>1. /\ n >= installed /\ Install(Missing(n), Orphans(n)) /\ installed' = n
        /\ scripts' = scripts
        /\ generation' = generation + (IF Missing(n) \cup Orphans(n) = {} THEN 0 ELSE 1)
    BY <1>3, <1>6 DEF Boot, MayRelease
  <2>2. CASE Missing(n) \cup Orphans(n) # {}
    BY <1>5, <2>1, <2>2
  <2>3. CASE Missing(n) \cup Orphans(n) = {}
    <3>1. generation' = generation
      BY <1>1, <2>1, <2>3
    <3>2. Needs(n) = catalog /\ catalog' = catalog
      BY <2>1, <2>3 DEF Missing, Orphans, Install
    <3>3. ASSUME NEW s \in scripts, GenerationFree(s) PROVE s.release > n
      <4>1. /\ s.release \in DOMAIN Layouts /\ s.release > installed
            /\ Needs(s.release) # catalog
        BY <3>3 DEF ScriptInv
      <4>2. ~ (s.release <= n)
        BY <1>1, <1>2, <3>2, <4>1, SameBetween
      <4> QED BY <1>1, <4>1, <4>2
    <3> QED BY <2>1, <3>1, <3>2, <3>3
         DEF ScriptInv, GenerationFree, Missing, Orphans, Needs
  <2> QED BY <2>2, <2>3
<1>7. ASSUME NEW n \in DOMAIN Layouts, Render(n) PROVE ScriptInv'
  <2> DEFINE new == [release |-> n, generation |-> generation + 1,
                     missing |-> Missing(n), orphans |-> Orphans(n)]
  <2>1. /\ n >= installed /\ Missing(n) \cup Orphans(n) # {}
        /\ scripts' = scripts \cup {new}
        /\ catalog' = catalog /\ generation' = generation /\ installed' = installed
    BY <1>3, <1>7 DEF Render, MayRelease
  <2>2. Needs(n) # catalog
    BY <2>1 DEF Missing, Orphans
  <2>3. n > installed
    BY <1>1, <1>2, <2>1, <2>2
  <2>4. /\ new.release = n /\ new.generation = generation + 1
        /\ new.missing = Missing(n) /\ new.orphans = Orphans(n)
    OBVIOUS
  <2> HIDE DEF new
  <2>5. ASSUME NEW s \in scripts'
        PROVE  /\ s.generation \in Nat /\ s.generation <= generation + 1
               /\ s.generation > generation =>
                    /\ s.release \in DOMAIN Layouts /\ s.release > installed
                    /\ s.missing = Missing(s.release) /\ s.orphans = Orphans(s.release)
                    /\ Needs(s.release) # catalog
    <3>1. CASE s = new
      BY <1>1, <2>2, <2>3, <2>4, <3>1
    <3>2. CASE s \in scripts
      BY <3>2 DEF ScriptInv, GenerationFree
    <3> QED BY <2>1, <3>1, <3>2
  <2> QED BY <2>1, <2>5 DEF ScriptInv, GenerationFree, Missing, Orphans, Needs
<1>8. ASSUME NEW s \in scripts, ApplyScript(s) PROVE ScriptInv'
  BY <1>5, <1>8, ScriptGeneration DEF ApplyScript
<1>9. ASSUME NEW p \in Processes, NEW n \in DOMAIN Layouts, BootVerified(p, n) PROVE ScriptInv'
  BY <1>4, <1>9 DEF BootVerified
<1>10. ASSUME NEW p \in Processes, MoveSpace(p) PROVE ScriptInv'
  BY <1>4, <1>10 DEF MoveSpace
<1>11. ASSUME NEW m \in Mutations, Write(m) PROVE ScriptInv'
  BY <1>4, <1>11 DEF Write
<1>12. ASSUME NEW through \in 1 .. MaxMutations, Prune(through) PROVE ScriptInv'
  BY <1>4, <1>12 DEF Prune
<1>13. ASSUME PullWindow PROVE ScriptInv'
  BY <1>4, <1>13 DEF PullWindow
<1>14. ASSUME PullAgain PROVE ScriptInv'
  BY <1>4, <1>14 DEF PullAgain
<1> QED BY <1>6, <1>7, <1>8, <1>9, <1>10, <1>11, <1>12, <1>13, <1>14 DEF WindowNext

(***************************************************************************)
(* What a page has of the changes, and what the client is given.           *)
(***************************************************************************)
LEMMA PageTells ==
  ASSUME NEW changes
  PROVE  /\ DOMAIN PageOf(changes).changes \subseteq DOMAIN changes
         /\ \A k \in DOMAIN PageOf(changes).changes : PageOf(changes).changes[k] = changes[k]
         /\ PageOf(changes).sequence = Head /\ PageOf(changes).more \in BOOLEAN
         /\ ~ PageOf(changes).more => DOMAIN PageOf(changes).changes = DOMAIN changes
<1> DEFINE first == {k \in DOMAIN changes :
                       Cardinality({j \in DOMAIN changes : j < k}) < PageSize}
<1>1. first \subseteq DOMAIN changes
  OBVIOUS
<1>2. PageOf(changes) = [changes |-> Restrict(changes, first), sequence |-> Head,
                         more |-> first # DOMAIN changes]
  BY DEF PageOf
<1> HIDE DEF first
<1>3. DOMAIN Restrict(changes, first) = first
      /\ \A k \in first : Restrict(changes, first)[k] = changes[k]
  BY <1>1 DEF Restrict
<1>4. CASE first # DOMAIN changes
  <2>1. (first # DOMAIN changes) = TRUE
    BY <1>4
  <2>2. PageOf(changes) = [changes |-> Restrict(changes, first), sequence |-> Head, more |-> TRUE]
    BY <1>2, <2>1, Zenon
  <2> QED BY <1>1, <1>3, <2>2
<1>5. CASE first = DOMAIN changes
  <2>1. (first # DOMAIN changes) = FALSE
    BY <1>5
  <2>2. PageOf(changes) = [changes |-> Restrict(changes, first), sequence |-> Head, more |-> FALSE]
    BY <1>2, <2>1, Zenon
  <2> QED BY <1>5, <1>3, <2>2
<1> QED BY <1>4, <1>5

LEMMA Bootstrapped ==
  ASSUME WindowTypeInv, TableInv, NEW layout \in Range(Layouts), Bootstrap(layout)
  PROVE  /\ view' \in Views /\ view'.layout = layout /\ view'.delivered = Head
         /\ view'.shown = TrueWindow(layout) /\ page' = Void
<1>1. Selection(layout) = TrueWindow(layout) /\ TrueWindow(layout) \in [Keys -> Content]
  BY SelectionIsTrue, TrueWindowType
<1>2. Head \in Nat
  BY DEF WindowTypeInv
<1>3. view' = [layout |-> layout, delivered |-> Head, shown |-> TrueWindow(layout)]
      /\ page' = Void
  BY <1>1 DEF Bootstrap
<1> QED BY <1>1, <1>2, <1>3 DEF Views

(* A pull of the view acknowledges the page, and the next one has some of  *)
(* what the view differs in from the true window, or all of it.            *)
LEMMA Pulled ==
  ASSUME IndexInv, PullWindow, Serves(Layout(owner))
  PROVE  /\ view # Void /\ Range(view.layout) \subseteq catalog /\ view' = Acknowledged
         /\ DOMAIN page'.changes
              \subseteq {k \in Keys : Acknowledged.shown[k] # TrueWindow(view.layout)[k]}
         /\ \A k \in DOMAIN page'.changes :
              page'.changes[k].value = TrueWindow(view.layout)[k]
         /\ page'.sequence = Head /\ page'.more \in BOOLEAN
         /\ ~ page'.more => DOMAIN page'.changes
              = {k \in Keys : Acknowledged.shown[k] # TrueWindow(view.layout)[k]}
<1>1. /\ view # Void /\ view.layout = Layout(owner)
      /\ Range(view.layout) \subseteq catalog
      /\ view' = Acknowledged /\ page' = PageOf(Derived(Acknowledged, view.layout))
  BY DEF PullWindow, Serves, EnsureBuilt
<1> DEFINE changes == Diff(Acknowledged.shown, TrueWindow(view.layout))
<1>2. page' = PageOf(changes)
  BY <1>1, DerivedIsExact
<1>3. /\ DOMAIN changes = {k \in Keys : Acknowledged.shown[k] # TrueWindow(view.layout)[k]}
      /\ \A k \in DOMAIN changes : changes[k].value = TrueWindow(view.layout)[k]
  BY DEF Diff
<1> HIDE DEF changes
<1>4. /\ DOMAIN page'.changes \subseteq DOMAIN changes
      /\ \A k \in DOMAIN page'.changes : page'.changes[k] = changes[k]
      /\ page'.sequence = Head /\ page'.more \in BOOLEAN
      /\ ~ page'.more => DOMAIN page'.changes = DOMAIN changes
  BY <1>2, PageTells
<1>5. \A k \in DOMAIN page'.changes : page'.changes[k].value = TrueWindow(view.layout)[k]
  BY <1>3, <1>4
<1> QED BY <1>1, <1>3, <1>4, <1>5

(***************************************************************************)
(* TypeInv.                                                                *)
(***************************************************************************)
LEMMA Writing ==
  ASSUME WindowTypeInv, NEW m \in Mutations, Write(m)
  PROVE  /\ Head' = Head + 1 /\ entities' \in [Keys -> Content]
         /\ \A k \in Keys \ Changed(m) : entities'[k] = entities[k]
         /\ log' = [s \in 1 .. Head + 1 |-> IF s = Head + 1 THEN Changed(m) ELSE log[s]]
<1> DEFINE next == [k \in Keys |-> IF k \in Changed(m) THEN Last(m, k) ELSE entities[k]]
<1>1. entities \in [Keys -> Content] /\ Head \in Nat
  BY DEF WindowTypeInv
<1>2. entities' = next
      /\ log' = [s \in 1 .. Head + 1 |-> IF s = Head + 1 THEN Changed(m) ELSE log[s]]
  BY DEF Write
<1>3. next \in [Keys -> Content] /\ \A k \in Keys \ Changed(m) : next[k] = entities[k]
  BY <1>1, LastIsContent
<1>4. DOMAIN log' = 1 .. Head + 1
  BY <1>2
<1>5. Cardinality(1 .. Head + 1) = Head + 1
  <2>1. Head + 1 \in Int /\ 1 \in Int /\ 1 <= Head + 1
    BY <1>1
  <2>2. Cardinality(1 .. Head + 1) = Head + 1 - 1 + 1
    BY <1>1, <2>1, FS_Interval
  <2> QED BY <1>1, <2>2
<1>6. Head' = Cardinality(DOMAIN log')
  BY DEF Head
<1> QED BY <1>2, <1>3, <1>4, <1>5, <1>6

LEMMA TypeFrame ==
  ASSUME WindowTypeInv, UNCHANGED <<entities, log, floor, touched>>,
         release' \in [Processes -> DOMAIN Layouts], owner' \in Processes,
         installed' \in DOMAIN Layouts, generation' \in Nat,
         view' # Void => view' \in Views /\ view'.delivered <= Head,
         page' # Void => /\ DOMAIN page'.changes \subseteq Keys
                         /\ \A k \in DOMAIN page'.changes : page'.changes[k].value \in Content
                         /\ page'.sequence \in 0 .. Head /\ page'.more \in BOOLEAN
  PROVE  WindowTypeInv'
<1>1. Head' = Head
  BY DEF Head
<1> QED BY <1>1 DEF WindowTypeInv, ValidPage

LEMMA TypeStep ==
  ASSUME Forward, IndexInv, WindowNext
  PROVE  WindowTypeInv'
<1> USE DEF IndexInv
<1>1. /\ entities \in [Keys -> Content] /\ Head \in Nat /\ floor \in 0 .. Head
      /\ \A t \in touched : t[1] \in 1 .. Head
      /\ release \in [Processes -> DOMAIN Layouts] /\ owner \in Processes
      /\ installed \in DOMAIN Layouts /\ generation \in Nat
  BY DEF WindowTypeInv
<1>2. view # Void => view \in Views /\ view.delivered <= Head
  BY DEF WindowTypeInv
<1>3. page # Void => /\ DOMAIN page.changes \subseteq Keys
                     /\ \A k \in DOMAIN page.changes : page.changes[k].value \in Content
                     /\ page.sequence \in 0 .. Head /\ page.more \in BOOLEAN
  BY DEF WindowTypeInv, ValidPage
<1>4. ASSUME UNCHANGED <<entities, log, floor, touched, view, page>>,
             release' \in [Processes -> DOMAIN Layouts], owner' \in Processes,
             installed' \in DOMAIN Layouts, generation' \in Nat
      PROVE  WindowTypeInv'
  BY <1>2, <1>3, <1>4, TypeFrame
<1>5. ASSUME NEW p \in Processes, NEW n \in DOMAIN Layouts, Boot(p, n) PROVE WindowTypeInv'
  <2>1. /\ UNCHANGED <<entities, log, floor, touched, view, page, owner>>
        /\ installed' = n /\ release' = [release EXCEPT ![p] = n]
        /\ generation' \in {generation, generation + 1}
    BY <1>1, <1>5 DEF Boot, Install, client
  <2> QED BY <1>1, <1>4, <2>1
<1>6. ASSUME NEW p \in Processes, NEW n \in DOMAIN Layouts, BootVerified(p, n) PROVE WindowTypeInv'
  BY <1>1, <1>4, <1>6 DEF BootVerified, indexTables, client
<1>7. ASSUME NEW n \in DOMAIN Layouts, Render(n) PROVE WindowTypeInv'
  BY <1>1, <1>4, <1>7 DEF Render, indexTables, client
<1>8. ASSUME NEW s \in scripts, ApplyScript(s) PROVE WindowTypeInv'
  <2>1. s.release \in DOMAIN Layouts /\ installed' = s.release /\ generation' = generation + 1
    BY <1>8, ApplyingScript, ScriptGeneration
  <2>2. UNCHANGED <<entities, log, floor, touched, view, page, owner, release>>
    BY <1>8 DEF ApplyScript, Install, client
  <2> QED BY <1>1, <1>4, <2>1, <2>2
<1>9. ASSUME NEW p \in Processes, MoveSpace(p) PROVE WindowTypeInv'
  BY <1>1, <1>4, <1>9 DEF MoveSpace, indexTables, client
<1>10. ASSUME NEW m \in Mutations, Write(m) PROVE WindowTypeInv'
  <2>1. Head' = Head + 1 /\ entities' \in [Keys -> Content]
    BY <1>10, Writing
  <2>2. UNCHANGED <<floor, generation, release, owner, installed, view, page>>
    BY <1>10 DEF Write, client
  <2>3. \A t \in touched' : t \in touched \/ t[1] = Head + 1
    BY <1>10 DEF Write
  <2>4. \A t \in touched' : t[1] \in 1 .. Head + 1
    BY <1>1, <2>3
  <2>5. page' # Void => ValidPage(page)'
    BY <1>1, <1>3, <2>1, <2>2 DEF ValidPage
  <2>6. view' # Void => view' \in Views /\ view'.delivered <= Head'
    <3>1. view # Void => view.delivered \in Nat
      BY <1>2 DEF Views
    <3> QED BY <1>1, <1>2, <2>1, <2>2, <3>1
  <2>7. Head' \in Nat /\ floor' \in 0 .. Head' /\ \A t \in touched' : t[1] \in 1 .. Head'
    BY <1>1, <2>1, <2>2, <2>4
  <2> QED BY <1>1, <2>1, <2>2, <2>5, <2>6, <2>7 DEF WindowTypeInv
<1>11. ASSUME NEW through \in 1 .. MaxMutations, Prune(through) PROVE WindowTypeInv'
  <2>1. UNCHANGED <<entities, log, generation, release, owner, installed, view, page>>
        /\ floor' = through /\ through \in floor + 1 .. Head /\ touched' \subseteq touched
    BY <1>11 DEF Prune, client
  <2>2. Head' = Head
    BY <2>1 DEF Head
  <2> QED BY <1>1, <1>2, <1>3, <2>1, <2>2 DEF WindowTypeInv, ValidPage
<1>12. Layout(owner) \in Range(Layouts)
  BY <1>1 DEF Layout, Range
<1>13. ASSUME UNCHANGED <<entities, log, floor, touched, generation, release, owner, installed>>,
              Bootstrap(Layout(owner))
       PROVE  WindowTypeInv'
  <2>1. view' \in Views /\ view'.delivered = Head /\ page' = Void
    BY <1>12, <1>13, Bootstrapped
  <2> QED BY <1>1, <1>13, <2>1, TypeFrame
<1>14. ASSUME PullWindow PROVE WindowTypeInv'
  <2>1. UNCHANGED <<entities, log, floor, touched, generation, release, owner, installed>>
    BY <1>14 DEF PullWindow
  <2>2. CASE ~ Serves(Layout(owner))
    BY <1>13, <1>14, <2>1, <2>2 DEF PullWindow
  <2>3. CASE Serves(Layout(owner))
    <3>1. /\ view # Void /\ view' = Acknowledged /\ page'.sequence = Head /\ page'.more \in BOOLEAN
          /\ DOMAIN page'.changes \subseteq Keys
          /\ \A k \in DOMAIN page'.changes : page'.changes[k].value = TrueWindow(view.layout)[k]
      BY <1>14, <2>3, Pulled
    <3>2. TrueWindow(view.layout) \in [Keys -> Content]
      BY TrueWindowType
    <3>3. \A k \in DOMAIN page'.changes : page'.changes[k].value \in Content
      BY <3>1, <3>2
    <3>4. view' \in Views /\ view'.delivered <= Head
      BY <1>1, <3>1, AcknowledgedType
    <3> QED BY <1>1, <2>1, <3>1, <3>3, <3>4, TypeFrame
  <2> QED BY <2>2, <2>3
<1>15. ASSUME PullAgain PROVE WindowTypeInv'
  <2>1. UNCHANGED <<entities, log, floor, touched, generation, release, owner, installed>>
    BY <1>15 DEF PullAgain
  <2>2. UNCHANGED <<view, page>> \/ Bootstrap(Layout(owner))
    BY <1>15 DEF PullAgain, client
  <2> QED BY <1>1, <1>4, <1>13, <2>1, <2>2
<1> QED BY <1>5, <1>6, <1>7, <1>8, <1>9, <1>10, <1>11, <1>14, <1>15 DEF WindowNext

(***************************************************************************)
(* TableInv.                                                               *)
(***************************************************************************)
LEMMA TableStep ==
  ASSUME Forward, IndexInv, WindowNext
  PROVE  TableInv'
<1> USE DEF IndexInv
<1>1. built \subseteq catalog /\ built \subseteq Needs(release[owner])
  BY DEF CatalogInv
<1>2. installed \in DOMAIN Layouts /\ DOMAIN Layouts \subseteq Nat
      /\ release \in [Processes -> DOMAIN Layouts] /\ owner \in Processes
  BY WindowIndexAssumption DEF WindowTypeInv
<1>3. Layout(owner) \in Range(Layouts) /\ Range(Layout(owner)) = Needs(release[owner])
  BY <1>2 DEF Layout, Needs, Range
<1>4. \A n \in DOMAIN Layouts : Needs(n) \subseteq Descriptors
  BY WindowIndexAssumption DEF Needs
<1>5. built \subseteq Descriptors
  BY <1>1, <1>2, <1>4
<1>6. ASSUME UNCHANGED <<entities, built, rows, installed, view>> PROVE TableInv'
  BY <1>6 DEF TableInv, Retired, Needs
<1>7. ASSUME NEW n \in DOMAIN Layouts, n >= installed, Install(Missing(n), Orphans(n)),
             installed' = n, view' = view
      PROVE  TableInv'
  <2>1. built' \subseteq built /\ \A d \in built : d \in built' \/ Retired(d)'
    BY <1>7, Installing
  <2>2. /\ entities' = entities /\ built' = built \ Orphans(n)
        /\ rows' = [d \in Descriptors |-> IF d \in Orphans(n) THEN Nothing ELSE rows[d]]
    BY <1>7 DEF Install
  <2>3. ASSUME NEW d \in built' PROVE rows'[d] = entities'
    BY <1>5, <2>2, <2>3 DEF TableInv
  <2>4. ASSUME NEW d, d \in built \/ Retired(d) PROVE d \in built' \/ Retired(d)'
    BY <1>7, <2>1, <2>4, RetiredStays
  <2> QED BY <1>7, <2>3, <2>4 DEF TableInv
<1>8. ASSUME EnsureBuilt(Layout(owner)), UNCHANGED <<entities, installed>>
      PROVE  /\ built' = built \cup Range(Layout(owner))
             /\ \A d \in built' : rows'[d] = entities'
             /\ \A d : Retired(d)' <=> Retired(d)
  <2>1. /\ built' = built \cup Range(Layout(owner))
        /\ rows' = [d \in Descriptors |-> IF d \in Range(Layout(owner)) THEN Filled(d) ELSE rows[d]]
    BY <1>8 DEF EnsureBuilt
  <2>2. ASSUME NEW d \in built' PROVE rows'[d] = entities'
    <3>1. d \in Descriptors
      BY <1>2, <1>3, <1>4, <1>5, <2>1
    <3>2. CASE d \in Range(Layout(owner))
      BY <1>8, <2>1, <3>1, <3>2, FilledIsTrue
    <3>3. CASE d \notin Range(Layout(owner))
      BY <1>8, <2>1, <3>1, <3>3 DEF TableInv
    <3> QED BY <3>2, <3>3
  <2> QED BY <1>8, <2>1, <2>2 DEF Retired, Needs
<1>9. ASSUME EnsureBuilt(Layout(owner)), UNCHANGED <<entities, installed>>,
             \/ view' = view
             \/ view' # Void => view'.layout = Layout(owner)
      PROVE  TableInv'
  BY <1>8, <1>9 DEF TableInv
<1>10. ASSUME NEW p \in Processes, NEW n \in DOMAIN Layouts, Boot(p, n) PROVE TableInv'
  BY <1>7, <1>10 DEF Boot, MayRelease, Forward, client
<1>11. ASSUME NEW s \in scripts, ApplyScript(s) PROVE TableInv'
  <2>1. /\ s.release \in DOMAIN Layouts /\ s.release > installed
        /\ Install(Missing(s.release), Orphans(s.release)) /\ installed' = s.release
    BY <1>11, ApplyingScript
  <2>2. s.release >= installed
    BY <1>2, <2>1
  <2>3. view' = view
    BY <1>11 DEF ApplyScript, client
  <2> QED BY <1>7, <2>1, <2>2, <2>3
<1>12. ASSUME NEW m \in Mutations, Write(m) PROVE TableInv'
  <2> DEFINE next == [k \in Keys |-> IF k \in Changed(m) THEN Last(m, k) ELSE entities[k]]
             active == Range(Layout(owner)) \cap built
  <2>1. /\ entities' = next
        /\ rows' = [d \in Descriptors |->
                      IF d \in active
                      THEN [k \in Keys |-> IF k \in Changed(m) THEN next[k] ELSE rows[d][k]]
                      ELSE rows[d]]
        /\ UNCHANGED <<built, installed, view>>
    BY <1>12 DEF Write, client
  <2>2. ASSUME NEW d \in built PROVE rows'[d] = next
    <3>1. d \in active /\ d \in Descriptors
      BY <1>1, <1>3, <1>5
    <3>2. rows[d] = entities
      BY DEF TableInv
    <3>3. rows'[d] = [k \in Keys |-> IF k \in Changed(m) THEN next[k] ELSE rows[d][k]]
      BY <2>1, <3>1
    <3> QED BY <3>2, <3>3
  <2> QED BY <2>1, <2>2 DEF TableInv, Retired, Needs
<1>13. ASSUME PullWindow PROVE TableInv'
  <2>1. EnsureBuilt(Layout(owner)) /\ UNCHANGED <<entities, installed>>
    BY <1>13 DEF PullWindow
  <2>2. CASE Serves(Layout(owner))
    <3>1. view # Void /\ view' = Acknowledged /\ view.layout = Layout(owner)
      BY <1>13, <2>2 DEF PullWindow, Serves
    <3>2. view'.layout = Layout(owner)
      BY <3>1, AcknowledgedType
    <3> QED BY <1>9, <2>1, <3>2
  <2>3. CASE ~ Serves(Layout(owner))
    <3>1. view'.layout = Layout(owner)
      BY <1>3, <1>13, <2>3, Bootstrapped DEF PullWindow
    <3> QED BY <1>9, <2>1, <3>1
  <2> QED BY <2>2, <2>3
<1>14. ASSUME PullAgain PROVE TableInv'
  <2>1. EnsureBuilt(Layout(owner)) /\ UNCHANGED <<entities, installed>>
    BY <1>14 DEF PullAgain
  <2>2. view' = view \/ Bootstrap(Layout(owner))
    BY <1>14 DEF PullAgain, client
  <2>3. Bootstrap(Layout(owner)) => view'.layout = Layout(owner)
    BY <1>3, Bootstrapped
  <2> QED BY <1>9, <2>1, <2>2, <2>3
<1>15. ASSUME NEW p \in Processes, NEW n \in DOMAIN Layouts, BootVerified(p, n) PROVE TableInv'
  BY <1>6, <1>15 DEF BootVerified, indexTables, client
<1>16. ASSUME NEW n \in DOMAIN Layouts, Render(n) PROVE TableInv'
  BY <1>6, <1>16 DEF Render, indexTables, client
<1>17. ASSUME NEW p \in Processes, MoveSpace(p) PROVE TableInv'
  BY <1>6, <1>17 DEF MoveSpace, indexTables, client
<1>18. ASSUME NEW through \in 1 .. MaxMutations, Prune(through) PROVE TableInv'
  BY <1>6, <1>18 DEF Prune, client
<1> QED BY <1>10, <1>11, <1>12, <1>13, <1>14, <1>15, <1>16, <1>17, <1>18 DEF WindowNext

(***************************************************************************)
(* ShownInv.  What a step does not fill it does not need: a descriptor of  *)
(* the view that is filled after a step was filled before.                 *)
(***************************************************************************)
LEMMA FilledBefore ==
  ASSUME Forward, IndexInv, CatalogInv', installed' \in DOMAIN Layouts, installed' >= installed,
         view # Void, Range(view.layout) \subseteq built'
  PROVE  Range(view.layout) \subseteq built
<1> SUFFICES ASSUME NEW d \in Range(view.layout), Retired(d) PROVE FALSE
  BY DEF IndexInv, TableInv
<1>1. PICK n \in DOMAIN Layouts : n = installed' /\ n >= installed
  OBVIOUS
<1>2. Retired(d)'
  BY <1>1, RetiredStays DEF IndexInv
<1>3. d \notin Needs(installed')
  BY <1>2 DEF Retired, Needs
<1>4. built' \subseteq Needs(installed')
  BY DEF CatalogInv, Needs
<1> QED BY <1>3, <1>4

LEMMA ShownPrimed ==
  ASSUME NEW w, w = Acknowledged', view' # Void /\ Kept(w)' => UpToDate(w)'
  PROVE  ShownInv'
<1>1. Kept(Acknowledged)' => Kept(w)'
  BY DEF Kept, Head
<1>2. UpToDate(w)' => UpToDate(Acknowledged)'
  BY DEF UpToDate, ChangedSince, Suffix, Untouched, Affected
<1> QED BY <1>1, <1>2 DEF ShownInv

(* Steps that change neither the entities, the logs nor the client.        *)
LEMMA ShownFrame ==
  ASSUME Forward, IndexInv, CatalogInv', installed' \in DOMAIN Layouts, installed' >= installed,
         UNCHANGED <<entities, log, floor, touched, view, page>>
  PROVE  ShownInv'
<1> USE DEF IndexInv
<1>1. PICK w : w = Acknowledged
  OBVIOUS
<1>2. w = Acknowledged'
  BY <1>1 DEF Acknowledged, Watermark
<1>3. Head' = Head
  BY DEF Head
<1>4. ASSUME view # Void, Kept(w)' PROVE UpToDate(w)'
  <2>1. w.layout = view.layout
    BY <1>1, <1>4, AcknowledgedType
  <2>2. w.delivered >= floor /\ (Range(w.layout) \subseteq built' \/ w.delivered = Head)
    BY <1>3, <1>4 DEF Kept
  <2>3. Range(w.layout) \subseteq built' => Range(w.layout) \subseteq built
    BY <1>4, <2>1, FilledBefore
  <2>4. Kept(w)
    BY <2>2, <2>3 DEF Kept
  <2>5. UpToDate(w)
    BY <1>1, <1>4, <2>4 DEF ShownInv
  <2> QED BY <2>5, UpToDateKept
<1> QED BY <1>2, <1>4, ShownPrimed

(* A write.                                                                *)
LEMMA ShownWrite ==
  ASSUME IndexInv, NEW m \in Mutations, Write(m)
  PROVE  ShownInv'
<1> USE DEF IndexInv
<1>1. /\ Head' = Head + 1 /\ entities' \in [Keys -> Content]
      /\ \A k \in Keys \ Changed(m) : entities'[k] = entities[k]
      /\ log' = [s \in 1 .. Head + 1 |-> IF s = Head + 1 THEN Changed(m) ELSE log[s]]
  BY Writing
<1>2. UNCHANGED <<floor, built, release, owner, view, page>>
  BY DEF Write, client
<1>3. PICK w : w = Acknowledged
  OBVIOUS
<1>4. w = Acknowledged'
  BY <1>2, <1>3 DEF Acknowledged, Watermark
<1> SUFFICES ASSUME view # Void, Kept(w)' PROVE UpToDate(w)'
  BY <1>2, <1>4, ShownPrimed
<1>5. w \in Views /\ w.delivered \in 0 .. Head /\ w.layout = view.layout /\ Head \in Nat
  BY <1>3, AcknowledgedType DEF WindowTypeInv
<1>6. Range(w.layout) \subseteq built /\ w.delivered >= floor
  BY <1>1, <1>2, <1>5 DEF Kept
<1>7. UpToDate(w)
  BY <1>3, <1>6 DEF ShownInv, Kept
<1>8. ChangedSince(w) \subseteq ChangedSince(w)' /\ Changed(m) \subseteq ChangedSince(w)'
  <2>1. ChangedSince(w)' = UNION {log'[s] : s \in w.delivered + 1 .. Head + 1}
    BY <1>1 DEF ChangedSince, Suffix
  <2>2. Head + 1 \in w.delivered + 1 .. Head + 1 /\ log'[Head + 1] = Changed(m)
    BY <1>1, <1>5
  <2>3. ASSUME NEW s \in w.delivered + 1 .. Head
        PROVE  s \in w.delivered + 1 .. Head + 1 /\ log'[s] = log[s]
    BY <1>1, <1>5
  <2> QED BY <2>1, <2>2, <2>3 DEF ChangedSince, Suffix
<1> DEFINE next == [k \in Keys |-> IF k \in Changed(m) THEN Last(m, k) ELSE entities[k]]
           active == Range(Layout(owner)) \cap built
           parts(d) == UNION {Touches(d, rows[d][k], next[k]) : k \in Changed(m)}
<1>9. /\ entities' = next
      /\ touched' = touched \cup UNION {{<<Head + 1, d, part>> : part \in parts(d)} : d \in active}
  BY DEF Write
<1>10. Changed(m) \subseteq Keys
  BY WindowIndexAssumption DEF Changed
<1>11. ASSUME NEW d \in Range(w.layout)
       PROVE  /\ Affected(w, d) \subseteq Affected(w, d)'
              /\ \A j \in Changed(m) : PartitionsOf(d, {entities[j], entities'[j]}) \subseteq Affected(w, d)'
  <2>1. d \in active /\ rows[d] = entities
    <3>1. d \in built
      BY <1>6
    <3>2. d \in Range(Layout(owner))
      BY <3>1 DEF CatalogInv, Needs, Layout
    <3> QED BY <3>1, <3>2 DEF TableInv
  <2>2. Affected(w, d)' = {t[3] : t \in {t \in touched' : t[1] > w.delivered /\ t[2] = d}}
    BY DEF Affected
  <2>3. Affected(w, d) \subseteq Affected(w, d)'
    BY <1>9, <2>2 DEF Affected
  <2>4. ASSUME NEW j \in Changed(m), NEW part \in PartitionsOf(d, {entities[j], entities'[j]})
        PROVE  part \in Affected(w, d)'
    <3> DEFINE t == <<Head + 1, d, part>>
    <3>1. part \in parts(d)
      BY <1>9, <2>1, <2>4 DEF Touches
    <3>2. t \in touched'
      <4> HIDE DEF parts, active
      <4> QED BY <1>9, <2>1, <3>1
    <3>3. t[1] > w.delivered /\ t[2] = d /\ t[3] = part
      BY <1>5
    <3> HIDE DEF t
    <3> QED BY <2>2, <3>2, <3>3
  <2> QED BY <2>3, <2>4
<1>12. ASSUME NEW d, NEW k
       PROVE  /\ InWindow(d, entities, k)' <=> InWindow(d, entities', k)
              /\ Untouched(w, d, k)' <=> PartitionOf(d, entities'[k]) \notin Affected(w, d)'
  BY DEF InWindow, Members, Newer, Untouched
<1>13. ASSUME NEW k \in Keys, k \notin Changed(m), NEW d \in Range(w.layout), Untouched(w, d, k)'
       PROVE  /\ InWindow(d, entities, k)' <=> InWindow(d, entities, k)
              /\ Untouched(w, d, k)
  <2>1. entities'[k] = entities[k] /\ PartitionOf(d, entities[k]) \notin Affected(w, d)'
    BY <1>1, <1>12, <1>13
  <2>2. ASSUME NEW j \in Keys,
               \/ entities[j] # Absent /\ PartitionOf(d, entities[j]) = PartitionOf(d, entities[k])
               \/ entities'[j] # Absent /\ PartitionOf(d, entities'[j]) = PartitionOf(d, entities[k])
        PROVE  entities[j] = entities'[j]
    <3>1. PartitionOf(d, entities[k]) \in PartitionsOf(d, {entities[j], entities'[j]})
      BY <2>2 DEF PartitionsOf
    <3>2. j \notin Changed(m)
      BY <1>11, <2>1, <3>1
    <3> QED BY <1>1, <3>2
  <2>3. InWindow(d, entities, k) <=> InWindow(d, entities', k)
    BY <2>1, <2>2, SameMember
  <2>4. Untouched(w, d, k)
    BY <1>11, <2>1 DEF Untouched
  <2> QED BY <1>12, <2>3, <2>4
<1>14. ASSUME NEW k \in Keys, k \notin ChangedSince(w)'
       PROVE  /\ w.shown[k] \in {Absent, entities'[k]}
              /\ \A d \in Range(w.layout) :
                   InWindow(d, entities, k)' /\ Untouched(w, d, k)' => w.shown[k] = entities'[k]
              /\ (w.shown[k] # Absent /\ \A d \in Range(w.layout) : Untouched(w, d, k)') =>
                    \E d \in Range(w.layout) : InWindow(d, entities, k)'
  <2>1. k \notin Changed(m) /\ k \notin ChangedSince(w) /\ entities'[k] = entities[k]
    BY <1>1, <1>8, <1>14
  <2>2. /\ w.shown[k] \in {Absent, entities[k]}
        /\ \A d \in Range(w.layout) :
             InWindow(d, entities, k) /\ Untouched(w, d, k) => w.shown[k] = entities[k]
        /\ (w.shown[k] # Absent /\ \A d \in Range(w.layout) : Untouched(w, d, k)) =>
              \E d \in Range(w.layout) : InWindow(d, entities, k)
    BY <1>7, <2>1 DEF UpToDate
  <2> QED BY <1>13, <2>1, <2>2
<1> QED BY <1>14 DEF UpToDate

(* Pruning.                                                                *)
LEMMA ShownPrune ==
  ASSUME IndexInv, NEW through, Prune(through)
  PROVE  ShownInv'
<1> USE DEF IndexInv
<1>1. /\ through \in floor + 1 .. Head /\ floor' = through
      /\ touched' = {t \in touched : t[1] > through}
      /\ UNCHANGED <<entities, log, built, view, page>>
  BY DEF Prune, client
<1>2. PICK w : w = Acknowledged
  OBVIOUS
<1>3. w = Acknowledged'
  BY <1>1, <1>2 DEF Acknowledged, Watermark
<1>4. Head' = Head
  BY <1>1 DEF Head
<1> SUFFICES ASSUME view # Void, Kept(w)' PROVE UpToDate(w)'
  BY <1>1, <1>3, ShownPrimed
<1>5. w.delivered \in 0 .. Head /\ Head \in Nat /\ floor \in 0 .. Head
      /\ \A t \in touched : t[1] \in 1 .. Head
  BY <1>2, AcknowledgedType DEF WindowTypeInv
<1>6. w.delivered >= through /\ (Range(w.layout) \subseteq built \/ w.delivered = Head)
  BY <1>1, <1>4 DEF Kept
<1>7. UpToDate(w)
  BY <1>1, <1>2, <1>5, <1>6 DEF ShownInv, Kept
<1>8. ChangedSince(w)' = ChangedSince(w)
  BY <1>1, <1>4 DEF ChangedSince, Suffix
<1>9. ASSUME NEW d PROVE Affected(w, d)' = Affected(w, d)
  <2>1. \A t \in touched : t[1] > w.delivered => t[1] > through
    BY <1>1, <1>5, <1>6
  <2>2. {t \in touched' : t[1] > w.delivered /\ t[2] = d}
          = {t \in touched : t[1] > w.delivered /\ t[2] = d}
    BY <1>1, <2>1
  <2> QED BY <2>2 DEF Affected
<1>10. ASSUME NEW d, NEW k
       PROVE  /\ InWindow(d, entities, k)' <=> InWindow(d, entities, k)
              /\ Untouched(w, d, k)' <=> Untouched(w, d, k)
  BY <1>1, <1>9 DEF InWindow, Members, Newer, Untouched
<1> QED BY <1>1, <1>7, <1>8, <1>10 DEF UpToDate

(* A view that begins anew.                                                *)
LEMMA ShownBootstrap ==
  ASSUME IndexInv, NEW layout \in Range(Layouts), Bootstrap(layout),
         UNCHANGED <<entities, log, touched>>
  PROVE  ShownInv'
<1>1. /\ view' \in Views /\ view'.layout = layout /\ view'.delivered = Head
      /\ view'.shown = TrueWindow(layout) /\ page' = Void
  BY Bootstrapped DEF IndexInv
<1>2. PICK w : w = view'
  OBVIOUS
<1>3. UpToDate(w)
  BY <1>1, <1>2, WholeIsUpToDate DEF IndexInv
<1>4. UpToDate(w)'
  BY <1>3, UpToDateKept
<1>5. w = Acknowledged'
  BY <1>1, <1>2 DEF Acknowledged
<1> QED BY <1>4, <1>5, ShownPrimed

(* A pull of the view: a page that is not the last one leaves the          *)
(* watermark, and the last one makes the client whole.                     *)
LEMMA ShownPull ==
  ASSUME IndexInv, PullWindow, Serves(Layout(owner))
  PROVE  ShownInv'
<1> USE DEF IndexInv
<1>1. /\ view # Void /\ Range(view.layout) \subseteq catalog /\ view' = Acknowledged
      /\ DOMAIN page'.changes
           \subseteq {k \in Keys : Acknowledged.shown[k] # TrueWindow(view.layout)[k]}
      /\ \A k \in DOMAIN page'.changes : page'.changes[k].value = TrueWindow(view.layout)[k]
      /\ page'.sequence = Head /\ page'.more \in BOOLEAN
      /\ ~ page'.more => DOMAIN page'.changes
           = {k \in Keys : Acknowledged.shown[k] # TrueWindow(view.layout)[k]}
  BY Pulled
<1>2. UNCHANGED <<entities, log, floor, touched>>
  BY DEF PullWindow
<1>3. PICK v : v = Acknowledged
  OBVIOUS
<1>4. v \in Views /\ v.delivered \in 0 .. Head /\ v.layout = view.layout /\ Head \in Nat
  BY <1>1, <1>3, AcknowledgedType DEF WindowTypeInv
<1>5. v.delivered >= floor => UpToDate(v)
  <2>1. Range(v.layout) \subseteq built
    BY <1>1, <1>4, ServedIsBuilt
  <2> QED BY <1>1, <1>3, <2>1 DEF ShownInv, Kept
<1>6. TrueWindow(v.layout) \in [Keys -> Content]
  BY TrueWindowType
<1>7. PICK w : w = IF page' = Void THEN v ELSE After(v, page')
  OBVIOUS
<1>8. w = Acknowledged'
  BY <1>1, <1>3, <1>7 DEF Acknowledged, After, Watermark
<1>9. ASSUME w.delivered >= floor PROVE UpToDate(w)
  <2>1. CASE page' = Void
    BY <1>5, <1>7, <1>9, <2>1
  <2>2. CASE page' # Void
    <3>1. \A k \in DOMAIN page'.changes : page'.changes[k].value \in Content
      BY <1>1, <1>4, <1>6
    <3>2. /\ w \in Views /\ w.layout = v.layout /\ w.delivered = Watermark(v, page')
          /\ \A k \in Keys : w.shown[k] =
               IF k \in DOMAIN page'.changes THEN page'.changes[k].value ELSE v.shown[k]
      BY <1>1, <1>4, <1>7, <2>2, <3>1, AfterType
    <3>3. \A k \in DOMAIN page'.changes : page'.changes[k].value = TrueWindow(v.layout)[k]
      BY <1>1, <1>4
    <3>4. CASE page'.more
      <4>1. w.delivered = v.delivered
        BY <3>2, <3>4 DEF Watermark
      <4>2. \A k \in Keys : w.shown[k] \in {v.shown[k], TrueWindow(v.layout)[k]}
        BY <3>2, <3>3
      <4> QED BY <1>4, <1>5, <1>9, <3>2, <4>1, <4>2, PartIsUpToDate
    <3>5. CASE ~ page'.more
      <4>1. DOMAIN page'.changes = {k \in Keys : v.shown[k] # TrueWindow(v.layout)[k]}
        BY <1>1, <1>3, <1>4, <3>5
      <4>2. \A k \in Keys : w.shown[k] = TrueWindow(v.layout)[k]
        BY <3>2, <3>3, <4>1
      <4>3. w.shown = TrueWindow(w.layout)
        <5>1. w.shown \in [Keys -> Content]
          BY <3>2 DEF Views
        <5> QED BY <1>6, <3>2, <4>2, <5>1
      <4> QED BY <3>2, <4>3, WholeIsUpToDate
    <3> QED BY <1>1, <3>4, <3>5
  <2> QED BY <2>1, <2>2
<1>10. Kept(w)' => UpToDate(w)'
  <2>1. Kept(w)' => w.delivered >= floor
    BY <1>2 DEF Kept
  <2> QED BY <1>2, <1>9, <2>1, UpToDateKept
<1> QED BY <1>8, <1>10, ShownPrimed

LEMMA ShownStep ==
  ASSUME Forward, IndexInv, CatalogInv', WindowNext
  PROVE  ShownInv'
<1>1. installed \in DOMAIN Layouts /\ DOMAIN Layouts \subseteq Nat
      /\ release \in [Processes -> DOMAIN Layouts] /\ owner \in Processes
  BY WindowIndexAssumption DEF IndexInv, WindowTypeInv
<1>2. Layout(owner) \in Range(Layouts)
  BY <1>1 DEF Layout, Range
<1>3. ASSUME installed' \in DOMAIN Layouts, installed' >= installed,
             UNCHANGED <<entities, log, floor, touched, view, page>>
      PROVE  ShownInv'
  BY <1>3, ShownFrame
<1>4. installed >= installed
  BY <1>1
<1>5. ASSUME NEW p \in Processes, NEW n \in DOMAIN Layouts, Boot(p, n) PROVE ShownInv'
  BY <1>3, <1>5 DEF Boot, MayRelease, Forward, Install, client
<1>6. ASSUME NEW p \in Processes, NEW n \in DOMAIN Layouts, BootVerified(p, n) PROVE ShownInv'
  BY <1>1, <1>3, <1>4, <1>6 DEF BootVerified, indexTables, client
<1>7. ASSUME NEW n \in DOMAIN Layouts, Render(n) PROVE ShownInv'
  BY <1>1, <1>3, <1>4, <1>7 DEF Render, indexTables, client
<1>8. ASSUME NEW s \in scripts, ApplyScript(s) PROVE ShownInv'
  <2>1. s.release \in DOMAIN Layouts /\ s.release > installed /\ installed' = s.release
    BY <1>8, ApplyingScript DEF IndexInv
  <2>2. installed' >= installed
    BY <1>1, <2>1
  <2> QED BY <1>3, <1>8, <2>1, <2>2 DEF ApplyScript, Install, client
<1>9. ASSUME NEW p \in Processes, MoveSpace(p) PROVE ShownInv'
  BY <1>1, <1>3, <1>4, <1>9 DEF MoveSpace, indexTables, client
<1>10. ASSUME PullWindow PROVE ShownInv'
  <2>1. Serves(Layout(owner)) => ShownInv'
    BY <1>10, ShownPull
  <2>2. ~ Serves(Layout(owner)) => Bootstrap(Layout(owner))
    BY <1>10 DEF PullWindow
  <2>3. UNCHANGED <<entities, log, touched>>
    BY <1>10 DEF PullWindow
  <2> QED BY <1>2, <2>1, <2>2, <2>3, ShownBootstrap
<1>11. ASSUME PullAgain PROVE ShownInv'
  <2>1. UNCHANGED <<entities, log, floor, touched, installed>>
    BY <1>11 DEF PullAgain
  <2>2. UNCHANGED <<view, page>> \/ Bootstrap(Layout(owner))
    BY <1>11 DEF PullAgain, client
  <2> QED BY <1>1, <1>2, <1>3, <1>4, <2>1, <2>2, ShownBootstrap
<1> QED BY <1>5, <1>6, <1>7, <1>8, <1>9, <1>10, <1>11, ShownWrite, ShownPrune DEF WindowNext

(***************************************************************************)
(* The invariant.                                                          *)
(***************************************************************************)
LEMMA IndexStep ==
  ASSUME Forward, IndexInv, [WindowNext]_windowVars
  PROVE  IndexInv'
<1>1. CASE WindowNext
  <2>1. CatalogInv' /\ WindowTypeInv' /\ ScriptInv' /\ TableInv'
    BY <1>1, CatalogStep, TypeStep, ScriptStep, TableStep
  <2>2. ShownInv'
    BY <1>1, <2>1, ShownStep
  <2> QED BY <2>1, <2>2 DEF IndexInv
<1>2. CASE UNCHANGED windowVars
  <2>1. UNCHANGED <<entities, log, floor, touched, view, page, built, rows, catalog,
                    release, owner, installed, generation, scripts>>
    BY <1>2 DEF windowVars, indexTables, client
  <2>2. CatalogInv'
    BY <2>1 DEF IndexInv, CatalogInv, Needs
  <2>3. ScriptInv'
    BY <2>1 DEF IndexInv, ScriptInv, GenerationFree, Missing, Orphans, Needs
  <2>4. TableInv'
    BY <2>1 DEF IndexInv, TableInv, Retired, Needs
  <2>5. WindowTypeInv'
    BY <2>1 DEF IndexInv, WindowTypeInv, ValidPage, Head
  <2>6. ShownInv'
    <3>1. installed' \in DOMAIN Layouts /\ installed' >= installed
      BY <2>1, WindowIndexAssumption DEF IndexInv, WindowTypeInv
    <3> QED BY <2>1, <2>2, <3>1, ShownFrame
  <2> QED BY <2>2, <2>3, <2>4, <2>5, <2>6 DEF IndexInv
<1> QED BY <1>1, <1>2

(* The catalog is that of the release installed last; a table that is      *)
(* filled has the space's entities, whichever process filled it; a script  *)
(* that can be applied was made for this catalog; and what the client will *)
(* have differs from its windows only where the log and the touched        *)
(* partitions say so.                                                      *)
THEOREM IndexInvariance ==
  ASSUME ~ RollingBack, NeverRestored
  PROVE  WindowSpec => []IndexInv
<1>1. Forward
  BY DEF Forward
<1>2. WindowInit => IndexInv
  BY IndexInit
<1>3. IndexInv /\ [WindowNext]_windowVars => IndexInv'
  BY <1>1, IndexStep
<1> QED BY <1>2, <1>3, PTL DEF WindowSpec

(* A pull that looks only at the touched partitions sends what a           *)
(* comparison of the whole window would.                                   *)
THEOREM DeltasCorrect ==
  ASSUME ~ RollingBack, NeverRestored
  PROVE  WindowSpec => []DeltaIsExact
<1>1. IndexInv => DeltaIsExact
  BY SuffixIsExact DEF DeltaIsExact
<1> QED BY <1>1, IndexInvariance, PTL

(* A client that has applied all pages up to the head has its windows.     *)
THEOREM WindowsCorrect ==
  ASSUME ~ RollingBack, NeverRestored
  PROVE  WindowSpec => []WindowIsShown
<1>1. ASSUME IndexInv, view # Void, Acknowledged.delivered = Head
      PROVE  Acknowledged.shown = TrueWindow(view.layout)
  <2> DEFINE v == Acknowledged
             L == Range(view.layout)
  <2>1. WindowTypeInv /\ ShownInv
    BY <1>1 DEF IndexInv
  <2>2. v \in Views /\ v.layout = view.layout /\ Head \in Nat /\ floor \in 0 .. Head
        /\ \A t \in touched : t[1] \in 1 .. Head
    BY <1>1, <2>1, AcknowledgedType DEF WindowTypeInv
  <2>3. UpToDate(v)
    BY <1>1, <2>1, <2>2 DEF ShownInv, Kept
  <2>4. ChangedSince(v) = {} /\ \A d : Affected(v, d) = {}
    BY <1>1, <2>2 DEF ChangedSince, Suffix, Affected
  <2>5. view.layout \in Range(Layouts)
    BY <2>2 DEF Views
  <2> HIDE DEF v
  <2>6. ASSUME NEW k \in Keys PROVE v.shown[k] = TrueWindow(view.layout)[k]
    <3>1. /\ v.shown[k] \in {Absent, entities[k]}
          /\ \A d \in L : InWindow(d, entities, k) => v.shown[k] = entities[k]
          /\ v.shown[k] # Absent => \E d \in L : InWindow(d, entities, k)
      BY <2>2, <2>3, <2>4 DEF UpToDate, Untouched
    <3>2. /\ (\E d \in L : InWindow(d, entities, k)) =>
               TrueWindow(view.layout)[k] = entities[k] /\ entities[k] # Absent
          /\ ~ (\E d \in L : InWindow(d, entities, k)) => TrueWindow(view.layout)[k] = Absent
      BY <2>1, <2>5, TrueWindowAt
    <3> QED BY <3>1, <3>2
  <2>7. v.shown \in [Keys -> Content] /\ TrueWindow(view.layout) \in [Keys -> Content]
    BY <2>1, <2>2, TrueWindowType DEF Views
  <2>8. v.shown = TrueWindow(view.layout)
    BY <2>6, <2>7
  <2> QED BY <2>8 DEF v
<1>2. IndexInv => WindowIsShown
  BY <1>1 DEF WindowIsShown
<1> QED BY <1>2, IndexInvariance, PTL

-----------------------------------------------------------------------------
(***************************************************************************)
(* OfflineWake.                                                            *)
(***************************************************************************)
USE OfflineWakeAssumption, NoneAssumption

(***************************************************************************)
(* The values of the variables.  A worker rests, expands a claim of the    *)
(* space, or delivers a claimed wake.                                      *)
(***************************************************************************)
Spaces == [high : Nat, expanded : Nat, generation : Nat, claim : Claims \cup {None}]

Streams ==
  [client : Clients \cup {None}, runtime : Runtimes \cup {None},
   phase : {"none", "registering", "ready", "closing", "gone"}]

Resting == [at : {"idle"}]

Resolving == [at : {"resolve", "releaseSpace"}, high : Nat, generation : Nat]

Expanding ==
  [at : {"expand", "releaseSpace"}, high : Nat, generation : Nat, recipients : SUBSET Clients]

Delivering ==
  [at : {"check", "send", "delivered", "notRecipient", "release"}, client : Clients,
   id : Nat, high : Nat]

DatabaseType ==
  /\ space \in Spaces
  /\ wakes \in [Clients -> WakeRows \cup {None}]
  /\ acknowledged \in [Clients -> Nat]
  /\ presence \subseteq Watches
  /\ lease \in [Runtimes -> {"live", "over", "absent"}]

ProcessType ==
  /\ up \subseteq Runtimes
  /\ watch \in [Watches -> Streams]
  /\ \A w \in Watches : \/ watch[w].client \in Clients /\ watch[w].runtime \in Runtimes
                        \/ watch[w].phase = "none" /\ watch[w].runtime = None
  /\ dirty \in [Runtimes -> BOOLEAN]
  /\ beat \in [Runtimes -> {"idle", "restore", "compare"}]
  /\ worker \in [Runtimes -> Resting \cup Resolving \cup Expanding \cup Delivering]

HistoryType ==
  /\ ids \in Nat /\ members \subseteq Clients
  /\ owed \in [Clients -> Nat]
  /\ recorded \in [Clients -> SUBSET Nat]
  /\ lapsed \subseteq Watches
  /\ disturbances \in Nat

TypeInv == DatabaseType /\ ProcessType /\ HistoryType

(***************************************************************************)
(* Nothing is ahead of the space's high water, nor an identity of the last *)
(* one made.                                                               *)
(***************************************************************************)
Wake(c) == wakes[c] # None
Works(r, steps) == r \in up /\ worker[r].at \in steps

Expansion == {"resolve", "expand", "releaseSpace"}
Delivery == {"check", "send", "delivered", "notRecipient", "release"}

Bounds ==
  /\ space.expanded <= space.high
  /\ \A c \in Clients :
       /\ acknowledged[c] <= space.high /\ owed[c] <= space.high
       /\ Wake(c) => wakes[c].high <= space.high /\ wakes[c].notified <= space.high
  /\ \A r \in Runtimes : Works(r, Expansion \cup Delivery) => worker[r].high <= space.high

Identities ==
  /\ \A c \in Clients :
       /\ \A id \in recorded[c] : id <= ids
       /\ Wake(c) => wakes[c].id <= ids
  /\ \A r \in Runtimes : Works(r, Delivery) => worker[r].id <= ids

(***************************************************************************)
(* A claim by a process that runs is the business of its worker: the wake  *)
(* is the one it claimed, and still to be told of.                         *)
(***************************************************************************)
SpaceClaimed ==
  \A r \in up : HeldBy(space.claim, r) =>
    worker[r].at \in Expansion /\ space.expanded < worker[r].high

WakeClaimed ==
  \A c \in Clients, r \in up : Wake(c) /\ HeldBy(wakes[c].claim, r) =>
    /\ worker[r].at \in Delivery /\ worker[r].client = c
    /\ worker[r].id = wakes[c].id /\ worker[r].high <= wakes[c].high
    /\ wakes[c].notified < wakes[c].high

(***************************************************************************)
(* A ready watch is in the database, under a lease that lives, unless its  *)
(* lease has run out; and it is not there while a claim of its client's    *)
(* wake lives.                                                             *)
(***************************************************************************)
Ready(w) == watch[w].phase = "ready" /\ w \notin lapsed

PresenceInv ==
  \A w \in Watches : Ready(w) => w \in presence /\ lease[watch[w].runtime] = "live"

Offline ==
  \A c \in Clients, w \in Watches :
    Wake(c) /\ Live(wakes[c].claim) => ~ (Ready(w) /\ watch[w].client = c)

(***************************************************************************)
(* What a client is owed is after what it acknowledged and after what a    *)
(* wake told it, and is not forgotten: either the space has yet to be      *)
(* expanded that far, or there is a wake that covers it.                   *)
(***************************************************************************)
Owed ==
  \A c \in Clients : owed[c] # 0 =>
    /\ c \in members /\ acknowledged[c] < owed[c]
    /\ Wake(c) => wakes[c].notified < owed[c]

NothingForgotten ==
  \A c \in Clients : owed[c] # 0 =>
    \/ owed[c] > space.expanded
    \/ Wake(c) /\ wakes[c].notified < owed[c] /\ owed[c] <= wakes[c].high

(* What a worker found out holds of everything owed up to its write.       *)
Found ==
  \A r \in up :
    /\ worker[r].at = "expand" =>
         \A c \in Clients : owed[c] # 0 /\ owed[c] <= worker[r].high => c \in worker[r].recipients
    /\ worker[r].at \in {"delivered", "notRecipient"} =>
         owed[worker[r].client] = 0 \/ owed[worker[r].client] > worker[r].high

IndInv ==
  /\ TypeInv /\ Bounds /\ Identities /\ SpaceClaimed /\ WakeClaimed /\ PresenceInv /\ Offline
  /\ Owed /\ NothingForgotten /\ Found /\ FreshWorkHasFreshIdentity

-----------------------------------------------------------------------------
(***************************************************************************)
(* Records, and what a step of a worker leaves alone.                      *)
(***************************************************************************)
WorkerStates == Resting \cup Resolving \cup Expanding \cup Delivering

LEMMA Shapes ==
  ASSUME NEW x \in WorkerStates
  PROVE  /\ x.at \in {"idle"} \cup Expansion \cup Delivery
         /\ x.at \in Expansion => x.high \in Nat
         /\ x.at = "resolve" => x \in Resolving
         /\ x.at = "expand" => x \in Expanding
         /\ x.at \in Delivery => x \in Delivering
  BY DEF WorkerStates, Resting, Resolving, Expanding, Delivering, Expansion, Delivery

LEMMA RowShape ==
  ASSUME TypeInv, NEW c \in Clients, Wake(c)
  PROVE  /\ wakes[c] \in WakeRows
         /\ wakes[c].id \in Nat /\ wakes[c].high \in Nat /\ wakes[c].notified \in Nat
         /\ wakes[c].claim # None => wakes[c].claim \in Claims
  BY DEF TypeInv, DatabaseType, Wake, WakeRows

\* A row whose claim changes, and nothing else.
LEMMA Reclaimed ==
  ASSUME NEW row \in WakeRows, NEW k \in Claims \cup {None}
  PROVE  LET new == [row EXCEPT !.claim = k]
         IN /\ new \in WakeRows /\ new # None
            /\ new.id = row.id /\ new.high = row.high /\ new.notified = row.notified
            /\ new.generation = row.generation /\ new.claim = k
  BY DEF WakeRows

LEMMA Expiring ==
  ASSUME NEW row \in WakeRows, row.claim # None
  PROVE  LET new == [row EXCEPT !.claim.live = FALSE]
         IN /\ new = [row EXCEPT !.claim = new.claim]
            /\ new.claim \in Claims /\ new.claim.by = row.claim.by /\ ~ new.claim.live
  BY DEF WakeRows, Claims

LEMMA Moved ==
  ASSUME NEW x \in Delivering, NEW step \in Delivery
  PROVE  LET y == [x EXCEPT !.at = step]
         IN /\ y \in Delivering /\ y.at = step
            /\ y.client = x.client /\ y.id = x.id /\ y.high = x.high
  BY DEF Delivering, Delivery

LEMMA Going ==
  ASSUME TypeInv, NEW r \in Runtimes, NEW x \in WorkerStates, Goto(r, x)
  PROVE  /\ worker' \in [Runtimes -> WorkerStates]
         /\ worker'[r] = x
         /\ \A q \in Runtimes : q # r => worker'[q] = worker[q]
  BY DEF TypeInv, ProcessType, WorkerStates, Goto

\* The rows of watches and leases change, and nothing that pushes are made of.
pushes == <<space, wakes, acknowledged, up, worker, ids, members, owed, recorded>>

LEMMA PushesAlone ==
  ASSUME IndInv, UNCHANGED pushes
  PROVE  /\ Bounds' /\ Identities' /\ SpaceClaimed' /\ WakeClaimed'
         /\ Owed' /\ NothingForgotten' /\ Found' /\ FreshWorkHasFreshIdentity'
<1> USE DEF pushes, IndInv
<1>1. Bounds' /\ Identities'
  BY DEF Bounds, Identities, Wake, Works
<1>2. SpaceClaimed' /\ WakeClaimed'
  BY DEF SpaceClaimed, WakeClaimed, Wake, HeldBy
<1>3. Owed' /\ NothingForgotten' /\ Found'
  BY DEF Owed, NothingForgotten, Found, Wake
<1>4. FreshWorkHasFreshIdentity'
  BY DEF FreshWorkHasFreshIdentity
<1> QED BY <1>1, <1>2, <1>3, <1>4

\* No watch registers and no lease changes; claims may end.
watching == <<presence, lease, up, watch, dirty, beat, lapsed>>

LEMMA WatchingAlone ==
  ASSUME IndInv, UNCHANGED watching, worker' \in [Runtimes -> WorkerStates]
  PROVE  /\ ProcessType' /\ PresenceInv'
         /\ (\A c \in Clients : Wake(c)' /\ Live(wakes'[c].claim) =>
               Wake(c) /\ Live(wakes[c].claim)) => Offline'
<1> USE DEF watching, IndInv
<1>1. ProcessType'
  BY DEF TypeInv, ProcessType, WorkerStates
<1>2. PresenceInv'
  BY DEF PresenceInv, Ready
<1>3. ASSUME \A c \in Clients : Wake(c)' /\ Live(wakes'[c].claim) =>
                Wake(c) /\ Live(wakes[c].claim)
      PROVE  Offline'
  BY <1>3 DEF Offline, Ready, Live, Wake
<1> QED BY <1>1, <1>2, <1>3

-----------------------------------------------------------------------------
(***************************************************************************)
(* Watches, leases and heartbeats.                                         *)
(***************************************************************************)
LEMMA WatchSteps ==
  ASSUME IndInv, UNCHANGED pushes, ProcessType', PresenceInv', Offline',
         presence' \subseteq Watches, lease' \in [Runtimes -> {"live", "over", "absent"}],
         lapsed' \subseteq Watches, disturbances' \in Nat
  PROVE  IndInv'
<1>1. DatabaseType' /\ HistoryType'
  BY DEF IndInv, TypeInv, DatabaseType, HistoryType, pushes
<1> QED BY <1>1, PushesAlone DEF IndInv, TypeInv

LEMMA Disturbed ==
  ASSUME TypeInv
  PROVE  /\ Disturb => disturbances' \in Nat
         /\ UNCHANGED disturbances => disturbances' \in Nat
  BY DEF TypeInv, HistoryType, Disturb

LEMMA OpenInv ==
  ASSUME IndInv, NEW w \in Watches, Open(w)
  PROVE  IndInv'
<1> USE DEF IndInv, TypeInv
<1>1. PICK c \in Clients, r \in up :
        watch' = [watch EXCEPT ![w] = [client |-> c, runtime |-> r, phase |-> "registering"]]
  BY DEF Open
<1>2. r \in Runtimes
  BY DEF ProcessType
<1>3. ProcessType'
  BY <1>1, <1>2 DEF ProcessType, Streams, Open
<1>4. \A v \in Watches : Ready(v)' => Ready(v) /\ watch'[v] = watch[v]
  BY <1>1 DEF ProcessType, Streams, Ready, Open, history
<1>5. PresenceInv' /\ Offline'
  BY <1>4 DEF PresenceInv, Offline, Open, tables, Wake
<1> QED BY <1>3, <1>5, WatchSteps DEF Open, tables, history, pushes, DatabaseType, HistoryType

LEMMA RegisterInv ==
  ASSUME IndInv, NEW w \in Watches, Register(w)
  PROVE  IndInv'
<1> USE DEF IndInv, TypeInv
<1> DEFINE r == watch[w].runtime
           c == watch[w].client
<1>1. r \in Runtimes /\ c \in Clients /\ watch[w] \in Streams
  BY DEF Register, ProcessType
<1>2. lease' = [lease EXCEPT ![r] = "live"] /\ UNCHANGED <<pushes, dirty, beat, lapsed, disturbances>>
  BY DEF Register, pushes, history
<1>3. /\ lease' \in [Runtimes -> {"live", "over", "absent"}] /\ lease'[r] = "live"
      /\ \A s \in Runtimes : lease[s] = "live" => lease'[s] = "live"
  BY <1>1, <1>2 DEF DatabaseType
<1>4. CASE MayRegister(c)
  <2>1. presence' = presence \cup {w} /\ watch' = [watch EXCEPT ![w].phase = "ready"]
    BY <1>4 DEF Register
  <2>2. /\ watch'[w].client = c /\ watch'[w].runtime = r
        /\ watch'[w] \in Streams
        /\ \A v \in Watches : v # w => watch'[v] = watch[v]
        /\ watch' \in [Watches -> Streams]
    BY <1>1, <2>1 DEF ProcessType, Streams
  <2>3. ProcessType'
    BY <1>1, <1>2, <2>2 DEF ProcessType, pushes
  <2>4. PresenceInv'
    BY <1>2, <1>3, <2>1, <2>2 DEF PresenceInv, Ready, ProcessType
  <2>5. Offline'
    BY <1>2, <1>4, <2>2 DEF Offline, Ready, Wake, MayRegister, pushes
  <2> QED BY <1>2, <1>3, <2>1, <2>3, <2>4, <2>5, WatchSteps DEF DatabaseType, HistoryType
<1>5. CASE ~ MayRegister(c)
  <2>1. presence' = presence /\ watch' = watch
    BY <1>5 DEF Register
  <2>2. ProcessType' /\ PresenceInv' /\ Offline'
    BY <1>2, <1>3, <2>1 DEF ProcessType, PresenceInv, Offline, Ready, Wake, pushes
  <2> QED BY <1>2, <1>3, <2>1, <2>2, WatchSteps DEF DatabaseType, HistoryType
<1> QED BY <1>4, <1>5

LEMMA DisconnectInv ==
  ASSUME IndInv, NEW w \in Watches, Disconnect(w)
  PROVE  IndInv'
<1> USE DEF IndInv, TypeInv
<1>1. watch[w] \in Streams
  BY DEF ProcessType
<1>2. /\ watch' = [watch EXCEPT ![w].phase = IF @ = "ready" THEN "closing" ELSE "gone"]
      /\ UNCHANGED <<pushes, presence, lease, dirty, beat, lapsed, disturbances>>
  BY DEF Disconnect, pushes, tables, history
<1>3. /\ watch'[w].client = watch[w].client /\ watch'[w].runtime = watch[w].runtime
      /\ watch'[w].phase \in {"closing", "gone"}
      /\ watch'[w] \in Streams
      /\ \A v \in Watches : v # w => watch'[v] = watch[v]
      /\ watch' \in [Watches -> Streams]
  BY <1>1, <1>2 DEF ProcessType, Streams
<1>4. ProcessType'
  BY <1>2, <1>3 DEF ProcessType, pushes, Disconnect
<1>5. \A v \in Watches : Ready(v)' => Ready(v) /\ watch'[v] = watch[v]
  BY <1>2, <1>3 DEF Ready
<1>6. PresenceInv' /\ Offline'
  BY <1>2, <1>5 DEF PresenceInv, Offline, pushes, Wake
<1> QED BY <1>2, <1>4, <1>6, WatchSteps DEF DatabaseType, HistoryType

LEMMA FinalizeInv ==
  ASSUME IndInv, NEW w \in Watches, Finalize(w)
  PROVE  IndInv'
<1> USE DEF IndInv, TypeInv
<1>1. watch[w] \in Streams /\ watch[w].runtime \in Runtimes /\ watch[w].phase = "closing"
  BY DEF ProcessType, Finalize
<1>2. /\ watch' = [watch EXCEPT ![w].phase = "gone"] /\ lapsed' = lapsed \ {w}
      /\ UNCHANGED <<pushes, lease, beat>>
  BY DEF Finalize, pushes
<1>3. /\ watch'[w].client = watch[w].client /\ watch'[w].runtime = watch[w].runtime
      /\ watch'[w].phase = "gone"
      /\ watch'[w] \in Streams
      /\ \A v \in Watches : v # w => watch'[v] = watch[v]
      /\ watch' \in [Watches -> Streams]
  BY <1>1, <1>2 DEF ProcessType, Streams
<1>4. /\ dirty' \in [Runtimes -> BOOLEAN] /\ presence' \subseteq Watches
      /\ presence' \in {presence, presence \ {w}} /\ disturbances' \in Nat
  BY <1>1, Disturbed DEF Finalize, MarksDirty, ProcessType, DatabaseType
<1>5. ProcessType'
  BY <1>1, <1>2, <1>3, <1>4 DEF ProcessType, pushes
<1>6. \A v \in Watches : Ready(v)' => v # w /\ Ready(v) /\ watch'[v] = watch[v]
  BY <1>2, <1>3 DEF Ready
<1>7. PresenceInv' /\ Offline'
  BY <1>2, <1>4, <1>6 DEF PresenceInv, Offline, pushes, Wake
<1> QED BY <1>2, <1>4, <1>5, <1>7, WatchSteps DEF DatabaseType, HistoryType

\* A heartbeat, a lease that ends and a sweep leave the watches as they are.
LEMMA LeaseSteps ==
  ASSUME IndInv, UNCHANGED <<pushes, watch>>, disturbances' \in Nat,
         presence' \subseteq Watches, lease' \in [Runtimes -> {"live", "over", "absent"}],
         dirty' \in [Runtimes -> BOOLEAN], beat' \in [Runtimes -> {"idle", "restore", "compare"}],
         lapsed \subseteq lapsed', lapsed' \subseteq Watches,
         \A w \in Watches : Ready(w) /\ w \in presence /\ lease[watch[w].runtime] = "live" =>
           w \in lapsed' \/ (w \in presence' /\ lease'[watch[w].runtime] = "live")
  PROVE  IndInv'
<1> USE DEF IndInv, TypeInv
<1>1. ProcessType'
  BY DEF ProcessType, pushes
<1>2. \A w \in Watches : Ready(w)' => Ready(w)
  BY DEF Ready
<1>3. PresenceInv'
  BY <1>2 DEF PresenceInv, Ready
<1>4. Offline'
  BY <1>2 DEF Offline, pushes, Wake
<1> QED BY <1>1, <1>3, <1>4, WatchSteps

LEMMA HeartbeatInv ==
  ASSUME IndInv, NEW r \in Runtimes, Heartbeat(r) \/ BeatFails(r)
  PROVE  IndInv'
<1> USE DEF IndInv, TypeInv
<1>1. UNCHANGED <<pushes, watch, lapsed>> /\ disturbances' \in Nat
  BY Disturbed DEF Heartbeat, Renew, Restore, Compare, BeatFails, pushes, tables, history,
                   HistoryType
<1>2. ASSUME presence' \subseteq Watches, \A w \in Watches : Ready(w) /\ w \in presence => w \in presence',
             lease' \in {lease, [lease EXCEPT ![r] = "live"]},
             dirty' \in [Runtimes -> BOOLEAN], beat' \in [Runtimes -> {"idle", "restore", "compare"}]
      PROVE  IndInv'
  <2>1. /\ lease' \in [Runtimes -> {"live", "over", "absent"}]
        /\ \A s \in Runtimes : lease[s] = "live" => lease'[s] = "live"
    BY <1>2 DEF DatabaseType
  <2>2. lapsed' = lapsed /\ lapsed \subseteq Watches
    BY <1>1 DEF HistoryType
  <2>3. \A w \in Watches : Ready(w) => watch[w].runtime \in Runtimes
    BY DEF ProcessType, Ready
  <2>4. \A w \in Watches : Ready(w) /\ w \in presence /\ lease[watch[w].runtime] = "live" =>
           w \in lapsed' \/ (w \in presence' /\ lease'[watch[w].runtime] = "live")
    BY <1>2, <2>1, <2>3
  <2> HIDE DEF IndInv, TypeInv
  <2> QED BY <1>1, <1>2, <2>1, <2>2, <2>4, LeaseSteps
<1>3. \A w \in Watches : Ready(w) => w \in Local(watch[w].runtime)
  BY DEF Ready, Local
<1>4. presence \subseteq Watches /\ dirty \in [Runtimes -> BOOLEAN]
      /\ beat \in [Runtimes -> {"idle", "restore", "compare"}]
  BY DEF DatabaseType, ProcessType
<1> HIDE DEF IndInv, TypeInv
<1>5. CASE Renew(r)
  BY <1>2, <1>4, <1>5 DEF Renew
<1>6. CASE Restore(r)
  BY <1>2, <1>4, <1>6 DEF Restore, Local
<1>7. CASE Compare(r)
  <2>1. \A w \in Watches : Ready(w) /\ w \in presence => w \in presence'
    BY <1>3, <1>7 DEF Compare
  <2> QED BY <1>2, <1>4, <1>7, <2>1 DEF Compare
<1>8. CASE BeatFails(r)
  BY <1>2, <1>4, <1>8 DEF BeatFails, tables, history
<1> QED BY <1>5, <1>6, <1>7, <1>8 DEF Heartbeat

LEMMA LeaseEndsInv ==
  ASSUME IndInv, NEW r \in Runtimes, LeaseEnds(r)
  PROVE  IndInv'
<1>1. /\ UNCHANGED <<pushes, watch, presence, dirty, beat>> /\ disturbances' \in Nat
      /\ lease' = [lease EXCEPT ![r] = "over"] /\ lapsed' = lapsed \cup Local(r)
  BY Disturbed DEF LeaseEnds, pushes, processes, IndInv
<1>2. /\ presence \subseteq Watches /\ dirty \in [Runtimes -> BOOLEAN]
      /\ beat \in [Runtimes -> {"idle", "restore", "compare"}]
      /\ lease' \in [Runtimes -> {"live", "over", "absent"}]
      /\ \A s \in Runtimes : s # r => lease'[s] = lease[s]
      /\ lapsed' \subseteq Watches
  BY <1>1 DEF IndInv, TypeInv, DatabaseType, ProcessType, HistoryType, Local
<1>3. \A w \in Watches : Ready(w) => watch[w].runtime \in Runtimes
  BY DEF IndInv, TypeInv, ProcessType, Ready
<1>4. \A w \in Watches : Ready(w) /\ w \in presence /\ lease[watch[w].runtime] = "live" =>
         w \in lapsed' \/ (w \in presence' /\ lease'[watch[w].runtime] = "live")
  <2> SUFFICES ASSUME NEW w \in Watches, Ready(w), w \in presence,
                      lease[watch[w].runtime] = "live"
               PROVE  w \in lapsed' \/ (w \in presence' /\ lease'[watch[w].runtime] = "live")
    OBVIOUS
  <2>1. CASE watch[w].runtime = r
    BY <1>1, <2>1 DEF Local, Ready
  <2>2. CASE watch[w].runtime # r
    BY <1>1, <1>2, <1>3, <2>2
  <2> QED BY <2>1, <2>2
<1> QED BY <1>1, <1>2, <1>4, LeaseSteps

LEMMA SweepInv ==
  ASSUME IndInv, NEW r \in Runtimes, Sweep(r)
  PROVE  IndInv'
<1>1. UNCHANGED <<pushes, watch, dirty, beat, lapsed, disturbances>>
  BY DEF Sweep, pushes, processes, history
<1>2. /\ presence \subseteq Watches /\ dirty \in [Runtimes -> BOOLEAN]
      /\ beat \in [Runtimes -> {"idle", "restore", "compare"}]
      /\ lease \in [Runtimes -> {"live", "over", "absent"}]
      /\ lapsed \subseteq Watches /\ disturbances \in Nat
  BY DEF IndInv, TypeInv, DatabaseType, ProcessType, HistoryType
<1>3. \A w \in Watches : Ready(w) => watch[w].runtime \in Runtimes
  BY DEF IndInv, TypeInv, ProcessType, Ready
<1>4. /\ presence' \subseteq Watches
      /\ lease' \in [Runtimes -> {"live", "over", "absent"}]
      /\ \A s \in Runtimes : lease[s] = "live" => lease'[s] = "live"
      /\ \A w \in presence : lease[watch[w].runtime] = "live" => w \in presence'
  BY <1>2 DEF Sweep
<1>5. \A w \in Watches : Ready(w) /\ w \in presence /\ lease[watch[w].runtime] = "live" =>
         w \in lapsed' \/ (w \in presence' /\ lease'[watch[w].runtime] = "live")
  BY <1>3, <1>4
<1> QED BY <1>1, <1>2, <1>4, <1>5, LeaseSteps

-----------------------------------------------------------------------------
(***************************************************************************)
(* The environment: writes, pulls, membership, claims that end, crashes.   *)
(***************************************************************************)
LEMMA SpaceClaimEndsInv ==
  ASSUME IndInv, SpaceClaimEnds
  PROVE  IndInv'
<1> USE DEF IndInv, TypeInv
<1>1. /\ space \in Spaces /\ space.claim \in Claims
  BY DEF SpaceClaimEnds, DatabaseType, Spaces, Live
<1>2. /\ space' \in Spaces /\ space'.high = space.high /\ space'.expanded = space.expanded
      /\ space'.generation = space.generation
      /\ space'.claim # None /\ space'.claim.by = space.claim.by
  BY <1>1 DEF SpaceClaimEnds, Spaces, Claims
<1>3. /\ UNCHANGED <<wakes, acknowledged, worker, ids, members, owed, recorded, watching>>
      /\ disturbances' \in Nat
  BY Disturbed DEF SpaceClaimEnds, processes, history, watching
<1>4. TypeInv'
  BY <1>2, <1>3 DEF DatabaseType, ProcessType, HistoryType, watching
<1>5. Bounds' /\ Identities'
  BY <1>2, <1>3 DEF Bounds, Identities, Wake, Works, watching
<1>6. SpaceClaimed' /\ WakeClaimed'
  BY <1>1, <1>2, <1>3 DEF SpaceClaimed, WakeClaimed, Wake, HeldBy, watching
<1>7. PresenceInv' /\ Offline'
  BY <1>3 DEF PresenceInv, Offline, Ready, Wake, watching
<1>8. Owed' /\ NothingForgotten' /\ Found' /\ FreshWorkHasFreshIdentity'
  BY <1>2, <1>3 DEF Owed, NothingForgotten, Found, FreshWorkHasFreshIdentity, Wake, watching
<1> HIDE DEF IndInv
<1> QED BY <1>4, <1>5, <1>6, <1>7, <1>8 DEF IndInv

LEMMA WakeClaimEndsInv ==
  ASSUME IndInv, NEW c \in Clients, WakeClaimEnds(c)
  PROVE  IndInv'
<1> USE DEF IndInv, TypeInv
<1> DEFINE row == [wakes[c] EXCEPT !.claim.live = FALSE]
<1>1. Wake(c) /\ wakes[c] \in WakeRows /\ wakes[c].claim # None
  BY RowShape DEF WakeClaimEnds, Wake, Live
<1>2. /\ row \in WakeRows /\ row # None
      /\ row.id = wakes[c].id /\ row.high = wakes[c].high /\ row.notified = wakes[c].notified
      /\ row.claim # None /\ row.claim.by = wakes[c].claim.by /\ ~ row.claim.live
  BY <1>1, Expiring, Reclaimed
<1>3. /\ wakes' = [wakes EXCEPT ![c] = row]
      /\ UNCHANGED <<space, acknowledged, worker, ids, members, owed, recorded, watching>>
      /\ disturbances' \in Nat
  BY Disturbed DEF WakeClaimEnds, processes, history, watching
<1> HIDE DEF row
<1>4. /\ wakes' \in [Clients -> WakeRows \cup {None}] /\ wakes'[c] = row
      /\ \A d \in Clients : d # c => wakes'[d] = wakes[d]
  BY <1>2, <1>3 DEF DatabaseType
<1>5. TypeInv'
  BY <1>3, <1>4 DEF DatabaseType, ProcessType, HistoryType, watching
<1>6. Bounds' /\ Identities'
  BY <1>1, <1>2, <1>3, <1>4 DEF Bounds, Identities, Wake, Works, watching
<1>7. SpaceClaimed' /\ WakeClaimed'
  BY <1>1, <1>2, <1>3, <1>4 DEF SpaceClaimed, WakeClaimed, Wake, HeldBy, watching
<1>8. PresenceInv' /\ Offline'
  BY <1>2, <1>3, <1>4 DEF PresenceInv, Offline, Ready, Wake, Live, watching
<1>9. Owed' /\ NothingForgotten' /\ Found' /\ FreshWorkHasFreshIdentity'
  BY <1>1, <1>2, <1>3, <1>4 DEF Owed, NothingForgotten, Found, FreshWorkHasFreshIdentity, Wake, watching
<1> HIDE DEF IndInv
<1> QED BY <1>5, <1>6, <1>7, <1>8, <1>9 DEF IndInv

LEMMA EnqueueInv ==
  ASSUME IndInv, Enqueue
  PROVE  IndInv'
<1> USE DEF IndInv, TypeInv
<1>1. /\ space' = [space EXCEPT !.high = @ + 1]
      /\ owed' = [c \in Clients |-> IF c \in members THEN space.high + 1 ELSE owed[c]]
      /\ UNCHANGED <<wakes, acknowledged, worker, ids, members, recorded, watching, disturbances>>
  BY DEF Enqueue, processes, watching
<1>2. /\ space' \in Spaces /\ space'.high = space.high + 1 /\ space'.expanded = space.expanded
      /\ space'.claim = space.claim /\ space.high \in Nat /\ space.expanded \in Nat
  BY <1>1 DEF DatabaseType, Spaces
<1>3. /\ owed' \in [Clients -> Nat]
      /\ \A c \in Clients : c \in members => owed'[c] = space.high + 1
      /\ \A c \in Clients : c \notin members => owed'[c] = owed[c]
  BY <1>1, <1>2 DEF HistoryType
<1>4. TypeInv'
  BY <1>1, <1>2, <1>3 DEF DatabaseType, ProcessType, HistoryType, watching
<1>5. /\ acknowledged \in [Clients -> Nat] /\ owed \in [Clients -> Nat]
      /\ \A c \in Clients : Wake(c) => wakes[c].high \in Nat /\ wakes[c].notified \in Nat
      /\ \A r \in Runtimes : Works(r, Expansion \cup Delivery) => worker[r].high \in Nat
  <2>1. \A r \in Runtimes : Works(r, Expansion \cup Delivery) => worker[r].high \in Nat
    BY Shapes DEF ProcessType, WorkerStates, Works, Delivering
  <2> QED BY <2>1, RowShape DEF DatabaseType, HistoryType
<1>6. Bounds'
  BY <1>1, <1>2, <1>3, <1>5 DEF Bounds, Wake, Works, watching
<1>7. Identities' /\ SpaceClaimed' /\ WakeClaimed' /\ PresenceInv' /\ Offline'
  BY <1>1, <1>2 DEF Identities, SpaceClaimed, WakeClaimed, PresenceInv, Offline, Ready, Wake,
                    Works, HeldBy, watching
<1>8. ASSUME NEW c \in Clients, c \in members
      PROVE  /\ acknowledged[c] < owed'[c] /\ owed'[c] > space.expanded
             /\ Wake(c) => wakes[c].notified < owed'[c]
  <2>1. owed'[c] = space.high + 1 /\ acknowledged[c] <= space.high /\ acknowledged[c] \in Nat
    BY <1>3, <1>5, <1>8 DEF Bounds
  <2>2. Wake(c) => wakes[c].notified <= space.high /\ wakes[c].notified \in Nat
    BY <1>5 DEF Bounds
  <2>3. space.expanded <= space.high
    BY DEF Bounds
  <2> QED BY <1>2, <2>1, <2>2, <2>3
<1>9. Owed' /\ NothingForgotten'
  BY <1>1, <1>2, <1>3, <1>8 DEF Owed, NothingForgotten, Wake
<1>10. Found'
  <2>1. ASSUME NEW r \in up, worker[r].at = "expand", NEW c \in Clients,
               owed'[c] # 0, owed'[c] <= worker[r].high
        PROVE  c \in worker[r].recipients
    <3>1. c \notin members
      BY <1>2, <1>3, <1>5, <2>1 DEF Bounds, Works, Expansion, ProcessType
    <3> QED BY <1>3, <2>1, <3>1 DEF Found
  <2>2. ASSUME NEW r \in up, worker[r].at \in {"delivered", "notRecipient"}
        PROVE  owed'[worker[r].client] = 0 \/ owed'[worker[r].client] > worker[r].high
    <3>1. worker[r].client \in Clients
      BY <2>2, Shapes DEF ProcessType, WorkerStates, Delivering, Delivery
    <3>2. CASE worker[r].client \in members
      BY <1>2, <1>3, <1>5, <2>2, <3>1, <3>2 DEF Bounds, Works, Delivery, ProcessType
    <3>3. CASE worker[r].client \notin members
      BY <1>3, <2>2, <3>1, <3>3 DEF Found
    <3> QED BY <3>2, <3>3
  <2> QED BY <1>1, <2>1, <2>2 DEF Found, watching
<1>11. FreshWorkHasFreshIdentity'
  BY <1>1 DEF FreshWorkHasFreshIdentity
<1> HIDE DEF IndInv
<1> QED BY <1>4, <1>6, <1>7, <1>9, <1>10, <1>11 DEF IndInv

LEMMA PullInv ==
  ASSUME IndInv, NEW c \in Clients, Pull(c)
  PROVE  IndInv'
<1> USE DEF IndInv, TypeInv
<1>1. PICK n \in acknowledged[c] + 1 .. space.high :
        /\ acknowledged' = [acknowledged EXCEPT ![c] = n]
        /\ wakes' = IF Wake(c) /\ wakes[c].high <= n THEN [wakes EXCEPT ![c] = None] ELSE wakes
        /\ owed' = IF owed[c] <= n THEN [owed EXCEPT ![c] = 0] ELSE owed
  BY DEF Pull, Wake
<1>2. /\ UNCHANGED <<space, worker, ids, members, recorded, watching, disturbances>>
      /\ space.high \in Nat /\ acknowledged[c] \in Nat /\ owed[c] \in Nat
      /\ n \in Nat /\ n <= space.high
  BY <1>1 DEF Pull, processes, watching, DatabaseType, HistoryType, Spaces
<1>3. /\ acknowledged' \in [Clients -> Nat] /\ acknowledged'[c] = n
      /\ \A d \in Clients : d # c => acknowledged'[d] = acknowledged[d]
  BY <1>1, <1>2 DEF DatabaseType
<1>4. /\ wakes' \in [Clients -> WakeRows \cup {None}]
      /\ \A d \in Clients : wakes'[d] # None => Wake(d) /\ wakes'[d] = wakes[d]
      /\ \A d \in Clients : d # c => wakes'[d] = wakes[d]
      /\ wakes'[c] = None => ~ Wake(c) \/ wakes[c].high <= n
  BY <1>1 DEF DatabaseType, Wake
<1>5. /\ owed' \in [Clients -> Nat]
      /\ \A d \in Clients : owed'[d] # 0 => owed'[d] = owed[d]
      /\ owed'[c] # 0 => owed[c] > n
  BY <1>1, <1>2 DEF HistoryType
<1>6. TypeInv'
  BY <1>2, <1>3, <1>4, <1>5 DEF DatabaseType, ProcessType, HistoryType, watching
<1>7. Bounds'
  BY <1>2, <1>3, <1>4, <1>5 DEF Bounds, Wake, Works, watching
<1>8. Identities' /\ SpaceClaimed' /\ WakeClaimed' /\ PresenceInv' /\ Offline'
  BY <1>2, <1>4 DEF Identities, SpaceClaimed, WakeClaimed, PresenceInv, Offline, Ready, Wake,
                    Works, watching
<1>9. Owed'
  BY <1>2, <1>3, <1>4, <1>5 DEF Owed, Wake
<1>10. NothingForgotten'
  <2> SUFFICES ASSUME NEW d \in Clients, owed'[d] # 0, ~ (owed'[d] > space'.expanded)
               PROVE  Wake(d)' /\ wakes'[d].notified < owed'[d] /\ owed'[d] <= wakes'[d].high
    BY DEF NothingForgotten
  <2>1. owed'[d] = owed[d] /\ Wake(d) /\ wakes[d].notified < owed[d] /\ owed[d] <= wakes[d].high
    BY <1>2, <1>5 DEF NothingForgotten
  <2>2. wakes'[d] = wakes[d]
    BY <1>1, <1>2, <1>4, <1>5, <2>1, RowShape
  <2> QED BY <2>1, <2>2 DEF Wake
<1>11. Found' /\ FreshWorkHasFreshIdentity'
  <2>1. \A r \in up : worker[r].at \in {"delivered", "notRecipient"} => worker[r].client \in Clients
    BY Shapes DEF ProcessType, WorkerStates, Delivering, Delivery
  <2>2. Found'
    BY <1>2, <1>5, <2>1 DEF Found, watching
  <2> QED BY <1>2, <1>4, <2>2 DEF FreshWorkHasFreshIdentity, Wake
<1> HIDE DEF IndInv
<1> QED BY <1>6, <1>7, <1>8, <1>9, <1>10, <1>11 DEF IndInv

LEMMA ChangeMembershipInv ==
  ASSUME IndInv, NEW c \in Clients, ChangeMembership(c)
  PROVE  IndInv'
<1> USE DEF IndInv, TypeInv
<1>1. /\ members' = (IF c \in members THEN members \ {c} ELSE members \cup {c})
      /\ owed' = [owed EXCEPT ![c] = 0]
      /\ UNCHANGED <<space, wakes, acknowledged, worker, ids, recorded, watching>>
      /\ disturbances' \in Nat
  BY Disturbed DEF ChangeMembership, tables, processes, watching
<1>2. /\ owed' \in [Clients -> Nat] /\ owed'[c] = 0
      /\ \A d \in Clients : d # c => owed'[d] = owed[d]
      /\ \A d \in Clients : d # c => (d \in members' <=> d \in members)
      /\ members' \subseteq Clients
  BY <1>1 DEF HistoryType
<1>3. TypeInv'
  BY <1>1, <1>2 DEF DatabaseType, ProcessType, HistoryType, watching
<1>4. Bounds' /\ Identities' /\ SpaceClaimed' /\ WakeClaimed' /\ PresenceInv' /\ Offline'
  BY <1>1, <1>2 DEF Bounds, Identities, SpaceClaimed, WakeClaimed, PresenceInv, Offline, Ready,
                    Wake, Works, watching, DatabaseType, Spaces
<1>5. Owed' /\ NothingForgotten'
  BY <1>1, <1>2 DEF Owed, NothingForgotten, Wake
<1>6. Found' /\ FreshWorkHasFreshIdentity'
  <2>1. \A r \in up : worker[r].at \in {"delivered", "notRecipient"} => worker[r].client \in Clients
    BY Shapes DEF ProcessType, WorkerStates, Delivering, Delivery
  <2> QED BY <1>1, <1>2, <2>1 DEF Found, FreshWorkHasFreshIdentity, watching
<1> HIDE DEF IndInv
<1> QED BY <1>3, <1>4, <1>5, <1>6 DEF IndInv

LEMMA CrashInv ==
  ASSUME IndInv, NEW r \in Runtimes, Crash(r)
  PROVE  IndInv'
<1> USE DEF IndInv, TypeInv
<1>1. /\ up' = up \ {r} /\ r \in up
      /\ watch' = [w \in Watches |->
            IF watch[w].runtime = r THEN [watch[w] EXCEPT !.phase = "gone"] ELSE watch[w]]
      /\ worker' = [worker EXCEPT ![r] = Idle] /\ beat' = [beat EXCEPT ![r] = "idle"]
      /\ dirty' = [dirty EXCEPT ![r] = FALSE]
      /\ UNCHANGED <<space, wakes, acknowledged, presence, lease, ids, members, owed, recorded,
                     lapsed>>
      /\ disturbances' \in Nat
  BY Disturbed DEF Crash, tables, history
<1>2. /\ Idle \in WorkerStates /\ up' \subseteq up
      /\ worker' \in [Runtimes -> WorkerStates]
      /\ \A q \in up' : q \in Runtimes /\ q # r /\ q \in up /\ worker'[q] = worker[q]
  BY <1>1 DEF Idle, WorkerStates, Resting, ProcessType
<1>3. /\ watch' \in [Watches -> Streams]
      /\ \A w \in Watches : /\ watch'[w].client = watch[w].client
                            /\ watch'[w].runtime = watch[w].runtime
                            /\ watch'[w].phase \in {watch[w].phase, "gone"}
                            /\ watch'[w].phase = "ready" => watch[w].phase = "ready"
  <2> SUFFICES ASSUME NEW w \in Watches
               PROVE  /\ watch'[w] \in Streams
                      /\ watch'[w].client = watch[w].client
                      /\ watch'[w].runtime = watch[w].runtime
                      /\ watch'[w].phase \in {watch[w].phase, "gone"}
                      /\ watch'[w].phase = "ready" => watch[w].phase = "ready"
    BY <1>1
  <2>1. watch[w] \in Streams
    BY DEF ProcessType
  <2> QED BY <1>1, <2>1 DEF Streams
<1>4. \A w \in Watches :
         \/ watch[w].runtime \in Runtimes /\ watch[w].client \in Clients
         \/ watch[w].phase = "none" /\ watch[w].runtime \in Runtimes \cup {None}
  BY DEF ProcessType, Streams
<1>5. \A w \in Watches : watch'[w].phase # "none" =>
         watch'[w].client \in Clients /\ watch'[w].runtime \in Runtimes
  BY <1>1, <1>3, <1>4 DEF ProcessType
<1>6. TypeInv'
  BY <1>1, <1>2, <1>3, <1>5 DEF DatabaseType, ProcessType, HistoryType, WorkerStates
<1>7. Bounds' /\ Identities'
  BY <1>1, <1>2 DEF Bounds, Identities, Wake, Works
<1>8. SpaceClaimed' /\ WakeClaimed'
  BY <1>1, <1>2 DEF SpaceClaimed, WakeClaimed, Wake, HeldBy
<1>9. PresenceInv' /\ Offline'
  BY <1>1, <1>3 DEF PresenceInv, Offline, Ready, Wake, Live
<1>10. Owed' /\ NothingForgotten' /\ Found' /\ FreshWorkHasFreshIdentity'
  BY <1>1, <1>2 DEF Owed, NothingForgotten, Found, FreshWorkHasFreshIdentity, Wake
<1> HIDE DEF IndInv
<1> QED BY <1>6, <1>7, <1>8, <1>9, <1>10 DEF IndInv

-----------------------------------------------------------------------------
(***************************************************************************)
(* A worker expands the space.  It holds no claim of a wake, so that of    *)
(* the wakes' claims nothing changes.                                      *)
(***************************************************************************)
LEMMA NoWake ==
  ASSUME IndInv, NEW r \in up, worker[r].at \in {"idle"} \cup Expansion
  PROVE  \A c \in Clients : Wake(c) => ~ HeldBy(wakes[c].claim, r)
  BY DEF IndInv, WakeClaimed, Expansion, Delivery

LEMMA NoSpace ==
  ASSUME IndInv, NEW r \in up, worker[r].at \in {"idle"} \cup Delivery
  PROVE  ~ HeldBy(space.claim, r)
  BY DEF IndInv, SpaceClaimed, Expansion, Delivery

\* A step of an expansion that leaves the wakes as they are.
LEMMA ExpansionSteps ==
  ASSUME IndInv, NEW r \in up, worker[r].at \in {"idle"} \cup Expansion,
         NEW x \in WorkerStates, Goto(r, x), x.at \in {"idle"} \cup Expansion,
         UNCHANGED <<wakes, acknowledged, ids, members, owed, recorded, watching>>,
         disturbances' \in Nat,
         space' \in Spaces, space'.high = space.high, space'.expanded = space.expanded,
         \A q \in Runtimes : q # r => (HeldBy(space'.claim, q) => HeldBy(space.claim, q)),
         x.at \in Expansion => x.high <= space.high,
         HeldBy(space'.claim, r) => x.at \in Expansion /\ space.expanded < x.high,
         x.at = "expand" =>
           \A c \in Clients : owed[c] # 0 /\ owed[c] <= x.high => c \in x.recipients
  PROVE  IndInv'
<1>1. r \in Runtimes
  BY DEF IndInv, TypeInv, ProcessType
<1>2. /\ worker' \in [Runtimes -> WorkerStates] /\ worker'[r] = x
      /\ \A q \in Runtimes : q # r => worker'[q] = worker[q]
  BY <1>1, Going DEF IndInv
<1>3. ProcessType' /\ PresenceInv' /\ Offline'
  BY <1>2, WatchingAlone DEF Wake
<1>4. TypeInv'
  BY <1>3 DEF IndInv, TypeInv, DatabaseType, HistoryType, watching
<1>5. Bounds'
  BY <1>2, Shapes DEF IndInv, Bounds, Wake, Works, watching, Expansion, Delivery
<1>6. Identities'
  BY <1>2 DEF IndInv, Identities, Wake, Works, watching, Expansion, Delivery
<1>7. up \subseteq Runtimes
  BY DEF IndInv, TypeInv, ProcessType
<1>8. SpaceClaimed'
  <2> SUFFICES ASSUME NEW q \in up, HeldBy(space'.claim, q)
               PROVE  worker'[q].at \in Expansion /\ space.expanded < worker'[q].high
    BY DEF SpaceClaimed, watching
  <2>1. CASE q = r
    BY <1>2, <2>1
  <2>2. CASE q # r
    BY <1>2, <1>7, <2>2 DEF IndInv, SpaceClaimed
  <2> QED BY <2>1, <2>2
<1>9. WakeClaimed'
  <2> SUFFICES ASSUME NEW c \in Clients, NEW q \in up, Wake(c), HeldBy(wakes[c].claim, q)
               PROVE  worker'[q] = worker[q]
    BY DEF IndInv, WakeClaimed, watching, Wake
  <2> QED BY <1>2, <1>7, NoWake
<1>10. Owed' /\ NothingForgotten' /\ FreshWorkHasFreshIdentity'
  BY DEF IndInv, Owed, NothingForgotten, FreshWorkHasFreshIdentity, Wake
<1>11. Found'
  <2>1. ASSUME NEW q \in up
        PROVE  /\ worker'[q].at = "expand" =>
                    \A c \in Clients : owed[c] # 0 /\ owed[c] <= worker'[q].high =>
                                         c \in worker'[q].recipients
               /\ worker'[q].at \in {"delivered", "notRecipient"} =>
                    owed[worker'[q].client] = 0 \/ owed[worker'[q].client] > worker'[q].high
    <3>1. CASE q = r
      BY <1>2, <3>1 DEF Expansion
    <3>2. CASE q # r
      BY <1>2, <1>7, <3>2 DEF IndInv, Found
    <3> QED BY <3>1, <3>2
  <2> QED BY <2>1 DEF Found, watching
<1> QED BY <1>3, <1>4, <1>5, <1>6, <1>8, <1>9, <1>10, <1>11 DEF IndInv

LEMMA ClaimSpaceInv ==
  ASSUME IndInv, NEW r \in Runtimes, ClaimSpace(r)
  PROVE  IndInv'
<1> DEFINE x == [at |-> "resolve", high |-> space.high, generation |-> space.generation]
<1>1. space \in Spaces /\ space.high \in Nat /\ space.expanded \in Nat /\ space.generation \in Nat
  BY DEF IndInv, TypeInv, DatabaseType, Spaces
<1>2. /\ r \in up /\ worker[r].at = "idle" /\ space.expanded < space.high
      /\ space' = [space EXCEPT !.claim = Claim(r)] /\ Goto(r, x)
      /\ UNCHANGED <<wakes, acknowledged, ids, members, owed, recorded, watching, disturbances>>
  BY <1>1 DEF ClaimSpace, At, history, watching
<1>3. Claim(r) \in Claims /\ Claim(r).by = r
  BY DEF Claim, Claims
<1>4. /\ space' \in Spaces /\ space'.high = space.high /\ space'.expanded = space.expanded
      /\ space'.claim = Claim(r)
  BY <1>1, <1>2, <1>3 DEF Spaces
<1>5. x \in WorkerStates /\ x.at = "resolve" /\ x.high = space.high
  BY <1>1 DEF WorkerStates, Resolving
<1> HIDE DEF x
<1>6. disturbances' \in Nat
  BY <1>2, Disturbed DEF IndInv
<1>7. \A q \in Runtimes : q # r => ~ HeldBy(space'.claim, q)
  BY <1>3, <1>4 DEF HeldBy
<1> QED BY <1>1, <1>2, <1>4, <1>5, <1>6, <1>7, ExpansionSteps DEF Expansion

LEMMA ResolveInv ==
  ASSUME IndInv, NEW r \in Runtimes, Resolve(r)
  PROVE  IndInv'
<1> DEFINE x == worker[r]
<1>1. /\ r \in up /\ x.at = "resolve"
      /\ UNCHANGED <<space, wakes, acknowledged, ids, members, owed, recorded, watching>>
      /\ disturbances' \in Nat
  BY Disturbed DEF Resolve, At, tables, history, watching, IndInv
<1>2. x \in Resolving
  BY <1>1, Shapes DEF IndInv, TypeInv, ProcessType, WorkerStates
<1>3. space \in Spaces /\ x.high <= space.high
  BY <1>1 DEF IndInv, TypeInv, DatabaseType, Bounds, Works, Expansion
<1>4. HeldBy(space.claim, r) => space.expanded < x.high
  BY <1>1 DEF IndInv, SpaceClaimed
<1>5. ASSUME NEW y \in WorkerStates, Goto(r, y), y.at \in Expansion, y.high = x.high,
             y.at = "expand" => y.recipients = members
      PROVE  IndInv'
  <2>1. \A c \in Clients : owed[c] # 0 => c \in members
    BY DEF IndInv, Owed
  <2> HIDE DEF x
  <2> QED BY <1>1, <1>3, <1>4, <1>5, <2>1, ExpansionSteps DEF Expansion, x
<1>6. CASE Goto(r, [at |-> "expand", high |-> x.high, generation |-> x.generation + 1,
                    recipients |-> members])
  <2> DEFINE y == [at |-> "expand", high |-> x.high, generation |-> x.generation + 1,
                   recipients |-> members]
  <2>1. members \subseteq Clients
    BY DEF IndInv, TypeInv, HistoryType
  <2>2. y \in WorkerStates
    BY <1>2, <2>1 DEF Resolving, WorkerStates, Expanding
  <2>3. y.at = "expand" /\ y.high = x.high /\ y.recipients = members
    OBVIOUS
  <2> HIDE DEF x, y
  <2> QED BY <1>5, <1>6, <2>2, <2>3 DEF Expansion, y
<1>7. CASE Move(r, "releaseSpace")
  <2> DEFINE y == [x EXCEPT !.at = "releaseSpace"]
  <2>1. y \in WorkerStates /\ y.at = "releaseSpace" /\ y.high = x.high
    BY <1>2 DEF Resolving, WorkerStates
  <2> HIDE DEF y
  <2> QED BY <1>5, <1>7, <2>1 DEF Expansion, Move, y
<1> QED BY <1>6, <1>7 DEF Resolve

LEMMA ReleaseSpaceInv ==
  ASSUME IndInv, NEW r \in Runtimes, ReleaseSpace(r)
  PROVE  IndInv'
<1>1. /\ r \in up /\ worker[r].at = "releaseSpace" /\ Goto(r, Idle)
      /\ space' = IF HeldBy(space.claim, r) THEN [space EXCEPT !.claim = None] ELSE space
      /\ UNCHANGED <<wakes, acknowledged, ids, members, owed, recorded, watching, disturbances>>
  BY DEF ReleaseSpace, At, history, watching
<1>2. /\ space' \in Spaces /\ space'.high = space.high /\ space'.expanded = space.expanded
      /\ space'.claim # None => space'.claim = space.claim
      /\ ~ HeldBy(space'.claim, r)
  BY <1>1 DEF IndInv, TypeInv, DatabaseType, Spaces, HeldBy
<1>3. Idle \in WorkerStates /\ Idle.at = "idle"
  BY DEF Idle, WorkerStates, Resting
<1>4. \A q \in Runtimes : q # r => (HeldBy(space'.claim, q) => HeldBy(space.claim, q))
  BY <1>2 DEF HeldBy
<1>5. disturbances' \in Nat
  BY <1>1, Disturbed DEF IndInv
<1> QED BY <1>1, <1>2, <1>3, <1>4, <1>5, ExpansionSteps DEF Expansion

-----------------------------------------------------------------------------
(***************************************************************************)
(* An expansion: what becomes of the row of each client.                   *)
(***************************************************************************)
LEMMA Largest ==
  ASSUME NEW m \in Nat, NEW n \in Nat
  PROVE  Larger(m, n) \in Nat /\ Larger(m, n) >= m /\ Larger(m, n) >= n /\ Larger(m, n) \in {m, n}
  BY DEF Larger

LEMMA ExpandedRow ==
  ASSUME IndInv, NEW work \in Expanding, work.high <= space.high, NEW c \in Clients
  PROVE  LET new == Expanded(c, work)
             told == c \in work.recipients /\ acknowledged[c] < work.high
         IN /\ new \in WakeRows \cup {None}
            /\ ~ told => new = wakes[c]
            /\ told => new # None /\ new.generation = work.generation /\ new.high >= work.high
            /\ new # None =>
                 /\ new.high <= space.high /\ new.notified <= space.high
                 /\ new.id \in {ids + 1} \/ (Wake(c) /\ new.id = wakes[c].id)
                 /\ ~ Wake(c) => new.notified = 0 /\ new.claim = None
                 /\ Wake(c) => /\ new.notified = wakes[c].notified /\ new.claim = wakes[c].claim
                               /\ new.high >= wakes[c].high
                 /\ Wake(c) /\ wakes[c].notified < wakes[c].high => new.id = wakes[c].id
                 /\ Wake(c) /\ ~ (wakes[c].notified < wakes[c].high) /\ new # wakes[c] =>
                      new.id = ids + 1
<1> DEFINE id == ids + 1
           told == c \in work.recipients /\ acknowledged[c] < work.high
<1>1. /\ work.high \in Nat /\ work.generation \in Nat /\ space.high \in Nat /\ ids \in Nat
  BY DEF Expanding, IndInv, TypeInv, DatabaseType, HistoryType, Spaces
<1>2. CASE ~ told
  <2>1. Expanded(c, work) = wakes[c] /\ wakes[c] \in WakeRows \cup {None}
    BY <1>2 DEF Expanded, IndInv, TypeInv, DatabaseType
  <2>2. Wake(c) => wakes[c].high <= space.high /\ wakes[c].notified <= space.high
                   /\ wakes[c].high \in Nat
    BY RowShape DEF IndInv, Bounds
  <2> QED BY <1>2, <2>1, <2>2 DEF Wake
<1>3. CASE told /\ ~ Wake(c)
  <2> DEFINE new == [id |-> id, high |-> work.high, notified |-> 0,
                     generation |-> work.generation, claim |-> None]
  <2>1. Expanded(c, work) = new
    BY <1>3 DEF Expanded, Wake
  <2>2. new \in WakeRows
    BY <1>1 DEF WakeRows
  <2>3. /\ new.id = ids + 1 /\ new.high = work.high /\ new.notified = 0
        /\ new.generation = work.generation /\ new.claim = None
    OBVIOUS
  <2> HIDE DEF new
  <2> QED BY <1>1, <1>3, <2>1, <2>2, <2>3
<1>4. CASE told /\ Wake(c)
  <2> DEFINE row == wakes[c]
             next == IF row.notified < row.high THEN row.id ELSE id
             new == [row EXCEPT !.id = next, !.high = Larger(row.high, work.high),
                                !.generation = work.generation]
  <2>1. row \in WakeRows /\ row.id \in Nat /\ row.high \in Nat /\ row.notified \in Nat
    BY <1>4, RowShape DEF IndInv
  <2>2. Expanded(c, work) = new
    BY <1>4, <2>1 DEF Expanded, Wake, KeepsId, WakeRows
  <2>3. /\ Larger(row.high, work.high) \in Nat /\ Larger(row.high, work.high) >= row.high
        /\ Larger(row.high, work.high) >= work.high
        /\ Larger(row.high, work.high) \in {row.high, work.high}
    BY <1>1, <2>1, Largest
  <2>4. next \in Nat
    BY <1>1, <2>1
  <2>5. new \in WakeRows
    BY <1>1, <2>1, <2>3, <2>4 DEF WakeRows
  <2>6. /\ new.id = next /\ new.high = Larger(row.high, work.high)
        /\ new.notified = row.notified /\ new.generation = work.generation
        /\ new.claim = row.claim
    BY <2>1 DEF WakeRows
  <2>7. row.high <= space.high /\ row.notified <= space.high
    BY <1>4 DEF IndInv, Bounds
  <2> HIDE DEF new
  <2>8. new # None
    BY <2>5
  <2> QED BY <1>1, <1>4, <2>1, <2>2, <2>3, <2>5, <2>6, <2>7, <2>8
<1> QED BY <1>2, <1>3, <1>4

LEMMA ExpandInv ==
  ASSUME IndInv, NEW r \in Runtimes, Expand(r)
  PROVE  IndInv'
<1> DEFINE work == worker[r]
           told(c) == c \in work.recipients /\ acknowledged[c] < work.high
<1>1. /\ r \in up /\ work.at = "expand"
      /\ UNCHANGED <<acknowledged, members, owed, recorded, watching>>
  BY DEF Expand, At, history, watching
<1>2. /\ work \in Expanding /\ work.high \in Nat /\ work.generation \in Nat
  BY <1>1, Shapes DEF IndInv, TypeInv, ProcessType, WorkerStates, Expanding
<1>3. /\ space \in Spaces /\ space.high \in Nat /\ space.expanded \in Nat
      /\ work.high <= space.high
  BY <1>1 DEF IndInv, TypeInv, DatabaseType, Bounds, Works, Expansion, Spaces
<1>4. /\ Idle \in WorkerStates /\ Idle.at = "idle"
  BY DEF Idle, WorkerStates, Resting
<1>5. disturbances' \in Nat
  BY Disturbed DEF Expand, IndInv
<1>6. CASE /\ ~ HeldBy(space.claim, r) /\ Goto(r, Idle) /\ UNCHANGED <<space, wakes, ids>>
  BY <1>1, <1>3, <1>4, <1>5, <1>6, ExpansionSteps DEF Expansion
<1>7. CASE Move(r, "releaseSpace") /\ UNCHANGED <<space, wakes, ids>>
  <2> DEFINE y == [work EXCEPT !.at = "releaseSpace"]
  <2>1. y \in WorkerStates /\ y.at = "releaseSpace" /\ y.high = work.high
    BY <1>2 DEF Expanding, WorkerStates
  <2>2. HeldBy(space.claim, r) => space.expanded < work.high
    BY <1>1 DEF IndInv, SpaceClaimed
  <2>3. Goto(r, y)
    BY <1>7 DEF Move
  <2> HIDE DEF y, work
  <2> QED BY <1>1, <1>3, <1>5, <1>7, <2>1, <2>2, <2>3, ExpansionSteps DEF Expansion, work
<1>8. CASE /\ HeldBy(space.claim, r) /\ Goto(r, Idle)
           /\ wakes' = [c \in Clients |->
                LET new == Expanded(c, work)
                IN IF new # None /\ new.generation < work.generation THEN None ELSE new]
           /\ space' = [space EXCEPT !.expanded = Larger(@, work.high),
                                     !.generation = work.generation, !.claim = None]
           /\ ids' = IF \E c \in Clients : wakes'[c] # None /\ wakes'[c].id > ids
                     THEN ids + 1 ELSE ids
  <2>1. space.expanded < work.high
    BY <1>1, <1>8 DEF IndInv, SpaceClaimed
  <2>2. Larger(space.expanded, work.high) = work.high
    BY <1>2, <1>3, <2>1 DEF Larger
  <2>3. /\ space' \in Spaces /\ space'.high = space.high /\ space'.expanded = work.high
        /\ space'.claim = None
    BY <1>2, <1>3, <1>8, <2>2 DEF Spaces
  <2>4. /\ worker' \in [Runtimes -> WorkerStates] /\ worker'[r] = Idle
        /\ \A q \in Runtimes : q # r => worker'[q] = worker[q]
    BY <1>4, <1>8, Going DEF IndInv
  <2>5. ASSUME NEW c \in Clients
        PROVE  /\ wakes'[c] \in WakeRows \cup {None}
               /\ told(c) => Wake(c)' /\ wakes'[c].high >= work.high
               /\ Wake(c)' =>
                    /\ wakes'[c].high <= space.high /\ wakes'[c].notified <= space.high
                    /\ wakes'[c].id \in {ids + 1} \/ (Wake(c) /\ wakes'[c].id = wakes[c].id)
                    /\ ~ Wake(c) => wakes'[c].notified = 0 /\ wakes'[c].claim = None
                    /\ Wake(c) => /\ wakes'[c].notified = wakes[c].notified
                                  /\ wakes'[c].claim = wakes[c].claim
                                  /\ wakes'[c].high >= wakes[c].high
                    /\ Wake(c) /\ wakes[c].notified < wakes[c].high =>
                         wakes'[c].id = wakes[c].id
                    /\ Wake(c) /\ ~ (wakes[c].notified < wakes[c].high)
                         /\ wakes'[c] # wakes[c] => wakes'[c].id = ids + 1
    <3> DEFINE new == Expanded(c, work)
    <3>1. wakes'[c] = IF new # None /\ new.generation < work.generation THEN None ELSE new
      BY <1>8
    <3>2. ~ (work.generation < work.generation)
      BY <1>2
    <3> HIDE DEF work, new
    <3> QED BY <1>2, <1>3, <3>1, <3>2, ExpandedRow DEF Wake, new
  <2>6. wakes' \in [Clients -> WakeRows \cup {None}]
    BY <1>8, <2>5
  <2>7. /\ ids \in Nat /\ ids' \in {ids, ids + 1}
        /\ \A c \in Clients : Wake(c)' => wakes'[c].id <= ids'
    <3>1. ids \in Nat /\ ids' \in {ids, ids + 1}
      BY <1>8 DEF IndInv, TypeInv, HistoryType
    <3>2. ASSUME NEW c \in Clients, Wake(c)'
          PROVE  wakes'[c].id <= ids'
      <4>1. wakes'[c] \in WakeRows /\ wakes'[c].id \in Nat
        BY <2>6, <3>2 DEF Wake, WakeRows
      <4>2. CASE wakes'[c].id = ids + 1
        BY <1>8, <3>1, <3>2, <4>2 DEF Wake
      <4>3. CASE Wake(c) /\ wakes'[c].id = wakes[c].id
        BY <3>1, <4>1, <4>3 DEF IndInv, Identities
      <4> QED BY <2>5, <3>2, <4>2, <4>3
    <3> QED BY <3>1, <3>2
  <2>8. ProcessType' /\ PresenceInv'
    BY <1>1, <2>4, WatchingAlone
  <2>9. Offline'
    BY <1>1, <2>4, <2>5, WatchingAlone DEF Live, Wake
  <2>10. TypeInv'
    BY <1>1, <1>5, <2>3, <2>6, <2>7, <2>8
    DEF IndInv, TypeInv, DatabaseType, HistoryType, watching
  <2>11. up \subseteq Runtimes
    BY DEF IndInv, TypeInv, ProcessType
  <2>12. Bounds'
    <3>1. \A c \in Clients : /\ acknowledged[c] <= space.high /\ owed[c] <= space.high
                             /\ Wake(c)' => wakes'[c].high <= space.high
                                            /\ wakes'[c].notified <= space.high
      BY <2>5 DEF IndInv, Bounds
    <3>2. \A q \in Runtimes : q \in up /\ worker'[q].at \in Expansion \cup Delivery =>
                                worker'[q].high <= space.high
      BY <1>4, <2>4 DEF IndInv, Bounds, Works, Expansion, Delivery
    <3> QED BY <1>1, <1>3, <2>3, <3>1, <3>2 DEF Bounds, Works, watching
  <2>13. Identities'
    <3>1. \A c \in Clients : \A id \in recorded[c] : id \in Nat /\ id <= ids'
      BY <2>7 DEF IndInv, Identities, TypeInv, HistoryType
    <3>2. \A q \in Runtimes : q \in up /\ worker'[q].at \in Delivery =>
            worker'[q].id <= ids'
      <4> SUFFICES ASSUME NEW q \in Runtimes, q \in up, worker'[q].at \in Delivery
                   PROVE  worker'[q].id <= ids'
        OBVIOUS
      <4>1. q # r /\ worker'[q] = worker[q]
        BY <1>4, <2>4 DEF Delivery
      <4>2. worker[q].id \in Nat
        BY <4>1, Shapes DEF IndInv, TypeInv, ProcessType, WorkerStates, Delivering
      <4> QED BY <2>7, <4>1, <4>2 DEF IndInv, Identities, Works
    <3> QED BY <1>1, <2>7, <3>1, <3>2 DEF Identities, Works, watching
  <2>14. SpaceClaimed'
    BY <2>3 DEF SpaceClaimed, HeldBy
  <2>15. WakeClaimed'
    <3> SUFFICES ASSUME NEW c \in Clients, NEW q \in up, Wake(c)', HeldBy(wakes'[c].claim, q)
                 PROVE  /\ worker'[q].at \in Delivery /\ worker'[q].client = c
                        /\ worker'[q].id = wakes'[c].id /\ worker'[q].high <= wakes'[c].high
                        /\ wakes'[c].notified < wakes'[c].high
      BY <1>1 DEF WakeClaimed, watching
    <3>1. Wake(c) /\ wakes'[c].claim = wakes[c].claim
      BY <2>5 DEF HeldBy
    <3>2. q # r
      BY <1>1, <3>1, NoWake DEF Expansion
    <3>3. worker'[q] = worker[q]
      BY <2>4, <2>11, <3>2
    <3>4. /\ worker[q].at \in Delivery /\ worker[q].client = c
          /\ worker[q].id = wakes[c].id /\ worker[q].high <= wakes[c].high
          /\ wakes[c].notified < wakes[c].high
      BY <3>1 DEF IndInv, WakeClaimed
    <3>5. wakes[c].high \in Nat /\ wakes[c].notified \in Nat /\ wakes'[c].high \in Nat
          /\ worker[q].high \in Nat
      <4>1. worker[q].high \in Nat
        BY <2>11, <3>4, Shapes DEF IndInv, TypeInv, ProcessType, WorkerStates, Delivering
      <4>2. wakes'[c] \in WakeRows
        BY <2>6 DEF Wake
      <4> QED BY <3>1, <4>1, <4>2, RowShape DEF IndInv, WakeRows
    <3>6. /\ wakes'[c].high >= wakes[c].high /\ wakes'[c].id = wakes[c].id
          /\ wakes'[c].notified = wakes[c].notified
      BY <2>5, <3>1, <3>4
    <3> QED BY <3>3, <3>4, <3>5, <3>6
  <2>16. Owed'
    <3> SUFFICES ASSUME NEW c \in Clients, owed[c] # 0
                 PROVE  /\ c \in members /\ acknowledged[c] < owed[c]
                        /\ Wake(c)' => wakes'[c].notified < owed[c]
      BY <1>1 DEF Owed
    <3>1. owed[c] \in Nat
      BY DEF IndInv, TypeInv, HistoryType
    <3> QED BY <2>5, <3>1 DEF IndInv, Owed
  <2>17. NothingForgotten'
    <3> SUFFICES ASSUME NEW c \in Clients, owed[c] # 0, ~ (owed[c] > work.high)
                 PROVE  Wake(c)' /\ wakes'[c].notified < owed[c] /\ owed[c] <= wakes'[c].high
      BY <1>1, <2>3 DEF NothingForgotten
    <3>1. owed[c] \in Nat /\ acknowledged[c] \in Nat /\ owed[c] <= work.high
      BY <1>2 DEF IndInv, TypeInv, HistoryType, DatabaseType
    <3>2. told(c)
      BY <1>1, <1>2, <3>1 DEF IndInv, Found, Owed
    <3>3. Wake(c)' /\ wakes'[c].high >= work.high
      BY <2>5, <3>2
    <3>4. wakes'[c].notified < owed[c]
      BY <1>1, <2>16, <3>3 DEF Owed
    <3>5. wakes'[c].high \in Nat
      BY <2>6, <3>3 DEF Wake, WakeRows
    <3> QED BY <1>2, <3>1, <3>3, <3>4, <3>5
  <2>18. Found'
    <3>1. ASSUME NEW q \in up
          PROVE  /\ worker'[q].at = "expand" =>
                      \A c \in Clients : owed[c] # 0 /\ owed[c] <= worker'[q].high =>
                                           c \in worker'[q].recipients
                 /\ worker'[q].at \in {"delivered", "notRecipient"} =>
                      owed[worker'[q].client] = 0 \/ owed[worker'[q].client] > worker'[q].high
      <4>1. CASE q = r
        BY <1>4, <2>4, <4>1
      <4>2. CASE q # r
        BY <2>4, <2>11, <4>2 DEF IndInv, Found
      <4> QED BY <4>1, <4>2
    <3> QED BY <1>1, <3>1 DEF Found, watching
  <2>19. FreshWorkHasFreshIdentity'
    <3> SUFFICES ASSUME NEW c \in Clients, Wake(c)', wakes'[c].notified < wakes'[c].high
                 PROVE  wakes'[c].id \notin recorded[c]
      BY <1>1 DEF FreshWorkHasFreshIdentity, Wake
    <3>1. ids + 1 \notin recorded[c]
      BY <2>7 DEF IndInv, Identities, TypeInv, HistoryType
    <3>2. CASE Wake(c) /\ wakes[c].notified < wakes[c].high
      BY <2>5, <3>2 DEF IndInv, FreshWorkHasFreshIdentity, Wake
    <3>3. CASE ~ Wake(c) \/ ~ (wakes[c].notified < wakes[c].high)
      BY <2>5, <3>1, <3>3
    <3> QED BY <3>2, <3>3
  <2> QED BY <2>8, <2>9, <2>10, <2>12, <2>13, <2>14, <2>15, <2>16, <2>17, <2>18, <2>19 DEF IndInv
<1> QED BY <1>6, <1>7, <1>8 DEF Expand

-----------------------------------------------------------------------------
(***************************************************************************)
(* A worker delivers a wake.  Until it records an outcome, wakes stay as   *)
(* they are.                                                               *)
(***************************************************************************)
LEMMA Delivers ==
  ASSUME TypeInv, NEW r \in Runtimes, worker[r].at \in Delivery
  PROVE  /\ worker[r] \in Delivering /\ worker[r].client \in Clients
         /\ worker[r].id \in Nat /\ worker[r].high \in Nat
  BY Shapes DEF TypeInv, ProcessType, WorkerStates, Delivering

LEMMA OwnClaim ==
  ASSUME IndInv, NEW r \in up, worker[r].at \in Delivery, NEW c \in Clients, Wake(c),
         HeldBy(wakes[c].claim, r)
  PROVE  c = worker[r].client /\ Holds(r)
  BY DEF IndInv, WakeClaimed, Holds, Wake

LEMMA DeliveryMoves ==
  ASSUME IndInv, NEW r \in up, worker[r].at \in Delivery, NEW x \in WorkerStates, Goto(r, x),
         x.at \in {"idle"} \cup Delivery,
         x.at \in Delivery => x.client = worker[r].client /\ x.id = worker[r].id
                              /\ x.high = worker[r].high,
         x.at = "idle" => ~ Holds(r),
         UNCHANGED <<space, wakes, acknowledged, ids, members, recorded, watching>>,
         owed' \in [Clients -> Nat], \A c \in Clients : owed'[c] \in {0, owed[c]},
         x.at \in {"delivered", "notRecipient"} => owed'[x.client] = 0 \/ owed'[x.client] > x.high,
         disturbances' \in Nat
  PROVE  IndInv'
<1>1. r \in Runtimes /\ up \subseteq Runtimes
  BY DEF IndInv, TypeInv, ProcessType
<1>2. /\ worker' \in [Runtimes -> WorkerStates] /\ worker'[r] = x
      /\ \A q \in Runtimes : q # r => worker'[q] = worker[q]
  BY <1>1, Going DEF IndInv
<1>3. ProcessType' /\ PresenceInv' /\ Offline'
  BY <1>2, WatchingAlone DEF Wake
<1>4. TypeInv'
  BY <1>3 DEF IndInv, TypeInv, DatabaseType, HistoryType, watching
<1>5. \A q \in up : worker'[q].at \in Expansion \cup Delivery =>
        /\ worker'[q].high = worker[q].high
        /\ worker[q].at \in Expansion \cup Delivery
        /\ worker'[q].at \in Delivery => worker[q].at \in Delivery /\ worker'[q].id = worker[q].id
  BY <1>1, <1>2 DEF Expansion, Delivery
<1>6. Bounds'
  <2>1. \A c \in Clients : owed'[c] <= space.high
    BY DEF IndInv, Bounds, TypeInv, DatabaseType, Spaces
  <2> QED BY <1>5, <2>1 DEF IndInv, Bounds, Wake, Works, watching
<1>7. Identities'
  BY <1>5 DEF IndInv, Identities, Wake, Works, watching
<1>8. SpaceClaimed'
  <2> SUFFICES ASSUME NEW q \in up, HeldBy(space.claim, q)
               PROVE  worker'[q] = worker[q]
    BY DEF IndInv, SpaceClaimed, watching
  <2> QED BY <1>1, <1>2, NoSpace
<1>9. WakeClaimed'
  <2> SUFFICES ASSUME NEW c \in Clients, NEW q \in up, Wake(c), HeldBy(wakes[c].claim, q)
               PROVE  /\ worker'[q].at \in Delivery /\ worker'[q].client = worker[q].client
                      /\ worker'[q].id = worker[q].id /\ worker'[q].high = worker[q].high
    BY DEF IndInv, WakeClaimed, watching, Wake
  <2>1. CASE q = r
    BY <1>2, <2>1, OwnClaim
  <2>2. CASE q # r
    BY <1>1, <1>2, <2>2 DEF IndInv, WakeClaimed
  <2> QED BY <2>1, <2>2
<1>10. Owed' /\ NothingForgotten' /\ FreshWorkHasFreshIdentity'
  BY DEF IndInv, Owed, NothingForgotten, FreshWorkHasFreshIdentity, Wake
<1>11. Found'
  <2>1. ASSUME NEW q \in up
        PROVE  /\ worker'[q].at = "expand" =>
                    \A c \in Clients : owed'[c] # 0 /\ owed'[c] <= worker'[q].high =>
                                         c \in worker'[q].recipients
               /\ worker'[q].at \in {"delivered", "notRecipient"} =>
                    owed'[worker'[q].client] = 0 \/ owed'[worker'[q].client] > worker'[q].high
    <3>1. CASE q = r
      BY <1>2, <3>1 DEF Delivery
    <3>2. CASE q # r
      <4>1. worker'[q] = worker[q]
        BY <1>1, <1>2, <3>2
      <4>2. worker[q].at \in {"delivered", "notRecipient"} => worker[q].client \in Clients
        BY <1>1, Delivers DEF IndInv, Delivery
      <4> QED BY <4>1, <4>2 DEF IndInv, Found
    <3> QED BY <3>1, <3>2
  <2> QED BY <2>1 DEF Found, watching
<1> QED BY <1>3, <1>4, <1>6, <1>7, <1>8, <1>9, <1>10, <1>11 DEF IndInv

LEMMA AfterMove ==
  ASSUME TypeInv, NEW r \in Runtimes, worker[r].at \in Delivery, NEW step \in Delivery,
         Move(r, step)
  PROVE  \E x \in WorkerStates :
           /\ Goto(r, x) /\ x.at = step
           /\ x.client = worker[r].client /\ x.id = worker[r].id /\ x.high = worker[r].high
<1> DEFINE x == [worker[r] EXCEPT !.at = step]
<1>1. /\ x \in Delivering /\ x.at = step
      /\ x.client = worker[r].client /\ x.id = worker[r].id /\ x.high = worker[r].high
  BY Delivers, Moved
<1>2. Goto(r, x)
  BY DEF Move
<1> HIDE DEF x
<1> QED BY <1>1, <1>2 DEF WorkerStates

LEMMA CheckInv ==
  ASSUME IndInv, NEW r \in Runtimes, Check(r)
  PROVE  IndInv'
<1>1. /\ r \in up /\ worker[r].at \in Delivery
      /\ UNCHANGED <<space, wakes, acknowledged, ids, members, owed, recorded, watching,
                     disturbances>>
  BY DEF Check, At, Delivery, tables, history, watching
<1>2. PICK step \in {"send", "release"} : Move(r, step)
  BY DEF Check
<1>3. PICK x \in WorkerStates :
         /\ Goto(r, x) /\ x.at = step
         /\ x.client = worker[r].client /\ x.id = worker[r].id /\ x.high = worker[r].high
  BY <1>1, <1>2, AfterMove DEF IndInv, Delivery
<1>4. owed' \in [Clients -> Nat] /\ disturbances' \in Nat
  BY <1>1, Disturbed DEF IndInv, TypeInv, HistoryType
<1> QED BY <1>1, <1>3, <1>4, DeliveryMoves DEF Delivery

LEMMA SendInv ==
  ASSUME IndInv, NEW r \in Runtimes, Send(r)
  PROVE  IndInv'
<1> DEFINE c == worker[r].client
           sends == owed' = [owed EXCEPT ![c] = 0]
<1>1. /\ r \in up /\ worker[r].at \in Delivery
      /\ UNCHANGED <<space, wakes, acknowledged, ids, members, recorded, watching>>
      /\ disturbances' \in Nat
  BY Disturbed DEF Send, At, Delivery, tables, watching, IndInv
<1>2. c \in Clients /\ worker[r].high \in Nat
  BY <1>1, Delivers DEF IndInv
<1>3. owed \in [Clients -> Nat]
  BY DEF IndInv, TypeInv, HistoryType
<1>4. ASSUME NEW step \in Delivery, Move(r, step), sends \/ UNCHANGED owed,
             step \in {"delivered", "notRecipient"} => owed'[c] = 0
      PROVE  IndInv'
  <2>1. PICK x \in WorkerStates :
           /\ Goto(r, x) /\ x.at = step
           /\ x.client = worker[r].client /\ x.id = worker[r].id /\ x.high = worker[r].high
    BY <1>1, <1>4, AfterMove DEF IndInv
  <2>2. owed' \in [Clients -> Nat] /\ \A d \in Clients : owed'[d] \in {0, owed[d]}
    BY <1>2, <1>3, <1>4
  <2> QED BY <1>1, <1>4, <2>1, <2>2, DeliveryMoves DEF Delivery
<1>5. CASE c \in members /\ sends /\ Move(r, "delivered")
  BY <1>2, <1>3, <1>4, <1>5 DEF Delivery
<1>6. CASE c \notin members /\ Move(r, "notRecipient") /\ UNCHANGED owed
  <2>1. owed[c] = 0
    BY <1>2, <1>6 DEF IndInv, Owed
  <2> QED BY <1>4, <1>6, <2>1 DEF Delivery
<1>7. CASE Move(r, "release") /\ (sends \/ UNCHANGED owed)
  BY <1>4, <1>7 DEF Delivery
<1> QED BY <1>5, <1>6, <1>7 DEF Send

\* The outcome of a delivery cannot be recorded, or is not the worker's any more.
LEMMA Unrecorded ==
  ASSUME IndInv, NEW r \in up, worker[r].at \in Delivery,
         (Goto(r, Idle) /\ ~ Holds(r)) \/ Move(r, "release"),
         UNCHANGED <<space, wakes, acknowledged, ids, members, owed, recorded, watching>>,
         disturbances' \in Nat
  PROVE  IndInv'
<1>1. r \in Runtimes /\ owed' \in [Clients -> Nat]
  BY DEF IndInv, TypeInv, HistoryType, ProcessType
<1>2. CASE Goto(r, Idle) /\ ~ Holds(r)
  <2>1. Idle \in WorkerStates /\ Idle.at = "idle"
    BY DEF Idle, WorkerStates, Resting
  <2> QED BY <1>1, <1>2, <2>1, DeliveryMoves DEF Delivery
<1>3. CASE Move(r, "release")
  <2>1. PICK x \in WorkerStates :
           /\ Goto(r, x) /\ x.at = "release"
           /\ x.client = worker[r].client /\ x.id = worker[r].id /\ x.high = worker[r].high
    BY <1>1, <1>3, AfterMove DEF IndInv, Delivery
  <2> QED BY <1>1, <2>1, DeliveryMoves DEF Delivery
<1> QED BY <1>2, <1>3

-----------------------------------------------------------------------------
(***************************************************************************)
(* A worker that still holds its claim gives it back, with what is left to *)
(* be told.                                                                *)
(***************************************************************************)
LEMMA Settles ==
  ASSUME IndInv, NEW r \in up, worker[r].at \in Delivery, NEW c \in Clients, Holds(r),
         c = worker[r].client, Goto(r, Idle),
         NEW row \in WakeRows \cup {None}, wakes' = [wakes EXCEPT ![c] = row],
         ids' \in Nat, ids <= ids',
         recorded' \in [Clients -> SUBSET Nat],
         \A d \in Clients : d # c => recorded'[d] = recorded[d],
         \A id \in recorded'[c] : id <= ids',
         UNCHANGED <<space, acknowledged, members, owed, watching, disturbances>>,
         row = None => (owed[c] # 0 => owed[c] > wakes[c].high),
         row # None => /\ row.claim = None /\ row.high = wakes[c].high /\ row.id <= ids'
                       /\ row.notified <= space.high
                       /\ owed[c] # 0 => row.notified < owed[c]
                       /\ row.notified < row.high => row.id \notin recorded'[c]
  PROVE  IndInv'
<1>1. r \in Runtimes /\ up \subseteq Runtimes
  BY DEF IndInv, TypeInv, ProcessType
<1>2. Idle \in WorkerStates /\ Idle.at = "idle"
  BY DEF Idle, WorkerStates, Resting
<1>3. /\ worker' \in [Runtimes -> WorkerStates] /\ worker'[r] = Idle
      /\ \A q \in Runtimes : q # r => worker'[q] = worker[q]
  BY <1>1, <1>2, Going DEF IndInv
<1>4. /\ wakes' \in [Clients -> WakeRows \cup {None}] /\ wakes'[c] = row
      /\ \A d \in Clients : d # c => wakes'[d] = wakes[d]
  BY DEF IndInv, TypeInv, DatabaseType
<1>5. /\ Wake(c) /\ HeldBy(wakes[c].claim, r)
      /\ wakes[c].high \in Nat /\ wakes[c].high <= space.high
  BY RowShape DEF Holds, Wake, IndInv, Bounds
<1>6. ProcessType' /\ PresenceInv'
  BY <1>3, WatchingAlone
<1>7. \A d \in Clients : Wake(d)' /\ Live(wakes'[d].claim) => d # c /\ Wake(d) /\ Live(wakes[d].claim)
  BY <1>4 DEF Wake, Live
<1>8. Offline'
  BY <1>3, <1>7, WatchingAlone
<1>9. TypeInv'
  BY <1>4, <1>6 DEF IndInv, TypeInv, DatabaseType, HistoryType, watching
<1>10. \A q \in up : worker'[q].at # "idle" => q # r /\ worker'[q] = worker[q]
  BY <1>1, <1>2, <1>3
<1>11. Bounds'
  <2>1. \A d \in Clients : Wake(d)' => wakes'[d].high <= space.high /\ wakes'[d].notified <= space.high
    BY <1>4, <1>5 DEF IndInv, Bounds, Wake
  <2> QED BY <1>10, <2>1 DEF IndInv, Bounds, Works, watching, Expansion, Delivery
<1>12. Identities'
  <2>1. ids \in Nat
    BY DEF IndInv, TypeInv, HistoryType
  <2>2. ASSUME NEW d \in Clients
        PROVE  /\ \A id \in recorded'[d] : id <= ids'
               /\ Wake(d)' => wakes'[d].id <= ids'
    <3>1. CASE d = c
      BY <1>4, <3>1 DEF Wake
    <3>2. CASE d # c
      <4>1. \A id \in recorded[d] : id \in Nat /\ id <= ids
        BY DEF IndInv, Identities, TypeInv, HistoryType
      <4>2. Wake(d) => wakes[d].id \in Nat /\ wakes[d].id <= ids
        BY RowShape DEF IndInv, Identities
      <4> QED BY <1>4, <2>1, <3>2, <4>1, <4>2 DEF Wake
    <3> QED BY <3>1, <3>2
  <2>3. ASSUME NEW q \in up, worker'[q].at \in Delivery
        PROVE  worker'[q].id <= ids'
    <3>1. worker'[q] = worker[q]
      BY <1>10, <2>3 DEF Delivery
    <3>2. worker[q].id \in Nat /\ worker[q].id <= ids
      BY <1>1, <2>3, <3>1, Delivers DEF IndInv, Identities, Works
    <3> QED BY <2>1, <3>1, <3>2
  <2> QED BY <2>2, <2>3 DEF Identities, Works, watching
<1>13. SpaceClaimed'
  <2> SUFFICES ASSUME NEW q \in up, HeldBy(space.claim, q)
               PROVE  worker'[q] = worker[q]
    BY DEF IndInv, SpaceClaimed, watching
  <2> QED BY <1>1, <1>3, NoSpace
<1>14. WakeClaimed'
  <2> SUFFICES ASSUME NEW d \in Clients, NEW q \in up, Wake(d)', HeldBy(wakes'[d].claim, q)
               PROVE  /\ d # c /\ worker'[q] = worker[q] /\ Wake(d) /\ HeldBy(wakes[d].claim, q)
                      /\ wakes'[d] = wakes[d]
    BY DEF IndInv, WakeClaimed, watching
  <2>1. d # c
    BY <1>4 DEF HeldBy, Wake
  <2>2. wakes'[d] = wakes[d] /\ Wake(d)
    BY <1>4, <2>1 DEF Wake
  <2>3. q # r
    BY <2>1, <2>2, OwnClaim
  <2> QED BY <1>1, <1>3, <2>1, <2>2, <2>3
<1>15. Owed'
  BY <1>4 DEF IndInv, Owed, Wake
<1>16. NothingForgotten'
  <2> SUFFICES ASSUME NEW d \in Clients, owed[d] # 0, ~ (owed[d] > space.expanded)
               PROVE  Wake(d)' /\ wakes'[d].notified < owed[d] /\ owed[d] <= wakes'[d].high
    BY DEF NothingForgotten
  <2>1. Wake(d) /\ wakes[d].notified < owed[d] /\ owed[d] <= wakes[d].high
    BY DEF IndInv, NothingForgotten
  <2>2. owed[d] \in Nat
    BY DEF IndInv, TypeInv, HistoryType
  <2>3. CASE d = c
    BY <1>4, <1>5, <2>1, <2>2, <2>3 DEF Wake
  <2>4. CASE d # c
    BY <1>4, <2>1, <2>4 DEF Wake
  <2> QED BY <2>3, <2>4
<1>17. Found'
  BY <1>10 DEF IndInv, Found, watching
<1>18. FreshWorkHasFreshIdentity'
  BY <1>4 DEF IndInv, FreshWorkHasFreshIdentity
<1> QED BY <1>6, <1>8, <1>9, <1>11, <1>12, <1>13, <1>14, <1>15, <1>16, <1>17, <1>18 DEF IndInv

\* What a worker that holds its claim knows of the wake.
LEMMA Held ==
  ASSUME IndInv, NEW r \in up, worker[r].at \in Delivery, Holds(r)
  PROVE  LET c == worker[r].client
         IN /\ c \in Clients /\ Wake(c) /\ wakes[c] \in WakeRows
            /\ wakes[c].high \in Nat /\ wakes[c].notified \in Nat /\ wakes[c].id \in Nat
            /\ worker[r].high \in Nat
            /\ worker[r].id = wakes[c].id /\ worker[r].high <= wakes[c].high
            /\ wakes[c].notified < wakes[c].high
            /\ wakes[c].high <= space.high /\ wakes[c].id <= ids
            /\ wakes[c].id \notin recorded[c]
            /\ owed[c] # 0 => wakes[c].notified < owed[c]
<1>1. r \in Runtimes
  BY DEF IndInv, TypeInv, ProcessType
<1>2. worker[r].client \in Clients /\ worker[r].high \in Nat
  BY <1>1, Delivers DEF IndInv
<1>3. Wake(worker[r].client) /\ HeldBy(wakes[worker[r].client].claim, r)
  BY DEF Holds, Wake
<1>4. TypeInv
  BY DEF IndInv
<1>5. /\ worker[r].id = wakes[worker[r].client].id
      /\ worker[r].high <= wakes[worker[r].client].high
      /\ wakes[worker[r].client].notified < wakes[worker[r].client].high
  BY <1>2, <1>3 DEF IndInv, WakeClaimed
<1> QED BY <1>2, <1>3, <1>4, <1>5, RowShape
    DEF IndInv, Bounds, Identities, FreshWorkHasFreshIdentity, Owed, Wake

\* Renewed, with the claim given back.
LEMMA RenewedRow ==
  ASSUME NEW row \in WakeRows, NEW high \in Nat, ids \in Nat
  PROVE  LET new == Renewed(row, high)
         IN /\ new \in WakeRows
            /\ new.claim = None /\ new.high = row.high /\ new.notified = row.notified
            /\ new.id = IF row.high > high THEN ids + 1 ELSE row.id
<1> DEFINE next == IF row.high > high THEN ids + 1 ELSE row.id
<1>1. next \in Nat
  BY DEF WakeRows
<1>2. Renewed(row, high) = [row EXCEPT !.id = next, !.claim = None]
  BY DEF Renewed
<1> HIDE DEF next
<1>3. LET new == [row EXCEPT !.id = next, !.claim = None]
      IN /\ new \in WakeRows
         /\ new.claim = None /\ new.high = row.high /\ new.notified = row.notified
         /\ new.id = next
  BY <1>1 DEF WakeRows
<1> QED BY <1>2, <1>3 DEF next

LEMMA RecordDeliveredInv ==
  ASSUME IndInv, NEW r \in Runtimes, RecordDelivered(r)
  PROVE  IndInv'
<1> DEFINE c == worker[r].client
           high == worker[r].high
           base == Renewed(wakes[c], high)
           row == [base EXCEPT !.notified = Larger(base.notified, high)]
<1>1. /\ r \in up /\ worker[r].at = "delivered"
      /\ UNCHANGED <<space, acknowledged, members, owed, watching>>
  BY DEF RecordDelivered, At, watching
<1>2. disturbances' \in Nat
  BY Disturbed DEF RecordDelivered, IndInv
<1>3. worker[r].at \in Delivery
  BY <1>1 DEF Delivery
<1>4. CASE /\ (Goto(r, Idle) /\ ~ Holds(r)) \/ Move(r, "release")
           /\ UNCHANGED <<wakes, ids, recorded>>
  BY <1>1, <1>2, <1>3, <1>4, Unrecorded
<1>5. CASE /\ Holds(r) /\ Goto(r, Idle) /\ UNCHANGED disturbances
           /\ wakes' = [wakes EXCEPT ![c] = Told(@, high)]
           /\ ids' = IF wakes[c].high > high THEN ids + 1 ELSE ids
           /\ recorded' = [recorded EXCEPT ![c] = @ \cup {worker[r].id}]
  <2>1. /\ c \in Clients /\ Wake(c) /\ wakes[c] \in WakeRows
        /\ wakes[c].high \in Nat /\ wakes[c].notified \in Nat /\ wakes[c].id \in Nat
        /\ high \in Nat /\ high <= wakes[c].high
        /\ worker[r].id = wakes[c].id /\ wakes[c].notified < wakes[c].high
        /\ wakes[c].high <= space.high /\ wakes[c].id <= ids
        /\ owed[c] # 0 => wakes[c].notified < owed[c]
    BY <1>1, <1>3, <1>5, Held
  <2>2. ids \in Nat /\ recorded \in [Clients -> SUBSET Nat] /\ space.high \in Nat
        /\ owed \in [Clients -> Nat] /\ wakes \in [Clients -> WakeRows \cup {None}]
    BY DEF IndInv, TypeInv, HistoryType, DatabaseType, Spaces
  <2>3. /\ base \in WakeRows
        /\ base.claim = None /\ base.high = wakes[c].high /\ base.notified = wakes[c].notified
        /\ base.id = IF wakes[c].high > high THEN ids + 1 ELSE wakes[c].id
    BY <2>1, <2>2, RenewedRow
  <2>4. wakes' = [wakes EXCEPT ![c] = row]
    BY <1>5 DEF Told
  <2> HIDE DEF base
  <2>5. /\ Larger(base.notified, high) \in Nat /\ Larger(base.notified, high) >= high
        /\ Larger(base.notified, high) \in {base.notified, high}
    BY <2>1, <2>3, Largest
  <2>6. /\ row \in WakeRows /\ row.claim = None /\ row.high = wakes[c].high /\ row.id = base.id
        /\ row.notified = Larger(base.notified, high)
    BY <2>3, <2>5 DEF WakeRows
  <2> HIDE DEF row
  <2>7. /\ recorded' \in [Clients -> SUBSET Nat]
        /\ \A d \in Clients : d # c => recorded'[d] = recorded[d]
        /\ recorded'[c] = recorded[c] \cup {wakes[c].id}
    BY <1>5, <2>1, <2>2
  <2>8. ids' \in Nat /\ ids <= ids'
    BY <1>5, <2>2
  <2>9. \A id \in recorded[c] : id \in Nat /\ id <= ids
    BY <2>1, <2>2 DEF IndInv, Identities
  <2>10. \A id \in recorded'[c] : id <= ids'
    BY <2>1, <2>2, <2>7, <2>8, <2>9
  <2>11. owed[c] # 0 => owed[c] > high
    BY <1>1, <2>1 DEF IndInv, Found
  <2>12. row.notified <= space.high /\ (owed[c] # 0 => row.notified < owed[c])
    BY <2>1, <2>2, <2>3, <2>5, <2>6, <2>11
  <2>13. row.id <= ids' /\ (row.notified < row.high => row.id \notin recorded'[c])
    <3>1. CASE wakes[c].high > high
      <4>1. row.id = ids + 1 /\ ids' = ids + 1
        BY <1>5, <2>3, <2>6, <3>1
      <4> QED BY <2>1, <2>2, <2>7, <2>9, <4>1
    <3>2. CASE ~ (wakes[c].high > high)
      BY <1>5, <2>1, <2>2, <2>3, <2>5, <2>6, <3>2
    <3> QED BY <3>1, <3>2
  <2>14. c = worker[r].client /\ Holds(r) /\ Goto(r, Idle) /\ UNCHANGED disturbances
    BY <1>5
  <2>15. row # None /\ c \in Clients
    BY <2>1, <2>6
  <2>16. owed[c] # 0 => row.notified < owed[c]
    BY <2>12
  <2>17. row.notified <= space.high
    BY <2>12
  <2> HIDE DEF c, high
  <2> QED BY <1>1, <1>3, <2>4, <2>6, <2>7, <2>8, <2>10, <2>13, <2>14, <2>15, <2>16,
            <2>17, Settles
<1> QED BY <1>4, <1>5 DEF RecordDelivered

LEMMA RecordNotRecipientInv ==
  ASSUME IndInv, NEW r \in Runtimes, RecordNotRecipient(r)
  PROVE  IndInv'
<1> DEFINE c == worker[r].client
           high == worker[r].high
           row == IF wakes[c].high > high THEN Renewed(wakes[c], high) ELSE None
<1>1. /\ r \in up /\ worker[r].at = "notRecipient"
      /\ UNCHANGED <<space, acknowledged, members, owed, recorded, watching>>
  BY DEF RecordNotRecipient, At, history, watching
<1>2. disturbances' \in Nat
  BY Disturbed DEF RecordNotRecipient, IndInv
<1>3. worker[r].at \in Delivery
  BY <1>1 DEF Delivery
<1>4. CASE /\ (Goto(r, Idle) /\ ~ Holds(r)) \/ Move(r, "release")
           /\ UNCHANGED <<wakes, ids>>
  BY <1>1, <1>2, <1>3, <1>4, Unrecorded
<1>5. CASE /\ Holds(r) /\ Goto(r, Idle) /\ UNCHANGED disturbances
           /\ wakes' = [wakes EXCEPT ![c] = IF wakes[c].high > high THEN Renewed(@, high) ELSE None]
           /\ ids' = IF wakes[c].high > high THEN ids + 1 ELSE ids
  <2>1. /\ c \in Clients /\ Wake(c) /\ wakes[c] \in WakeRows
        /\ wakes[c].high \in Nat /\ wakes[c].notified \in Nat /\ wakes[c].id \in Nat
        /\ high \in Nat /\ high <= wakes[c].high
        /\ wakes[c].notified < wakes[c].high /\ wakes[c].high <= space.high
        /\ owed[c] # 0 => wakes[c].notified < owed[c]
    BY <1>1, <1>3, <1>5, Held
  <2>2. ids \in Nat /\ recorded \in [Clients -> SUBSET Nat] /\ space.high \in Nat
        /\ owed \in [Clients -> Nat] /\ wakes \in [Clients -> WakeRows \cup {None}]
    BY DEF IndInv, TypeInv, HistoryType, DatabaseType, Spaces
  <2>3. wakes' = [wakes EXCEPT ![c] = row]
    BY <1>5, <2>1, <2>2
  <2>4. ids' \in Nat /\ ids <= ids' /\ recorded' = recorded
    BY <1>1, <1>5, <2>2
  <2>5. \A id \in recorded[c] : id \in Nat /\ id <= ids
    BY <2>1, <2>2 DEF IndInv, Identities
  <2>6. \A id \in recorded'[c] : id <= ids'
    BY <2>2, <2>4, <2>5
  <2>7. owed[c] # 0 => owed[c] > high
    BY <1>1, <2>1 DEF IndInv, Found
  <2>8. CASE wakes[c].high > high
    <3>1. /\ row \in WakeRows /\ row.claim = None /\ row.high = wakes[c].high
          /\ row.notified = wakes[c].notified /\ row.id = ids + 1
      BY <2>1, <2>2, <2>8, RenewedRow
    <3>2. ids' = ids + 1
      BY <1>5, <2>8
    <3> HIDE DEF row
    <3>3. row.notified <= space.high /\ row.id <= ids' /\ row.id \notin recorded'[c]
      BY <2>1, <2>2, <2>4, <2>5, <3>1, <3>2
    <3> QED BY <1>1, <1>3, <1>5, <2>1, <2>2, <2>3, <2>4, <2>6, <3>1, <3>3, Settles
  <2>9. CASE ~ (wakes[c].high > high)
    <3>1. row = None
      BY <2>9
    <3>2. owed[c] # 0 => owed[c] > wakes[c].high
      BY <2>1, <2>2, <2>7, <2>9
    <3> HIDE DEF row
    <3> QED BY <1>1, <1>3, <1>5, <2>1, <2>2, <2>3, <2>4, <2>6, <3>1, <3>2, Settles
  <2> QED BY <2>8, <2>9
<1> QED BY <1>4, <1>5 DEF RecordNotRecipient

LEMMA ReleaseInv ==
  ASSUME IndInv, NEW r \in Runtimes, Release(r)
  PROVE  IndInv'
<1> DEFINE c == worker[r].client
           row == [wakes[c] EXCEPT !.claim = None]
<1>1. /\ r \in up /\ worker[r].at \in Delivery /\ Goto(r, Idle)
      /\ UNCHANGED <<space, acknowledged, ids, members, owed, recorded, watching, disturbances>>
  BY DEF Release, At, Delivery, history, watching
<1>2. CASE ~ Holds(r)
  <2>1. wakes' = wakes
    BY <1>2 DEF Release
  <2>2. disturbances' \in Nat
    BY <1>1, Disturbed DEF IndInv
  <2> QED BY <1>1, <1>2, <2>1, <2>2, Unrecorded
<1>3. CASE Holds(r)
  <2>1. /\ c \in Clients /\ Wake(c) /\ wakes[c] \in WakeRows
        /\ wakes[c].high \in Nat /\ wakes[c].notified \in Nat
        /\ wakes[c].notified < wakes[c].high /\ wakes[c].high <= space.high
        /\ wakes[c].id <= ids /\ wakes[c].id \notin recorded[c]
        /\ owed[c] # 0 => wakes[c].notified < owed[c]
    BY <1>1, <1>3, Held
  <2>2. /\ ids \in Nat /\ recorded \in [Clients -> SUBSET Nat] /\ space.high \in Nat
        /\ wakes \in [Clients -> WakeRows \cup {None}]
    BY DEF IndInv, TypeInv, HistoryType, DatabaseType, Spaces
  <2>3. wakes' = [wakes EXCEPT ![c] = row]
    BY <1>3, <2>1, <2>2 DEF Release
  <2>4. /\ row \in WakeRows /\ row # None /\ row.claim = None /\ row.high = wakes[c].high
        /\ row.notified = wakes[c].notified /\ row.id = wakes[c].id
    BY <2>1, Reclaimed
  <2> HIDE DEF row
  <2>5. \A id \in recorded'[c] : id <= ids'
    BY <1>1, <2>1 DEF IndInv, Identities
  <2>6. row.notified <= space.high
    BY <2>1, <2>2, <2>4
  <2>7. row.notified < row.high => row.id \notin recorded'[c]
    BY <1>1, <2>1, <2>4
  <2>8. row.id <= ids' /\ ids' \in Nat /\ ids <= ids'
    BY <1>1, <2>1, <2>2, <2>4
  <2>9. recorded' \in [Clients -> SUBSET Nat] /\ \A d \in Clients : d # c => recorded'[d] = recorded[d]
    BY <1>1, <2>2
  <2>10. c = worker[r].client
    OBVIOUS
  <2>11. owed[c] # 0 => row.notified < owed[c]
    BY <2>1, <2>4
  <2> HIDE DEF c
  <2> QED BY <1>1, <1>3, <2>1, <2>3, <2>4, <2>5, <2>6, <2>7, <2>8, <2>9, <2>10, <2>11, Settles
<1> QED BY <1>2, <1>3

-----------------------------------------------------------------------------
(***************************************************************************)
(* claimClients: the client has no watch whose lease lives, and none can   *)
(* register as long as the claim does.                                     *)
(***************************************************************************)
LEMMA ClaimWakeInv ==
  ASSUME IndInv, NEW r \in Runtimes, ClaimWake(r)
  PROVE  IndInv'
<1>1. PICK c \in Clients :
        /\ Wake(c) /\ wakes[c].high > wakes[c].notified
        /\ ~ Live(wakes[c].claim) /\ ~ Present(c)
        /\ wakes' = [wakes EXCEPT ![c].claim = Claim(r)]
        /\ Goto(r, [at |-> "check", client |-> c, id |-> wakes[c].id, high |-> wakes[c].high])
  BY DEF ClaimWake, Wake
<1>2. /\ r \in up /\ worker[r].at = "idle"
      /\ UNCHANGED <<space, acknowledged, ids, members, owed, recorded, watching, disturbances>>
  BY DEF ClaimWake, At, history, watching
<1> DEFINE row == [wakes[c] EXCEPT !.claim = Claim(r)]
           x == [at |-> "check", client |-> c, id |-> wakes[c].id, high |-> wakes[c].high]
<1>3. /\ wakes[c] \in WakeRows /\ wakes[c].id \in Nat /\ wakes[c].high \in Nat
      /\ wakes[c].notified \in Nat
  BY <1>1, RowShape DEF IndInv
<1>4. Claim(r) \in Claims /\ Claim(r).by = r /\ Claim(r) # None
  <2>1. Claim(r) \in Claims /\ Claim(r).by = r
    BY DEF Claim, Claims
  <2> QED BY <2>1
<1>5. /\ row \in WakeRows /\ row # None
      /\ row.id = wakes[c].id /\ row.high = wakes[c].high /\ row.notified = wakes[c].notified
      /\ row.claim = Claim(r)
  BY <1>3, <1>4, Reclaimed
<1>6. wakes' = [wakes EXCEPT ![c] = row]
  BY <1>1
<1>7. /\ x \in WorkerStates /\ x.at = "check" /\ x.client = c /\ x.id = wakes[c].id
      /\ x.high = wakes[c].high
  BY <1>3 DEF WorkerStates, Delivering
<1> HIDE DEF row, x
<1>8. /\ worker' \in [Runtimes -> WorkerStates] /\ worker'[r] = x
      /\ \A q \in Runtimes : q # r => worker'[q] = worker[q]
  BY <1>1, <1>7, Going DEF IndInv, x
<1>9. /\ wakes' \in [Clients -> WakeRows \cup {None}] /\ wakes'[c] = row
      /\ \A d \in Clients : d # c => wakes'[d] = wakes[d]
  BY <1>5, <1>6 DEF IndInv, TypeInv, DatabaseType
<1>10. up \subseteq Runtimes
  BY DEF IndInv, TypeInv, ProcessType
<1>11. ProcessType' /\ PresenceInv'
  BY <1>2, <1>8, WatchingAlone
<1>12. TypeInv'
  BY <1>2, <1>9, <1>11 DEF IndInv, TypeInv, DatabaseType, HistoryType, watching
<1>13. Offline'
  <2> SUFFICES ASSUME NEW d \in Clients, NEW w \in Watches, Wake(d)', Live(wakes'[d].claim)
               PROVE  ~ (Ready(w) /\ watch[w].client = d)
    BY <1>2 DEF Offline, Ready, watching
  <2>1. CASE d = c
    BY <1>1, <2>1 DEF IndInv, PresenceInv, Present
  <2>2. CASE d # c
    BY <1>9, <2>2 DEF IndInv, Offline, Wake
  <2> QED BY <2>1, <2>2
<1>14. /\ Bounds /\ wakes[c].high <= space.high /\ wakes[c].notified <= space.high
       /\ Identities /\ wakes[c].id <= ids
  BY <1>1 DEF IndInv, Bounds, Identities
<1>15. Bounds'
  BY <1>2, <1>5, <1>7, <1>8, <1>9, <1>14 DEF Bounds, Wake, Works, watching
<1>16. Identities'
  BY <1>2, <1>5, <1>7, <1>8, <1>9, <1>14 DEF Identities, Wake, Works, watching
<1>17. SpaceClaimed'
  <2> SUFFICES ASSUME NEW q \in up, HeldBy(space.claim, q)
               PROVE  worker'[q] = worker[q]
    BY <1>2 DEF IndInv, SpaceClaimed, watching
  <2> QED BY <1>2, <1>8, <1>10, NoSpace
<1>18. WakeClaimed'
  <2> SUFFICES ASSUME NEW d \in Clients, NEW q \in up, Wake(d)', HeldBy(wakes'[d].claim, q)
               PROVE  /\ worker'[q].at \in Delivery /\ worker'[q].client = d
                      /\ worker'[q].id = wakes'[d].id /\ worker'[q].high <= wakes'[d].high
                      /\ wakes'[d].notified < wakes'[d].high
    BY <1>2 DEF WakeClaimed, watching
  <2>1. CASE d = c
    <3>1. q = r
      BY <1>4, <1>5, <1>9, <2>1 DEF HeldBy
    <3> QED BY <1>1, <1>3, <1>5, <1>7, <1>8, <1>9, <2>1, <3>1 DEF Delivery
  <2>2. CASE d # c
    <3>1. Wake(d) /\ wakes'[d] = wakes[d]
      BY <1>9, <2>2 DEF Wake
    <3>2. q # r
      BY <1>2, <3>1, NoWake
    <3> QED BY <1>8, <1>10, <3>1, <3>2 DEF IndInv, WakeClaimed
  <2> QED BY <2>1, <2>2
<1>19. Owed' /\ NothingForgotten'
  <2>1. ASSUME NEW d \in Clients
        PROVE  /\ Wake(d)' <=> Wake(d)
               /\ wakes'[d].high = wakes[d].high /\ wakes'[d].notified = wakes[d].notified
    <3>1. CASE d = c
      BY <1>1, <1>5, <1>9, <3>1 DEF Wake
    <3>2. CASE d # c
      BY <1>9, <3>2 DEF Wake
    <3> QED BY <3>1, <3>2
  <2> QED BY <1>2, <2>1 DEF IndInv, Owed, NothingForgotten
<1>20. Found'
  <2>1. \A q \in up : worker'[q].at \in {"expand", "delivered", "notRecipient"} =>
          worker'[q] = worker[q]
    BY <1>7, <1>8, <1>10
  <2> QED BY <1>2, <2>1 DEF IndInv, Found, watching
<1>21. FreshWorkHasFreshIdentity'
  <2>1. ASSUME NEW d \in Clients, wakes'[d] # None, wakes'[d].notified < wakes'[d].high
        PROVE  wakes'[d].id \notin recorded[d]
    <3>1. CASE d = c
      BY <1>1, <1>3, <1>5, <1>9, <3>1 DEF IndInv, FreshWorkHasFreshIdentity, Wake
    <3>2. CASE d # c
      BY <1>9, <2>1, <3>2 DEF IndInv, FreshWorkHasFreshIdentity
    <3> QED BY <3>1, <3>2
  <2> QED BY <1>2, <2>1 DEF FreshWorkHasFreshIdentity
<1> QED BY <1>11, <1>12, <1>13, <1>15, <1>16, <1>17, <1>18, <1>19, <1>20, <1>21 DEF IndInv

-----------------------------------------------------------------------------
(***************************************************************************)
(* The invariant holds.                                                    *)
(***************************************************************************)
LEMMA InitInv ==
  ASSUME Init
  PROVE  IndInv
<1> USE DEF Init
<1>1. TypeInv
  BY DEF TypeInv, DatabaseType, ProcessType, HistoryType, Spaces, Streams, Idle, Resting
<1>2. Bounds /\ Identities
  BY DEF Bounds, Identities, Wake, Works, Idle, Expansion, Delivery
<1>3. SpaceClaimed /\ WakeClaimed
  BY DEF SpaceClaimed, WakeClaimed, Wake, HeldBy
<1>4. PresenceInv /\ Offline
  BY DEF PresenceInv, Offline, Ready, Wake
<1>5. Owed /\ NothingForgotten /\ Found /\ FreshWorkHasFreshIdentity
  BY DEF Owed, NothingForgotten, Found, FreshWorkHasFreshIdentity, Idle
<1> QED BY <1>1, <1>2, <1>3, <1>4, <1>5 DEF IndInv

LEMMA NextInv ==
  ASSUME IndInv, [Next]_vars
  PROVE  IndInv'
<1>1. CASE UNCHANGED vars
  <2>1. UNCHANGED <<pushes, watching, disturbances, presence, lease, lapsed>>
    BY <1>1 DEF vars, tables, processes, history, pushes, watching
  <2>2. worker \in [Runtimes -> WorkerStates]
    BY DEF IndInv, TypeInv, ProcessType, WorkerStates
  <2>3. ProcessType' /\ PresenceInv' /\ Offline'
    BY <2>1, <2>2, WatchingAlone DEF pushes, Wake, Live
  <2> QED BY <2>1, <2>3, WatchSteps DEF IndInv, TypeInv, DatabaseType, HistoryType
<1>2. CASE Enqueue \/ SpaceClaimEnds
  BY <1>2, EnqueueInv, SpaceClaimEndsInv
<1>3. ASSUME NEW r \in Runtimes, Dispatch(r)
      PROVE  IndInv'
  BY <1>3, ClaimSpaceInv, ResolveInv, ExpandInv, ReleaseSpaceInv, ClaimWakeInv, CheckInv, SendInv,
     RecordDeliveredInv, RecordNotRecipientInv, ReleaseInv DEF Dispatch
<1>4. ASSUME NEW r \in Runtimes,
             Heartbeat(r) \/ Sweep(r) \/ BeatFails(r) \/ LeaseEnds(r) \/ Crash(r)
      PROVE  IndInv'
  BY <1>4, HeartbeatInv, SweepInv, LeaseEndsInv, CrashInv
<1>5. ASSUME NEW w \in Watches, Watching(w)
      PROVE  IndInv'
  BY <1>5, OpenInv, RegisterInv, DisconnectInv, FinalizeInv DEF Watching
<1>6. ASSUME NEW c \in Clients, Pull(c) \/ ChangeMembership(c) \/ WakeClaimEnds(c)
      PROVE  IndInv'
  BY <1>6, PullInv, ChangeMembershipInv, WakeClaimEndsInv
<1> QED BY <1>1, <1>2, <1>3, <1>4, <1>5, <1>6 DEF Next

THEOREM Invariance == Spec => []IndInv
<1>1. Init => IndInv
  BY InitInv
<1>2. IndInv /\ [Next]_vars => IndInv'
  BY NextInv
<1> QED BY <1>1, <1>2, PTL DEF Spec

(***************************************************************************)
(* The properties.                                                         *)
(***************************************************************************)
(* Every variable holds values of its type (the rows of offlineWake.ts and *)
(* the state of its layer).                                                *)
THEOREM TypeCorrect == Spec => []TypeInv
<1>1. IndInv => TypeInv
  BY DEF IndInv
<1> QED BY <1>1, Invariance, PTL

(* Nobody is pushed to while watching, in processes that share only the    *)
(* database (claimClients against insertPresence).                         *)
THEOREM PushCorrect == Spec => []PushIsForTheOffline
<1>1. ASSUME IndInv, NEW r \in up, worker[r].at \in {"check", "send"}, Holds(r),
             wakes[worker[r].client].claim.live,
             NEW w \in Watches \ lapsed, watch[w].client = worker[r].client,
             watch[w].phase = "ready"
      PROVE  FALSE
  <2>1. worker[r].client \in Clients
    BY <1>1, Delivers DEF IndInv, TypeInv, ProcessType, Delivery
  <2> QED BY <1>1, <2>1 DEF IndInv, Offline, Ready, Holds, HeldBy, Live, Wake
<1>2. IndInv => PushIsForTheOffline
  BY <1>1 DEF PushIsForTheOffline
<1> QED BY <1>2, Invariance, PTL

(* What is still to be told never goes under an identity recorded as       *)
(* delivered (the wake_id of expand and deliver).                          *)
THEOREM IdentityCorrect == Spec => []FreshWorkHasFreshIdentity
<1>1. IndInv => FreshWorkHasFreshIdentity
  BY DEF IndInv
<1> QED BY <1>1, Invariance, PTL

(* A write that a member has neither been told of nor acknowledged is      *)
(* ahead of the expansion of the space or covered by a wake that has yet   *)
(* to be delivered, whatever crashed or failed (enqueue, expand, deliver,  *)
(* pull): the database never loses the work, which is the safety half of   *)
(* EveryWriteIsHeardOf.                                                    *)
THEOREM WorkIsKept == Spec => []NothingForgotten
<1>1. IndInv => NothingForgotten
  BY DEF IndInv
<1> QED BY <1>1, Invariance, PTL
=============================================================================
