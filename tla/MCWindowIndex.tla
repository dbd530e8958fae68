---------------------------- MODULE MCWindowIndex ----------------------------
(* A small instance of WindowIndex for TLC. *)
EXTENDS WindowIndex, TLC

CONSTANTS byChat, all, p, q

Entity(c, a) == [chat |-> c, age |-> a]
Entities == {Entity("x", 1), Entity("x", 2), Entity("y", 1), Entity("y", 2)}

(* The first release windows by chat, the second has no index, the third   *)
(* windows without partitions.                                             *)
Chats(d, v) == IF d = all THEN "all" ELSE v.chat
Parts == {"x", "y", "all"}
One == [c \in Parts |-> 1]
FromTwo == [c \in Parts |-> IF c = "y" THEN 2 ELSE 9]
Windowed(d) == [w \in Windows |-> d]
Nowhere == [w \in {} |-> all]
Releases == <<Windowed(byChat), Nowhere, Windowed(all)>>

(* The releases are such as the theorems of WakeAndWindowProofs speak of.  *)
ASSUME ReleasesGoForward == ~ RollingBack /\ NeverRestored

Put(k, v) == [key |-> k, value |-> v]
Writes ==
  {<<Put(k, v)>> : k \in Keys, v \in {Entity("x", 1), Absent}}
    \cup {<<Put(1, Entity("y", 2))>>, <<Put(2, Entity("y", 1))>>,
          <<Put(2, Entity("x", 2)), Put(2, Absent), Put(1, Entity("x", 1))>>}

EitherProcess == Permutations({p, q})
=============================================================================
