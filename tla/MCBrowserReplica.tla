-------------------------- MODULE MCBrowserReplica --------------------------
(* Two tabs: one leaves the space, the other looks it up, writes and       *)
(* publishes.  They run the same build, or the second a later one.         *)
EXTENDS BrowserReplica
CONSTANTS t1, t2, old, new

SameOrLater == {[t \in Tabs |-> old], [t \in Tabs |-> IF t = t2 THEN new ELSE old]}
Versions == [b \in {old, new} |-> 1]
Applications == [t \in Tabs |-> IF t = t1 THEN {"Leave"} ELSE {"Space", "Mutate", "Publish"}]
=============================================================================
