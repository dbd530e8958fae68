---------------------------- MODULE MutationOutbox ----------------------------
(***************************************************************************)
(* What a client's store of local mutations promises the application,      *)
(* without transactions, receipts, batches or projections: what is         *)
(* committed is decided by the server in the order it was committed, and   *)
(* reported to the application once.                                       *)
(***************************************************************************)
EXTENDS Integers, Sequences

CONSTANTS
  Mutations,   \* mutation identities
  Memory       \* commits for which an identity is not accepted again

VARIABLES
  committed,    \* the mutations committed locally, by local sequence
  outcomes,     \* the server's decisions, by local sequence
  settlements   \* the settlements reported, in order

outboxVars == <<committed, outcomes, settlements>>

Reported == {settlements[i].local : i \in DOMAIN settlements}

\* An identity is not run again while it is remembered
Commit(m) ==
  /\ \A i \in DOMAIN committed :
       i > Len(committed) - Memory => committed[i] # m
  /\ committed' = Append(committed, m)
  /\ UNCHANGED <<outcomes, settlements>>

Decide(tag) ==
  /\ Len(outcomes) < Len(committed)
  /\ outcomes' = Append(outcomes, [id |-> committed[Len(outcomes) + 1], tag |-> tag])
  /\ UNCHANGED <<committed, settlements>>

\* A settlement tells the decision, or that the server no longer tells it
Truthful(s) ==
  /\ s.local \in DOMAIN outcomes \ Reported
  /\ s.id = outcomes[s.local].id
  /\ s.tag \in {outcomes[s.local].tag, "Expired"}

Settle ==
  /\ UNCHANGED <<committed, outcomes>>
  /\ Len(settlements') > Len(settlements)
  /\ SubSeq(settlements', 1, Len(settlements)) = settlements
  /\ \A i \in Len(settlements) + 1 .. Len(settlements') :
       /\ Truthful(settlements'[i])
       /\ \A j \in Len(settlements) + 1 .. i - 1 :
            settlements'[j].local < settlements'[i].local

Init == committed = <<>> /\ outcomes = <<>> /\ settlements = <<>>

Next ==
  \/ \E m \in Mutations : Commit(m)
  \/ \E tag \in {"Accepted", "Rejected"} : Decide(tag)
  \/ Settle

Spec == Init /\ [][Next]_outboxVars
=============================================================================
