--------------------------- MODULE MutationLedger ----------------------------
(***************************************************************************)
(* What a space's mutation store promises its clients, without receipts    *)
(* tables, retention, locks or maintenance: one append-only sequence of    *)
(* decisions, in which the local sequences of each lineage are decided     *)
(* once and in order, and answers that only ever report those decisions.   *)
(***************************************************************************)
EXTENDS Integers, Sequences

CONSTANT Envelopes

VARIABLES
  decided,   \* the decisions, in terminal order
  reply      \* the answer given by the last step, if any

ledgerVars == <<decided, reply>>

NoReply == [tag |-> "None"]

Decisions == {decided[t] : t \in DOMAIN decided}

DecisionsFor(e) ==
  {d \in Decisions : d.env.lineage = e.lineage /\ d.env.seq = e.seq}

\* n is the number after those in used, which are numbered from one
Follows(n, used) ==
  /\ \A m \in used : m < n
  /\ n = 1 \/ n - 1 \in used

InTurn(e) ==
  Follows(e.seq, {d.env.seq : d \in {x \in Decisions : x.env.lineage = e.lineage}})

\* Accepted mutations are numbered; a rejected one has no number
Numbered(tag, at) ==
  \/ /\ tag = "Accepted"
     /\ Follows(at, {d.at : d \in {x \in Decisions : x.tag = "Accepted"}})
  \/ tag = "Rejected" /\ at = 0

\* A mutation is decided, and its submitter may learn it at once
Decide(e) ==
  /\ InTurn(e)
  /\ \E tag \in {"Accepted", "Rejected"}, at \in 0 .. Len(decided) + 1 :
       LET d == [env |-> e, tag |-> tag, at |-> at, through |-> Len(decided) + 1]
       IN /\ Numbered(tag, at)
          /\ decided' = Append(decided, d)
          /\ reply' \in {NoReply, d}

\* The decision itself, or that it lies behind a covering snapshot, or that
\* the sequence was consumed by another mutation
Truthful(r) ==
  \/ r \in Decisions
  \/ /\ r.tag = "Expired"
     /\ \E d \in DecisionsFor(r.env) : d.through <= r.through
  \/ /\ r.tag = "Corrupt"
     /\ \E d \in DecisionsFor(r.env) : d.env # r.env

Answer ==
  /\ UNCHANGED decided
  /\ reply' = NoReply \/ Truthful(reply')

Init == decided = <<>> /\ reply = NoReply
Next == (\E e \in Envelopes : Decide(e)) \/ Answer
Spec == Init /\ [][Next]_ledgerVars
=============================================================================
