----------------------------- MODULE MCLiveSync -----------------------------
(* Small instances of RpcSession and LiveWatch for TLC.  A behaviour is about *)
(* the calls of a client or about the watches of the server, while the other *)
(* one rests.                                                                *)
EXTENDS RpcSession, LiveWatch, TLC

CONSTANTS c1, c2, w1, w2, k1, k2

\* Two submissions, a submission beside a watch, or two bootstraps
TwoCalls ==
  {c1 :> "Submit" @@ c2 :> "Submit",
   c1 :> "Submit" @@ c2 :> "Watch",
   c1 :> "Bootstrap" @@ c2 :> "Bootstrap"}

\* A deployment from one protocol version to the next
OldAndNew == {{1}, {2}}

Equal == w1 :> k1 @@ w2 :> k1
Apart == w1 :> k1 @@ w2 :> k2

Situation(key, who, pending, slots, changes, mutations) ==
  [key |-> key, watchers |-> who, pending |-> pending, slots |-> slots, turns |-> changes,
   commits |-> mutations, clock |-> changes > 0]

\* Watches of one key and of two while the policy changes; while mutations are
\* committed, beside one another, for want of a slot, and faster than the client
\* reads; and both for a watch alone
WatchSituations ==
  {Situation(Equal, {w1, w2}, 2, 2, 1, 0), Situation(Apart, {w1, w2}, 2, 2, 1, 0),
   Situation(Equal, {w1, w2}, 1, 2, 0, 1), Situation(Apart, {w1, w2}, 1, 1, 0, 1),
   Situation(Equal, {w1}, 1, 1, 0, 2), Situation(Equal, {w1}, 1, 1, 1, 1)}

\* Nobody calls, and there is no connection to lose
SessionRests ==
  /\ socket = [state |-> "off", number |-> 0, release |-> {}]
  /\ refusing = FALSE /\ routes = {}
  /\ request = [c \in Callers |-> NoMessage] /\ reply = [c \in Callers |-> NoMessage]
  /\ call = [c \in Callers |-> [NewCall("Submit") EXCEPT !.phase = "done"]]
  /\ gate = <<>> /\ selected = NoVersion
  /\ admission = <<>> /\ page = Nobody
  /\ credential = 0 /\ revoked = {} /\ troubles = MaxTroubles

\* Nobody watches
WatchRests ==
  /\ situation = Situation(Equal, {}, 1, 1, 0, 0)
  /\ allowed = Keys /\ since = [k \in Keys |-> 0] /\ turned = 0
  /\ lookup = [k \in Keys |-> NoLookup]
  /\ cached = [k \in Keys |-> 0] /\ recent = <<>>
  /\ watch = [w \in Watchers |-> NoWatch] /\ stream = [w \in Watchers |-> NoStream]
  /\ buffer = [w \in Watchers |-> <<>>]
  /\ commits = <<>> /\ publishing = {} /\ evaluation = <<>> /\ canceling = 0
  /\ owed = [w \in Watchers |-> {}] /\ missed = [w \in Watchers |-> {}]

Init == (SessionInit /\ WatchRests) \/ (SessionRests /\ WatchInit)

Next == (SessionNext /\ UNCHANGED watchVars) \/ (WatchNext /\ UNCHANGED sessionVars)

FairSpec ==
  Init /\ [][Next]_<<sessionVars, watchVars>> /\ SessionFairness /\ WatchFairness
==============================================================================
