-------------------------- MODULE MCSchemaPromotion --------------------------
(* Small instances of ServerPromotion and ClientPromotion for TLC.  A        *)
(* behaviour is about the promotion of a space on the server or about that   *)
(* of a client's copy of it: the two touch no state of each other.           *)
EXTENDS ServerPromotion, ClientPromotion, TLC

CONSTANTS old, new1, new2   \* server processes

\* A rolling deployment: one process of the old version, two of the new
Rolling == old :> 1 @@ new1 :> 2 @@ new2 :> 2

\* Two mutations of one entity, the second of which needs the first
Handlers == 1 :> 1 @@ 2 :> 1

\* The second version refuses the second mutation, the third version the first
Stricter == 1 :> {} @@ 2 :> {2} @@ 3 :> {1}

VARIABLE side     \* whose promotion the behaviour is about

\* No process of the server has a request to serve
ServerRests ==
  /\ space = [generation |-> 0, active |-> 0, schema |-> Oldest, target |-> None, count |-> 0]
  /\ progress = None /\ entities = [g \in Generations |-> NoEntities] /\ log = <<>>
  /\ scoped = [t \in Tables |-> [c \in Clients |-> 0]]
  /\ request = [p \in Processes |-> [Idle EXCEPT !.at = "closed"]] /\ failures = 0

\* The client's first version has started on an empty copy
ClientRests ==
  /\ Left(Nothing, {}, {}, {})
  /\ row = [generation |-> 0, active |-> 0, schema |-> First, target |-> None, view |-> TRUE]
  /\ evolution = None /\ quarantine = {} /\ application = First /\ cuts = 0

Init == \/ side = "server" /\ ServerInit /\ ClientRests
        \/ side = "client" /\ ClientInit /\ ServerRests

Next == \/ side = "server" /\ ServerNext /\ UNCHANGED <<clientVars, side>>
        \/ side = "client" /\ ClientNext /\ UNCHANGED <<serverVars, side>>

FairSpec ==
  Init /\ [][Next]_<<serverVars, clientVars, side>> /\ ServerFairness /\ ClientFairness

\* A promotion that has begun ends, on either side
PromotionEnds == ServerPromotionEnds /\ ClientPromotionEnds
==============================================================================
