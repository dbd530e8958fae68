---------------------------- MODULE MCLocalStore ----------------------------
(* Small instances of LocalStore for TLC. *)
EXTENDS LocalStore, TLC

CONSTANTS a, b, c   \* mutations

(* b is written only where its entity exists; a and b write one entity,    *)
(* c the other.                                                            *)
Entities == a :> 1 @@ b :> 1 @@ c :> 2
Names == a :> "edit" @@ b :> "edit" @@ c :> "put"
Edits == {b}
=============================================================================
