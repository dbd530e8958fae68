---------------------------- MODULE SchemaUpgrade ----------------------------
(***************************************************************************)
(* What schema evolution promises of a space: whoever reads it finds every *)
(* entity, all of one schema, and an upgrade changes them all at once.     *)
(***************************************************************************)
EXTENDS Naturals

CONSTANTS
  Keys, Values,   \* entity identities and values, Absent not one of them
  Absent,         \* an entity that does not exist
  Versions        \* schemas: naturals, in the order of the evolution's steps

VARIABLES
  content,        \* the entities a reader finds
  schema          \* the schema they are of

vars == <<content, schema>>

Row(v, version) == [value |-> v, schema |-> version]

Init ==
  /\ schema \in Versions
  /\ content \in [Keys -> {Absent} \cup {Row(v, schema) : v \in Values}]

(* A mutation of the current schema writes or deletes an entity.           *)
Upsert(k, v) == content' = [content EXCEPT ![k] = Row(v, schema)]
Delete(k) == content' = [content EXCEPT ![k] = Absent]

Write(k) ==
  /\ Delete(k) \/ \E v \in Values : Upsert(k, v)
  /\ UNCHANGED schema

(* Every entity is migrated, and none is lost or invented.                 *)
Upgrade(version) ==
  /\ version > schema
  /\ schema' = version
  /\ content' = [k \in Keys |->
                   IF content[k] = Absent THEN Absent
                   ELSE Row(content[k].value, version)]

Next ==
  \/ \E k \in Keys : Write(k)
  \/ \E version \in Versions : Upgrade(version)

Spec == Init /\ [][Next]_vars
==============================================================================
