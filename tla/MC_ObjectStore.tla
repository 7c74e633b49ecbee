--------------------------- MODULE MC_ObjectStore ---------------------------
(***************************************************************************)
(* Instances of ObjectStore: up to two sessions and two objects in one     *)
(* repository.  A process may die anywhere, or anywhere but inside a       *)
(* write.                                                                  *)
(***************************************************************************)
EXTENDS ObjectStore

CONSTANTS s1, s2, r1, o1, o2

Anywhere == {"begun", "loop", "put", "open", "write"}

NotInAWrite == Anywhere \ {"write"}
=============================================================================
