------------------------------ MODULE MCUsers ------------------------------
(***************************************************************************)
(* Two spellings of one username for TLC and another username.  No         *)
(* property is about time, so connections may be swapped.                  *)
(***************************************************************************)
EXTENDS Users, TLC

CONSTANTS Ann, ann, bob, e1, e2, s1

MCAdminRow ==
  [username : {ann}, email : {e1}, subject : {NoValue}, active : BOOLEAN]
  \cup [username : {bob}, email : {e2}, subject : {s1}, active : {TRUE}]

Connections == Permutations(Client)

MCInLowerCase == [name \in Username |-> IF name = bob THEN bob ELSE ann]
=============================================================================
