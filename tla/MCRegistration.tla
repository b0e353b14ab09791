--------------------------- MODULE MCRegistration ---------------------------
(***************************************************************************)
(* Two hosts: the first id is taken at one of them, the second id at the   *)
(* other, so that each demands a new id once.                              *)
(***************************************************************************)
EXTENDS Registration

CONSTANTS h1, h2

MCTaken == [h \in Hosts |-> IF h = h1 THEN {0} ELSE {1}]
=============================================================================
