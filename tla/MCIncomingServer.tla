-------------------------- MODULE MCIncomingServer --------------------------
(***************************************************************************)
(* TLC instance of IncomingServer.  The liveness properties rule out a     *)
(* symmetry set.                                                           *)
(***************************************************************************)
EXTENDS IncomingServer
=============================================================================
