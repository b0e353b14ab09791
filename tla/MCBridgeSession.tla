-------------------------- MODULE MCBridgeSession --------------------------
(***************************************************************************)
(* TLC instance of BridgeSession.  An io_loop is spawned by CHOOSE, which  *)
(* names the threads in one order only; that leaves no symmetry to use.    *)
(***************************************************************************)
EXTENDS BridgeSession
=============================================================================
