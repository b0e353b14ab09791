-------------------------- MODULE MCIncomingControl --------------------------
(***************************************************************************)
(* TLC instance of IncomingControl.  Its properties are temporal, so there *)
(* is no symmetry to use.                                                  *)
(***************************************************************************)
EXTENDS IncomingControl
=============================================================================
