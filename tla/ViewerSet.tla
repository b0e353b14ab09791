------------------------------ MODULE ViewerSet ------------------------------
(***************************************************************************)
(* What the connection tasks and a service agree on: a connection becomes  *)
(* a viewer at most while it lives, and leaves exactly once, for good.     *)
(* VideoService implements it with its two subscriber sets, IncomingServer *)
(* with the calls its connection tasks make; the video service may         *)
(* therefore rely on it although the server's locks are taken one by one.  *)
(***************************************************************************)
CONSTANT Conns

VARIABLES viewers, left

Init == viewers = {} /\ left = {}

Join(c) ==
  /\ c \notin viewers \cup left
  /\ viewers' = viewers \cup {c}
  /\ UNCHANGED left

Leave(c) ==
  /\ c \notin left
  /\ viewers' = viewers \ {c}
  /\ left' = left \cup {c}

Next == \E c \in Conns : Join(c) \/ Leave(c)

Spec == Init /\ [][Next]_<<viewers, left>>
=============================================================================
