--------------------------- MODULE MCVideoService ---------------------------
(***************************************************************************)
(* TLC instance of VideoService: a portrait and a landscape screen, each   *)
(* too large for an encoder opened for the other.                          *)
(***************************************************************************)
EXTENDS VideoService, TLC

MCSizes == {<<1, 2>>, <<2, 1>>}
MCDefaultSize == <<1, 2>>
Symmetry == Permutations(Conns)
=============================================================================
