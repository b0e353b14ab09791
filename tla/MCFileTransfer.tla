--------------------------- MODULE MCFileTransfer ---------------------------
(* Two files: one of one block and one of two blocks, so that a file that  *)
(* cannot be opened still has a block that goes to the file before it.     *)
EXTENDS FileTransfer

MCSize == [f \in Files |-> IF f = 0 THEN 1 ELSE 2]
=============================================================================
