--------------------------- MODULE MCRandomStream ---------------------------
(***************************************************************************)
(* Words of four bits, every bound, and three blocks of four words.        *)
(***************************************************************************)
EXTENDS RandomStream

MCUppers == 1 .. 15
=============================================================================
