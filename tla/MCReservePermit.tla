--------------------------- MODULE MCReservePermit ---------------------------
(***************************************************************************)
(* Four interchangeable callers compete for two permits.                   *)
(***************************************************************************)
EXTENDS ReservePermit, TLC

Symmetry == Permutations(Threads)
=============================================================================
