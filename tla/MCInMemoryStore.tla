--------------------------- MODULE MCInMemoryStore ---------------------------
(***************************************************************************)
(* A small store for TLC.  Ids and tokens are interchangeable.             *)
(***************************************************************************)
EXTENDS InMemoryStore, TLC

MCTimes == 0 .. 2
Symmetry == Permutations(Ids) \union Permutations(Tokens)
=============================================================================
