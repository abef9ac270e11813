--------------------------- MODULE MCMemoryStore ---------------------------
(***************************************************************************)
(* TLC instance of MemoryStore.  Callers run the same code and the code    *)
(* only compares session ids for equality, so both sets are symmetric.     *)
(***************************************************************************)
EXTENDS MemoryStoreRefinement, TLC

Symmetry == Permutations(Clients) \cup Permutations(Sessions)
=============================================================================
