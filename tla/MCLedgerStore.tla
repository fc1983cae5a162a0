--------------------------- MODULE MCLedgerStore ---------------------------
(* Small instances of LedgerStore for TLC. *)
EXTENDS LedgerStoreRefinement

ProcSymmetry == Permutations(Proc)
============================================================================
