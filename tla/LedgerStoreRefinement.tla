----------------------- MODULE LedgerStoreRefinement -----------------------
(***************************************************************************)
(* LedgerStore implements SerialLedger: the instant at which a call takes  *)
(* effect is the rename of CommitLedger (or of RenameTask, or the unlink   *)
(* of the ledger file in a delete).                                        *)
(***************************************************************************)
EXTENDS LedgerStore

Phase(p) ==
  CASE pc[p] \in {"idle", "down"} -> "idle"
    [] pc[p] \in {"prune", "rm"} -> "applied"
    [] pc[p] \in {"release", "unlink"} -> IF outcome[p] = "ok" THEN "applied" ELSE "failed"
    [] OTHER -> "pending"

Serial ==
  INSTANCE SerialLedger WITH
    Calls <- Ops,
    ledger <- [exists |-> ledger.exists, events |-> ledger.events],
    phase <- [p \in Proc |-> Phase(p)],
    call <- op,
    answer <- [p \in Proc |-> IF Phase(p) = "idle" THEN outcome[p] ELSE "none"]

(* The store is a serial ledger: whatever the interleaving of lock files,   *)
(* reads, renames, pruning and unlinks, whoever is killed and whatever file *)
(* operation fails, each call acts once, at one instant, on the current     *)
(* ledger, and is answered "ok" only if it did (store.mjs:182-245).         *)
ImplementsSerialLedger == Serial!Spec
=============================================================================
