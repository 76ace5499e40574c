------------------------------ MODULE MCReaders ------------------------------
(***************************************************************************)
(* What reads the ledger, over the ledgers that one task of the runner can *)
(* make: the selectors, and the drawing of the lineage.                    *)
(***************************************************************************)
EXTENDS MCVeh, Selectors, LineageExport

ManyScores == {Some(-1), Some(1), Some(2)}
=============================================================================
