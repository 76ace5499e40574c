------------------------- MODULE MCStagedEvaluation -------------------------
(***************************************************************************)
(* Instances of the runner with a composite evaluator for TLC.             *)
(***************************************************************************)
EXTENDS StagedEvaluation, MCVeh
=============================================================================
