-------------------------- MODULE MCEvolutionDriver --------------------------
(***************************************************************************)
(* Instances of the evolution driver for TLC.                              *)
(***************************************************************************)
EXTENDS EvolutionDriver, MCVeh
=============================================================================
