----------------------------- MODULE MCEvidence -----------------------------
(***************************************************************************)
(* Audit records of the nodes of small ledgers, for TLC.                   *)
(***************************************************************************)
EXTENDS Evidence, MCVeh

\* No bytes are written here.
NoWords == << >>
=============================================================================
