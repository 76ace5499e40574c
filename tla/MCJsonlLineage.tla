--------------------------- MODULE MCJsonlLineage ---------------------------
(***************************************************************************)
(* Instances of the file-backed ledger for TLC.                            *)
(***************************************************************************)
EXTENDS JsonlLineage

CONSTANTS a, c, h1, h2

TwoNodes == {[agent_id |-> a, status |-> Promoted],
             [agent_id |-> c, status |-> Rejected]}
=============================================================================
