---------------------------- MODULE MCDurableVeh ----------------------------
(***************************************************************************)
(* Instances of the runner over a file for TLC.                            *)
(***************************************************************************)
EXTENDS DurableVeh, MCVeh

\* The host kept the root: it may pass it as a parent in a process that does
\* not find it in the file, because a power failure took its line.
KeptRoot == sign_node(RootInputs(Artifact({}), Open, 1), SigningKey)
Kept == {KeptRoot}
=============================================================================
