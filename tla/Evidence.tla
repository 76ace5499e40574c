------------------------------ MODULE Evidence ------------------------------
(***************************************************************************)
(* Audit records (evidence.rs) of the nodes of the runner's ledger.        *)
(*                                                                         *)
(* eval_results is the serialised EvalResult of the cycle.  A host that    *)
(* gives its nodes evidence returns it from its evaluator in the field     *)
(* details.  Reasons are one word.                                         *)
(***************************************************************************)
EXTENDS VehProperties, EvidenceBundle

\* PolicyVerdict::from(&PolicyDecision)
from(verdict) ==
  CASE verdict = Approve         -> PolicyVerdict("approved", "approved")
    [] verdict = Deny            -> PolicyVerdict("denied", "reason")
    [] verdict = RequireApproval -> PolicyVerdict("requires_approval", "reason")

\* EvalResult with any score.
EvalResult(details) ==
  Object(<<Entry("score", Number(<<"1">>)), Entry("details", details)>>)

\* What is parsed is eval_results, not its details.
Evidences(node, details) ==
  IF node.eval_results = None
  THEN {new(PolicyVerdict("approved", "legacy_or_root"))}
  ELSE from_value(EvalResult(details))

\* AuditRecord::from_node
from_node(node, details) ==
  {[agent_id |-> node.agent_id, parent_id |-> node.parent_id,
    timestamp |-> node.created_at, mutation_intent |-> node.mutation_intent,
    evidence |-> evidence, signer_public_key |-> node.signer_public_key,
    signature |-> node.signature, verification_valid |-> verify_node(node)] :
     evidence \in Evidences(node, details)}

\* "capturing the full lineage transition in a single verifiable record"
\* (evidence.rs): every node of the ledger has its audit record, at least
\* when its evaluator passed a bundle on.
EveryNodeAudited ==
  \A id \in Ledger, verdict \in PolicyDecision :
    from_node(Node(id), to_value(new(from(verdict)))) # {}

=============================================================================
