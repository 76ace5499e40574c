-------------------------- MODULE MCEvidenceBuilder --------------------------
(***************************************************************************)
(* Two hosts and a few JSON values that differ only in the order of their  *)
(* entries, or only in where one number ends and the next begins.          *)
(***************************************************************************)
EXTENDS EvidenceBuilder

Words == <<"alice", "approved", "context_items", "denied", "evaluator_report",
           "note", "operator", "operator_approvals", "outcome", "policy",
           "reason", "requires_approval", "version">>

One    == Number(<<"1">>)
Two    == Number(<<"2">>)
Twelve == Number(<<"1", "2">>)

JsonValues ==
  <<Null, Twelve, String("note"), Array(<<One, Two>>), Array(<<Twelve>>),
    Object(<<Entry("note", One), Entry("reason", Array(<< >>))>>),
    Object(<<Entry("reason", Array(<< >>)), Entry("note", One)>>)>>

SomePolicies  == {PolicyVerdict("approved", "approved"), PolicyVerdict("denied", "note")}
SomeApprovals == {OperatorApproval("alice", "note")}
=============================================================================
