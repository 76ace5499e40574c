----------------------------- MODULE PolicyGate -----------------------------
(***************************************************************************)
(* DefaultPolicyGate (policy.rs): what becomes of a candidate, decided     *)
(* from its parent node, the mutation intent and the candidate's bill of   *)
(* materials.  The wording of the reasons is left out.                     *)
(***************************************************************************)
EXTENDS AgentNodes

Approve         == "Approve"
Deny            == "Deny"
RequireApproval == "RequireApproval"
PolicyDecision  == {Approve, Deny, RequireApproval}

\* The allow-list a kind of capability is looked up in; other kinds, and
\* untagged capabilities (kind ""), have none.
AllowList(kind, scope) ==
  CASE kind = "tool"     -> scope.allowed_tools
    [] kind = "mcp"      -> scope.allowed_mcp_servers
    [] kind = "delegate" -> scope.allowed_delegates
    [] OTHER             -> {}

\* An exact match of the whole name.
capability_in_scope(capability, scope) ==
  capability[2] \in AllowList(capability[1], scope)

GenerationCapExceeded(parent) ==
  \E max \in parent.allowed_scope.max_generation :
     NextGeneration(parent.generation) > max

\* Capabilities of the candidate that the parent's recorded list lacks.
AddedCapabilities(parent, candidate_sbom) ==
  candidate_sbom \ parent.capability_sbom

OutOfScope(parent, candidate_sbom) ==
  \E capability \in AddedCapabilities(parent, candidate_sbom) :
     ~capability_in_scope(capability, parent.allowed_scope)

\* Mutant: only capabilities the parent lacks are held against the gated ones.
GatedOnlyWhenAdded(parent, intent, candidate_sbom) ==
  \E gated \in parent.allowed_scope.gated_capabilities :
     gated \in AddedCapabilities(parent, candidate_sbom) \cup intent.constraints

\* A gated entry matches a capability of the candidate or a constraint tag
\* of the intent.
GatedCapabilityPresent(parent, intent, candidate_sbom) ==
  \E gated \in parent.allowed_scope.gated_capabilities :
     gated \in candidate_sbom \cup intent.constraints

\* The cap denies before anything else is looked at.
evaluate(parent, intent, candidate_sbom) ==
  IF GenerationCapExceeded(parent) THEN Deny
  ELSE IF \/ OutOfScope(parent, candidate_sbom)
          \/ GatedCapabilityPresent(parent, intent, candidate_sbom)
       THEN RequireApproval
       ELSE Approve

=============================================================================
