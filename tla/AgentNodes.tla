----------------------------- MODULE AgentNodes -----------------------------
(***************************************************************************)
(* The data of a lineage: artifacts and their capability bill of materials *)
(* (artifact.rs), mutation intents and scopes (intent.rs), nodes (node.rs) *)
(* and the signing and hashing of a node (identity.rs).                    *)
(*                                                                         *)
(* Abstractions.  An Option is the set of its at most one value, so that   *)
(* None is {} and and_then is UNION.  A capability string "kind:name" is   *)
(* the pair <<kind, name>>.  SHA-256 and Ed25519 are ideal: a hash and a   *)
(* signature are the very records they are computed from, hence two inputs *)
(* have the same agent_id only if they are equal, and, as for Ed25519,     *)
(* signing the same payload twice with a key gives the same signature.     *)
(* mutation_diff is left out of the payload: it is computed from the       *)
(* parent's artifact and the candidate's, which the payload names already. *)
(* parent_agent_success and eval_stage are the constants true and None in  *)
(* every node the program signs, and are left out too.                     *)
(***************************************************************************)
EXTENDS Naturals

CONSTANT GenerationModulus   \* 2^32: AgentNode.generation is a u32

ASSUME GenerationAssumption == GenerationModulus \in Nat \ {0}

None == {}
Some(x) == {x}

Promoted == "promoted"
Rejected == "rejected"
NodeStatus == {Promoted, Rejected}

-----------------------------------------------------------------------------
(* Artifacts, intents and scopes. *)

\* The tools, servers and delegates an artifact may invoke, tagged by kind.
capability_sbom(artifact) ==
  ({"tool"} \X artifact.tools) \cup ({"mcp"} \X artifact.mcp_servers)
    \cup ({"delegate"} \X artifact.delegates)

\* MutationIntent::new("genesis"), the intent of every root.
genesis == [goal |-> "genesis", constraints |-> {}, rollback_target |-> None]

\* MutationIntent::rollback: the target is part of what is signed.
rollback(target_id) ==
  [goal |-> "rollback", constraints |-> {}, rollback_target |-> Some(target_id)]

rollback_target(intent) ==
  IF intent.goal = "rollback" THEN intent.rollback_target ELSE None

\* `generation + 1` on a u32, which wraps in a release build.
NextGeneration(generation) == (generation + 1) % GenerationModulus

-----------------------------------------------------------------------------
(* Signing a node and checking it again. *)

CommitInputs(parent, generation, at, intent, scope, eval, artifact, status, valid) ==
  [parent_id |-> parent, generation |-> generation, created_at |-> at,
   mutation_intent |-> intent, allowed_scope |-> scope, eval_results |-> eval,
   artifact |-> artifact, status |-> status, valid_parent |-> valid]

\* Mutant: the scope is not signed.
PayloadWithoutScope(inputs) ==
  [parent_id |-> inputs.parent_id, generation |-> inputs.generation,
   created_at |-> inputs.created_at,
   mutation_intent |-> inputs.mutation_intent,
   eval_results |-> inputs.eval_results,
   capability_sbom |-> capability_sbom(inputs.artifact),
   manifest |-> inputs.artifact, status |-> inputs.status,
   valid_parent |-> inputs.valid_parent]

\* Every field but the signature and the id, and the bill of materials
\* computed afresh from the artifact.
signing_payload(inputs) ==
  [parent_id |-> inputs.parent_id, generation |-> inputs.generation,
   created_at |-> inputs.created_at,
   mutation_intent |-> inputs.mutation_intent,
   allowed_scope |-> inputs.allowed_scope,
   eval_results |-> inputs.eval_results,
   capability_sbom |-> capability_sbom(inputs.artifact),
   manifest |-> inputs.artifact, status |-> inputs.status,
   valid_parent |-> inputs.valid_parent]

Sign(payload, key) == [by |-> key, over |-> payload]

compute_agent_id(payload, signature) ==
  [payload |-> payload, signature |-> signature]

sign_node(inputs, signing_key) ==
  LET payload   == signing_payload(inputs)
      signature == Sign(payload, signing_key)
  IN [agent_id |-> compute_agent_id(payload, signature),
      parent_id |-> inputs.parent_id, generation |-> inputs.generation,
      created_at |-> inputs.created_at,
      mutation_intent |-> inputs.mutation_intent,
      capability_sbom |-> capability_sbom(inputs.artifact),
      eval_results |-> inputs.eval_results,
      allowed_scope |-> inputs.allowed_scope, artifact |-> inputs.artifact,
      signer_public_key |-> signing_key, signature |-> signature,
      status |-> inputs.status, valid_parent |-> inputs.valid_parent]

\* The id is that of the recomputed payload and the recorded signature, and
\* that signature is the recorded signer's.  The recorded capability_sbom is
\* not compared with anything.
verify_node(node) ==
  LET payload == signing_payload(node)
  IN /\ node.agent_id = compute_agent_id(payload, node.signature)
     /\ node.signature = Sign(payload, node.signer_public_key)

=============================================================================
