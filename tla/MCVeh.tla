-------------------------------- MODULE MCVeh --------------------------------
(***************************************************************************)
(* Instances of the lifecycle runner for TLC.                              *)
(***************************************************************************)
EXTENDS VehProperties, TLC

CONSTANTS t1, t2, runner, officer

Artifact(tools) ==
  [tools |-> tools, mcp_servers |-> {}, delegates |-> {}]

Scope(tools, max_generation, gated) ==
  [allowed_tools |-> tools, allowed_mcp_servers |-> {},
   allowed_delegates |-> {}, max_generation |-> max_generation,
   gated_capabilities |-> gated]

Intent(constraints) ==
  [goal |-> "improve", constraints |-> constraints, rollback_target |-> None]

\* A capability and a constraint tag that scopes gate.
trade == <<"tool", "trade">>
risky == <<"", "risky">>

\* The open scope lets a candidate add the tool, unless the intent is tagged
\* risky.  The closed scope lists no tool, gates the tool even for a parent
\* that has it, and ends the lineage at generation 1.
Open   == Scope({"trade"}, None, {risky})
Closed == Scope({}, Some(1), {trade})

\* The sealed scope lets no child through.
Sealed == Scope({}, Some(0), {})

BothArtifacts == {Artifact({}), Artifact({"trade"})}
OneArtifact   == {Artifact({})}
BothScopes    == {Open, Closed}
OpenScope     == {Open}
OpenOrSealed  == {Open, Sealed}
BothIntents   == {Intent({}), Intent({risky})}
PlainIntent   == {Intent({})}
RiskyIntent   == {Intent({risky})}
FiniteScores  == {Some(1), Some(2)}
OneScore      == {Some(1)}
ScoresAndNaN  == {Some(1), None}

\* A root that the host gave a score it does not have in the ledger, as the
\* test strict_improvement_rejects_regression does.  It may be passed before
\* a root with its id is appended, and after.
SeededRoot ==
  [sign_node(RootInputs(Artifact({}), Open, 1), SigningKey)
     EXCEPT !.eval_results = Some(Some(0))]
Seeded == {SeededRoot}

TaskSymmetry == Permutations({t1, t2})
=============================================================================
