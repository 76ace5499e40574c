--------------------------------- MODULE Veh ---------------------------------
(***************************************************************************)
(* The lifecycle runner (graph.rs) over a shared ledger.  Veh is cloned    *)
(* freely between async tasks and keeps no state and no lock across an     *)
(* await, so each task runs one operation at a time and operations of      *)
(* different tasks interleave at their awaits.                             *)
(*                                                                         *)
(* Between two awaits an operation touches only its own locals, so one     *)
(* action is: everything an operation does up to and including its next    *)
(* call that others can observe.  Nodes are never changed or removed,      *)
(* hence a get may be merged with the call that follows it.  The host      *)
(* chooses the parent, the candidate, the scope, the intent and the        *)
(* timestamp of an operation, and it may drop a future, or a               *)
(* PendingApproval, at any await.                                          *)
(*                                                                         *)
(* The parent is whatever node the host hands over: run_cycle neither      *)
(* looks it up nor verifies it.  It is a node of the ledger, rejected ones *)
(* included, or one of Foreign: a node that the host altered, one that a   *)
(* restart lost, or one of another ledger.                                 *)
(***************************************************************************)
EXTENDS LineageStore, PolicyGate, Integers, FiniteSets

CONSTANTS
  Tasks,         \* the async tasks that share the runner
  Artifacts, Intents, Scopes, Timestamps,   \* what the host passes in
  Scores,        \* Options: Some(n), or None for a score that is not a number
  SigningKey,    \* the runner's key
  ApprovalKeys,  \* the keys out-of-band approvals are given with
  Foreign,       \* nodes that the host passes as parents, in the ledger or not
  RequireStrictImprovement,
  MaxNodes       \* bound: nodes in the ledger and being made

ASSUME VehAssumption ==
  /\ RequireStrictImprovement \in BOOLEAN
  /\ MaxNodes \in Nat
  /\ \A intent \in Intents : rollback_target(intent) = None

\* A score is an option of a number, and so is a generation cap.
IsScore(score) == score = None \/ \E n \in score : n \in Int /\ score = Some(n)

ASSUME NumbersAssumption ==
  /\ \A score \in Scores : IsScore(score)
  /\ \A scope \in Scopes : scope.max_generation \subseteq Nat

\* A foreign node has the types of an AgentNode.  Of its fields the host may
\* have altered any but the artifact, which is the one that its id was made
\* from: mutation_diff, which is left out of what is signed, is a function of
\* the parent's artifact and the child's.
ASSUME ForeignAssumption ==
  \A node \in Foreign :
    /\ node.generation \in 0 .. GenerationModulus - 1
    /\ node.allowed_scope.max_generation \subseteq Nat
    /\ \A score \in node.eval_results : node.eval_results = Some(score) /\ IsScore(score)
    /\ node.artifact = node.agent_id.payload.manifest

VARIABLE task    \* what each task's current operation holds at its await

vars == <<nodes, insertion_order, head, task>>

Node(id) == nodes[id]
IsPromoted(id) == Node(id).status = Promoted

-----------------------------------------------------------------------------
(* Tasks. *)

Idle == [step |-> "idle"]
At(t, step) == task[t].step = step
Becomes(t, op) == task' = [task EXCEPT ![t] = op]
Finish(t) == Becomes(t, Idle)

\* The operations under way that may still append a node.
Appending == {t \in Tasks : task[t].step \notin {"idle", "reverting"}}

HasRoom == Len(insertion_order) + Cardinality(Appending) < MaxNodes

-----------------------------------------------------------------------------
(* commit_root: no check that the ledger has no root yet. *)

RootInputs(artifact, allowed_scope, created_at) ==
  CommitInputs(None, 0, created_at, genesis, allowed_scope, None, artifact,
               Promoted, TRUE)

commit_root(t) ==
  /\ At(t, "idle")
  /\ HasRoom
  /\ \E artifact \in Artifacts, scope \in Scopes, now \in Timestamps :
       append(sign_node(RootInputs(artifact, scope, now), SigningKey))
  /\ UNCHANGED task

-----------------------------------------------------------------------------
(* run_cycle: suspended while the evaluator runs, then decided at once. *)

CycleInputs(parent, intent, candidate, scope, now) ==
  [parent |-> parent, intent |-> intent, candidate |-> candidate,
   allowed_scope |-> scope, created_at |-> now]

StartCycle(t, inputs) ==
  /\ At(t, "idle")
  /\ HasRoom
  /\ Becomes(t, [step |-> "evaluating", inputs |-> inputs])
  /\ UNCHANGED ledger

\* The nodes that a host may pass: it holds a reference, not an id.
Parents == {Node(id) : id \in DOMAIN nodes} \cup Foreign

run_cycle(t) ==
  \E parent \in Parents, intent \in Intents, candidate \in Artifacts,
    scope \in Scopes, now \in Timestamps :
    StartCycle(t, CycleInputs(parent, intent, candidate, scope, now))

\* The parent's recorded score; a root, a rollback node and a node whose
\* score was not a number (JSON null) have none.
parent_score(parent) == UNION parent.eval_results

\* Mutant: a candidate that equals its parent's score passes.
NotWorse(parent, score) ==
  /\ RequireStrictImprovement
  /\ \E old \in parent_score(parent), new \in score : new < old

\* FR-5.  Nothing is rejected when either score is missing or NaN.
NotImproved(parent, score) ==
  /\ RequireStrictImprovement
  /\ \E old \in parent_score(parent), new \in score : new <= old

CycleNode(inputs, score, status) ==
  sign_node(CommitInputs(Some(inputs.parent.agent_id),
                         NextGeneration(inputs.parent.generation),
                         inputs.created_at, inputs.intent,
                         inputs.allowed_scope, Some(score), inputs.candidate,
                         status, status = Promoted),
            SigningKey)

commit_promoted(inputs, score) == append(CycleNode(inputs, score, Promoted))
commit_rejected(inputs, score) == append(CycleNode(inputs, score, Rejected))

decision(inputs) ==
  evaluate(inputs.parent, inputs.intent, capability_sbom(inputs.candidate))

\* Mutant: the pause captures the child's generation, which resuming adds to.
PendingChildGeneration(inputs, score) ==
  [parent_id |-> Some(inputs.parent.agent_id),
   parent_generation |-> NextGeneration(inputs.parent.generation),
   intent |-> inputs.intent, candidate |-> inputs.candidate,
   allowed_scope |-> inputs.allowed_scope, created_at |-> inputs.created_at,
   eval_results |-> score]

PendingApproval(inputs, score) ==
  [parent_id |-> Some(inputs.parent.agent_id),
   parent_generation |-> inputs.parent.generation,
   intent |-> inputs.intent, candidate |-> inputs.candidate,
   allowed_scope |-> inputs.allowed_scope, created_at |-> inputs.created_at,
   eval_results |-> score]

EvaluatorFails(t) ==
  /\ At(t, "evaluating")
  /\ Finish(t)
  /\ UNCHANGED ledger

RejectNotImproved(t, score) ==
  /\ NotImproved(task[t].inputs.parent, score)
  /\ commit_rejected(task[t].inputs, score)
  /\ Finish(t)

GateApproves(t, score) ==
  /\ ~NotImproved(task[t].inputs.parent, score)
  /\ decision(task[t].inputs) = Approve
  /\ commit_promoted(task[t].inputs, score)
  /\ Finish(t)

GateDenies(t, score) ==
  /\ ~NotImproved(task[t].inputs.parent, score)
  /\ decision(task[t].inputs) = Deny
  /\ commit_rejected(task[t].inputs, score)
  /\ Finish(t)

GatePauses(t, score) ==
  /\ ~NotImproved(task[t].inputs.parent, score)
  /\ decision(task[t].inputs) = RequireApproval
  /\ Becomes(t, [step |-> "awaiting",
                 pending |-> PendingApproval(task[t].inputs, score)])
  /\ UNCHANGED ledger

\* What follows once the evaluator has returned a score.
CycleDecides(t, score) ==
  /\ At(t, "evaluating")
  /\ \/ RejectNotImproved(t, score)
     \/ GateApproves(t, score)
     \/ GateDenies(t, score)
     \/ GatePauses(t, score)

EvaluatorAnswers(t) ==
  \/ EvaluatorFails(t)
  \/ \E score \in Scores : CycleDecides(t, score)

-----------------------------------------------------------------------------
(* resume_with_approval: nothing is decided again, neither the policy nor   *)
(* FR-5, and the head may have moved since the cycle was paused.            *)

ApprovedNode(pending, approval_key) ==
  sign_node(CommitInputs(pending.parent_id,
                         NextGeneration(pending.parent_generation),
                         pending.created_at, pending.intent,
                         pending.allowed_scope, Some(pending.eval_results),
                         pending.candidate, Promoted, TRUE),
            approval_key)

resume_with_approval(t) ==
  /\ At(t, "awaiting")
  /\ \E key \in ApprovalKeys : append(ApprovedNode(task[t].pending, key))
  /\ Finish(t)

-----------------------------------------------------------------------------
(* rollback_to: read and check the target, then move the head. *)

\* Mutant: a rejected node may be the target.
MayRollBackToAny(id) ==
  /\ Contains(id)
  /\ verify_node(Node(id))

MayRollBackTo(id) ==
  /\ Contains(id)
  /\ verify_node(Node(id))
  /\ IsPromoted(id)

rollback_to(t) ==
  /\ At(t, "idle")
  /\ \E id \in DOMAIN nodes :
       /\ MayRollBackTo(id)
       /\ Becomes(t, [step |-> "reverting", target_id |-> id])
  /\ UNCHANGED ledger

RollbackSetsHead(t) ==
  /\ At(t, "reverting")
  /\ set_head(task[t].target_id)
  /\ Finish(t)

-----------------------------------------------------------------------------
(* commit_rollback: read the target, then the head and the head's node,     *)
(* then append.  The head may move before the append.                       *)

commit_rollback(t) ==
  /\ At(t, "idle")
  /\ HasRoom
  /\ \E id \in DOMAIN nodes, parent_id \in head, now \in Timestamps :
       /\ MayRollBackTo(id)
       /\ Contains(parent_id)
       /\ Becomes(t, [step |-> "rolling back", target_id |-> id,
                      target |-> Node(id), parent |-> Node(parent_id),
                      created_at |-> now])
  /\ UNCHANGED ledger

\* Mutant: the rollback keeps the artifact of the head.
RollbackOfNothing(op) ==
  sign_node(CommitInputs(Some(op.parent.agent_id),
                         NextGeneration(op.parent.generation),
                         op.created_at, rollback(op.target_id),
                         op.target.allowed_scope, None, op.parent.artifact,
                         Promoted, TRUE),
            SigningKey)

\* Mutant: the rollback stays in the generation of the head.
RollbackSameGeneration(op) ==
  sign_node(CommitInputs(Some(op.parent.agent_id), op.parent.generation,
                         op.created_at, rollback(op.target_id),
                         op.target.allowed_scope, None, op.target.artifact,
                         Promoted, TRUE),
            SigningKey)

RollbackNode(op) ==
  sign_node(CommitInputs(Some(op.parent.agent_id),
                         NextGeneration(op.parent.generation),
                         op.created_at, rollback(op.target_id),
                         op.target.allowed_scope, None, op.target.artifact,
                         Promoted, TRUE),
            SigningKey)

\* Mutant: a refused duplicate is tried again with the same inputs.
RollbackRetries(t) ==
  /\ At(t, "rolling back")
  /\ ~Contains(RollbackNode(task[t]).agent_id)
  /\ append(RollbackNode(task[t]))
  /\ Finish(t)

RollbackAppends(t) ==
  /\ At(t, "rolling back")
  /\ append(RollbackNode(task[t]))
  /\ Finish(t)

-----------------------------------------------------------------------------
\* The host drops the future or the PendingApproval.
Drop(t) ==
  /\ ~At(t, "idle")
  /\ Finish(t)
  /\ UNCHANGED ledger

Init ==
  /\ StoreInit
  /\ task = [t \in Tasks |-> Idle]

Step(t) ==
  \/ commit_root(t)
  \/ run_cycle(t)
  \/ EvaluatorAnswers(t)
  \/ resume_with_approval(t)
  \/ rollback_to(t)
  \/ RollbackSetsHead(t)
  \/ commit_rollback(t)
  \/ RollbackAppends(t)
  \/ Drop(t)

Next == \E t \in Tasks : Step(t)

Spec == Init /\ [][Next]_vars

=============================================================================
