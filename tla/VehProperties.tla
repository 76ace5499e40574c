---------------------------- MODULE VehProperties ----------------------------
(***************************************************************************)
(* What the lifecycle runner and its ledger guarantee together, and two    *)
(* statements of the documentation that the program does not live up to.   *)
(***************************************************************************)
EXTENDS Veh

Ledger == DOMAIN nodes
Position(i) == insertion_order[i]

-----------------------------------------------------------------------------
(* Types. *)

Option(S) == {None} \cup {Some(x) : x \in S}

Generations == 0 .. GenerationModulus - 1

IsAgentNode(n) ==
  /\ n.generation \in Generations
  /\ n.created_at \in Timestamps
  /\ n.allowed_scope \in Scopes
  /\ n.artifact \in Artifacts
  /\ n.eval_results \in Option(Scores)
  /\ n.status \in NodeStatus
  /\ n.valid_parent \in BOOLEAN
  /\ n.capability_sbom = capability_sbom(n.artifact)

\* A copy of a node of the ledger.
IsCopy(node) == node.agent_id \in Ledger /\ node = Node(node.agent_id)

IsCycleInputs(inputs) ==
  /\ inputs.parent \in Parents
  /\ inputs.intent \in Intents
  /\ inputs.candidate \in Artifacts
  /\ inputs.allowed_scope \in Scopes
  /\ inputs.created_at \in Timestamps

IsPending(pending) ==
  /\ \E parent \in Parents : /\ pending.parent_id = Some(parent.agent_id)
                             /\ pending.parent_generation = parent.generation
  /\ pending.intent \in Intents
  /\ pending.candidate \in Artifacts
  /\ pending.allowed_scope \in Scopes
  /\ pending.created_at \in Timestamps
  /\ pending.eval_results \in Scores

IsRollback(op) ==
  /\ op.target_id \in Ledger
  /\ op.target = Node(op.target_id)
  /\ op.target.status = Promoted
  /\ IsCopy(op.parent)
  /\ op.created_at \in Timestamps

IsTask(op) ==
  \/ op = Idle
  \/ op.step = "evaluating" /\ IsCycleInputs(op.inputs)
  \/ op.step = "awaiting" /\ IsPending(op.pending)
  \/ op.step = "reverting" /\ op.target_id \in Ledger /\ IsPromoted(op.target_id)
  \/ op.step = "rolling back" /\ IsRollback(op)

LedgerOK ==
  /\ \A id \in Ledger : IsAgentNode(Node(id))
  /\ insertion_order \in Seq(Ledger)
  /\ head \in Option(Ledger)

TasksOK ==
  /\ task = [t \in Tasks |-> task[t]]
  /\ \A t \in Tasks : IsTask(task[t])

\* The ledger holds well-formed nodes, whatever parents the host passes.  A
\* paused cycle still has id and generation of one and the same parent, and
\* what a rollback read before its awaits (the target, and the node of the
\* head) is still what the ledger holds under those ids.
TypeOK == LedgerOK /\ TasksOK

-----------------------------------------------------------------------------
(* Safety. *)

\* The map and the order of the ledger agree: every node is listed once, is
\* stored under its own id, and its id and signature verify, whichever task
\* appended it and with whichever key.
LedgerIndexed ==
  /\ \A id \in Ledger : Node(id).agent_id = id /\ verify_node(Node(id))
  /\ \A id \in Ledger : \E i \in DOMAIN insertion_order : Position(i) = id
  /\ \A i, j \in DOMAIN insertion_order : Position(i) = Position(j) => i = j

\* The fields that verify_node reads: all but the recorded bill of
\* materials, in whose place it takes that of the artifact.
VerifiedFields ==
  {"agent_id", "parent_id", "generation", "created_at", "mutation_intent",
   "eval_results", "allowed_scope", "artifact", "signer_public_key",
   "signature", "status", "valid_parent"}

\* verify_node binds a node together: one of which any field was replaced by
\* that of another node of the ledger does not verify, although both do
\* (node.rs, intent.rs: what is stored is tamper-evident).
NodesDoNotMix ==
  \A id, other \in Ledger, field \in VerifiedFields :
    verify_node([Node(id) EXCEPT ![field] = Node(other)[field]]) =>
      Node(id)[field] = Node(other)[field]

\* There is a head as soon as there is a promoted node, and the head is
\* promoted, although rollback_to checks its target before an await and sets
\* the head after it.
HeadPromoted ==
  /\ head = None => \A id \in Ledger : ~IsPromoted(id)
  /\ \A id \in head : id \in Ledger /\ IsPromoted(id)

\* The parent a node names was appended before it, however long the cycle
\* was evaluated or awaited approval, and its generation is the next one; or
\* it descends from a foreign node in the same way, as the host asked.
LineageAcyclic ==
  \A i \in DOMAIN insertion_order :
    LET node == Node(Position(i)) IN
    \/ node.parent_id = None /\ node.generation = 0
    \/ \E j \in 1 .. i - 1 :
         /\ node.parent_id = Some(Position(j))
         /\ node.generation = NextGeneration(Node(Position(j)).generation)
    \/ \E parent \in Foreign :
         /\ node.parent_id = Some(parent.agent_id)
         /\ node.generation = NextGeneration(parent.generation)

\* The nodes that go under the parent_id of a node: the one of the ledger,
\* and those that the host may have passed for it.
ParentsOf(node) == {parent \in Parents : node.parent_id = Some(parent.agent_id)}

\* The nodes that came out of a cycle, and those of them it let through.
IsCycleNode(n) == n.parent_id # None /\ rollback_target(n.mutation_intent) = None
PassedCycle(n) == IsCycleNode(n) /\ n.status = Promoted

\* What a scope lists, as tagged capabilities.
Listed(scope) ==
  ({"tool"} \X scope.allowed_tools) \cup ({"mcp"} \X scope.allowed_mcp_servers)
    \cup ({"delegate"} \X scope.allowed_delegates)

\* The candidate adds to its parent's list what its parent's scope does not
\* name, or it or its intent names something gated.
NeedsApproval(parent, child) ==
  LET capabilities == capability_sbom(child.artifact)
      tags == child.mutation_intent.constraints
      scope == parent.allowed_scope
  IN \/ ~(capabilities \subseteq parent.capability_sbom \cup Listed(scope))
     \/ scope.gated_capabilities \cap (capabilities \cup tags) # {}

WithinGate(parent, child) ==
  /\ \A max \in parent.allowed_scope.max_generation : child.generation <= max
  /\ NeedsApproval(parent, child) => child.signer_public_key \in ApprovalKeys

Improves(parent, child) ==
  \A old \in parent_score(parent), new \in parent_score(child) : new > old

\* No cycle promotes past its parent's generation cap, and one that adds a
\* capability outside its parent's scope, or touches a gated one, carries
\* the signature of an approval key: the audit trail shows who let it in.
GateRespected ==
  \A id \in Ledger : PassedCycle(Node(id)) =>
    \E parent \in ParentsOf(Node(id)) : WithinGate(parent, Node(id))

\* FR-5 along every edge of the lineage: a promoted node with a score beats
\* the score of its parent, also when a person approved it later.
StrictImprovement ==
  \A id \in Ledger : PassedCycle(Node(id)) =>
    \E parent \in ParentsOf(Node(id)) : Improves(parent, Node(id))

\* "a candidate whose score is not strictly greater than the parent is
\* treated as a rejection" (graph.rs): a promoted child of a scored parent
\* has a score, and it is greater.
NotGreaterIsRejected ==
  \A id \in Ledger : PassedCycle(Node(id)) =>
    \E parent \in ParentsOf(Node(id)) :
      \A old \in parent_score(parent) :
        \E new \in parent_score(Node(id)) : new > old

IsRollbackNode(n) == rollback_target(n.mutation_intent) # None

Restores(node, id) ==
  /\ rollback_target(node.mutation_intent) = Some(id)
  /\ IsPromoted(id)
  /\ node.artifact = Node(id).artifact
  /\ node.allowed_scope = Node(id).allowed_scope

\* A rollback node restores what it says it restores: its signed target is a
\* promoted node appended before it, whose artifact and scope it carries.
RollbackFaithful ==
  \A i \in DOMAIN insertion_order :
    IsRollbackNode(Node(Position(i))) =>
      \E j \in 1 .. i - 1 : Restores(Node(Position(i)), Position(j))

-----------------------------------------------------------------------------
(* The runner over the ledger implements the audit log of LineageDag. *)

LogEntry(n) == [id |-> n.agent_id, parent |-> n.parent_id,
                generation |-> n.generation, promoted |-> n.status = Promoted]

Strangers == {LogEntry(node) : node \in Foreign}

Dag == INSTANCE LineageDag
         WITH log <- [i \in DOMAIN insertion_order |-> LogEntry(Node(Position(i)))],
              head <- head

\* Every step of every task is a step of the audit log or leaves it alone.
ImplementsDag == Dag!Spec

-----------------------------------------------------------------------------
(* Liveness. *)

\* The evaluator returns or fails, and an async runtime polls a future that
\* is ready.  Nobody is obliged to approve, and a future may be dropped.
Fairness ==
  \A t \in Tasks : /\ WF_vars(EvaluatorAnswers(t))
                   /\ WF_vars(RollbackSetsHead(t))
                   /\ WF_vars(RollbackAppends(t))

FairSpec == Spec /\ Fairness

\* No operation waits on another: one that was started returns, whatever the
\* other tasks do to the ledger meanwhile.
OperationsFinish ==
  \A t \in Tasks :
    At(t, "evaluating") \/ At(t, "reverting") \/ At(t, "rolling back")
      ~> At(t, "idle") \/ At(t, "awaiting")

-----------------------------------------------------------------------------
(* What the documentation says and the program does not do. *)

\* commit_rollback "emits a brand-new signed AgentNode whose parent is the
\* current head" (graph.rs): the head at the moment the node is appended.
RollbackParentIsHead ==
  [][\A id \in DOMAIN nodes' \ DOMAIN nodes :
       IsRollbackNode(nodes'[id]) => nodes'[id].parent_id = head]_vars

=============================================================================
