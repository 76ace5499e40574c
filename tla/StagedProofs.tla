---------------------------- MODULE StagedProofs ----------------------------
(***************************************************************************)
(* A composite evaluator, however many stages it has, is one of the        *)
(* evaluators the runner admits: every behaviour with it is a behaviour of *)
(* Veh, so what VehProofs says of Veh holds with it as well.               *)
(* The results it collects are in order, and an empty one lets nothing in. *)
(***************************************************************************)
EXTENDS StagedEvaluation, VehProofs

StagedResults == {StagedResult(score, verdict) : score \in Scores, verdict \in EvalStage}

\* The results are those of stages.
OutOK ==
  /\ stages \in Nat
  /\ out = [t \in Tasks |-> out[t]]
  /\ \A t \in Tasks : out[t] \in Seq(StagedResults)

-----------------------------------------------------------------------------
(* The refinement. *)

LEMMA StageAppends ==
  ASSUME NEW results \in Seq(StagedResults), NEW result \in StagedResults
  PROVE  /\ Append(results, result) \in Seq(StagedResults)
         /\ Len(results) \in Nat
         /\ Len(Append(results, result)) = Len(results) + 1
         /\ \A i \in 1 .. Len(results) : Append(results, result)[i] = results[i]
BY AppendProperties, LenProperties

LEMMA NoResults ==
  /\ << >> \in Seq(StagedResults)
  /\ Len(<< >>) = 0
BY EmptySeq

LEMMA StagedInitOK == StagedInit => OutOK
BY StagedAssumption, NoResults DEF StagedInit, OutOK

LEMMA ForgetKeepsOut ==
  ASSUME OutOK, NEW t \in Tasks, Forget(t)
  PROVE  OutOK'
BY NoResults DEF OutOK, Forget

LEMMA EvaluateStageKeepsOut ==
  ASSUME OutOK, NEW t \in Tasks, EvaluateStage(t)
  PROVE  OutOK'
<1>1. PICK score \in Scores, verdict \in EvalStage :
         out' = [out EXCEPT ![t] = Append(@, StagedResult(score, verdict))]
  BY DEF EvaluateStage
<1>2. StagedResult(score, verdict) \in StagedResults
  BY DEF StagedResults
<1>3. Append(out[t], StagedResult(score, verdict)) \in Seq(StagedResults)
  BY <1>2, StageAppends DEF OutOK
<1> QED
  BY <1>1, <1>3 DEF OutOK, EvaluateStage

\* Every action of the composed system but a stage ends in Forget.
LEMMA StagedCases ==
  ASSUME NEW t \in Tasks, StagedStep(t), ~EvaluateStage(t)
  PROVE  Forget(t)
BY DEF StagedStep, StageFails, NoStages, CompositeReturns, Elsewhere

LEMMA StagedNextOK == OutOK /\ [StagedNext]_stagedVars => OutOK'
<1> SUFFICES ASSUME OutOK, [StagedNext]_stagedVars PROVE OutOK'
  OBVIOUS
<1>1. CASE UNCHANGED stagedVars
  BY <1>1 DEF stagedVars, OutOK
<1>2. ASSUME NEW t \in Tasks, StagedStep(t) PROVE OutOK'
  BY <1>2, StagedCases, ForgetKeepsOut, EvaluateStageKeepsOut
<1> QED
  BY <1>1, <1>2 DEF StagedNext

\* The score a composite returns is the score of one of its stages.
LEMMA ReturnsScore ==
  ASSUME OutOK, NEW t \in Tasks
  PROVE  FinalResult(out[t]) \subseteq Scores
<1> SUFFICES ASSUME NEW i \in DOMAIN out[t] PROVE out[t][i].score \in Scores
  BY DEF FinalResult
<1>1. out[t][i] \in StagedResults
  BY ElementOfSeq, LenProperties DEF OutOK
<1> QED
  BY <1>1 DEF StagedResults, StagedResult

LEMMA StagedStepIsStep ==
  ASSUME OutOK, NEW t \in Tasks, StagedStep(t)
  PROVE  Step(t) \/ UNCHANGED vars
<1>1. CASE EvaluateStage(t)
  BY <1>1 DEF EvaluateStage
<1>2. CASE StageFails(t) \/ NoStages(t)
  BY <1>2 DEF StageFails, NoStages, Step, EvaluatorAnswers
<1>3. CASE CompositeReturns(t)
  <2>1. PICK score \in FinalResult(out[t]) : CycleDecides(t, score)
    BY <1>3 DEF CompositeReturns
  <2>2. score \in Scores
    BY <2>1, ReturnsScore
  <2> QED
    BY <2>1, <2>2 DEF Step, EvaluatorAnswers
<1>4. CASE Elsewhere(t)
  BY <1>4 DEF Elsewhere, Step
<1> QED
  BY <1>1, <1>2, <1>3, <1>4 DEF StagedStep

LEMMA StagedNextIsNext == OutOK /\ [StagedNext]_stagedVars => [Next]_vars
<1> SUFFICES ASSUME OutOK, [StagedNext]_stagedVars PROVE [Next]_vars
  OBVIOUS
<1>1. CASE UNCHANGED stagedVars
  BY <1>1 DEF stagedVars
<1>2. ASSUME NEW t \in Tasks, StagedStep(t) PROVE [Next]_vars
  BY <1>2, StagedStepIsStep DEF Next
<1> QED
  BY <1>1, <1>2 DEF StagedNext

\* Whatever the stages of a CompositeEvaluator return, and however many they
\* are, the runner does nothing that it would not do with some evaluator.
THEOREM CompositeIsEvaluator == StagedSpec => Spec
<1>1. StagedInit => Init
  BY DEF StagedInit
<1> QED
  BY <1>1, StagedInitOK, StagedNextOK, StagedNextIsNext, PTL DEF StagedSpec, Spec

-----------------------------------------------------------------------------
(* The order of the stages. *)

\* A step of one task leaves what the others hold.
LEMMA OthersStand ==
  ASSUME TasksOK, NEW t \in Tasks, Step(t), NEW u \in Tasks, u # t
  PROVE  task'[u] = task[u]
<1>1. UNCHANGED task \/ \E op : Becomes(t, op)
  BY DEF Step, commit_root, run_cycle, StartCycle, EvaluatorAnswers, EvaluatorFails,
         CycleDecides, RejectNotImproved, GateApproves, GateDenies, GatePauses,
         resume_with_approval, rollback_to, RollbackSetsHead, commit_rollback,
         RollbackAppends, Drop, Finish
<1> QED
  BY <1>1 DEF Becomes, TasksOK

\* What StagesInOrder says of one task.
InOrder(t) ==
  /\ out[t] # << >> => At(t, "evaluating")
  /\ Len(out[t]) <= stages
  /\ \A i \in 1 .. Len(out[t]) - 1 : out[t][i].decision = Continue

LEMMA ForgottenInOrder ==
  ASSUME OutOK, NEW t \in Tasks, Forget(t)
  PROVE  InOrder(t)'
<1>1. out'[t] = << >> /\ stages' = stages
  BY DEF Forget, OutOK
<1> QED
  BY <1>1, NoResults DEF InOrder, OutOK

LEMMA StageInOrder ==
  ASSUME OutOK, NEW t \in Tasks, InOrder(t), EvaluateStage(t)
  PROVE  InOrder(t)'
<1>1. PICK score \in Scores, verdict \in EvalStage :
         out' = [out EXCEPT ![t] = Append(@, StagedResult(score, verdict))]
  BY DEF EvaluateStage
<1> DEFINE result == StagedResult(score, verdict)
           n == Len(out[t])
<1>2. result \in StagedResults
  BY DEF StagedResults
<1>3. out'[t] = Append(out[t], result)
  BY <1>1 DEF OutOK
<1>4. /\ n \in Nat
      /\ Len(Append(out[t], result)) = n + 1
      /\ \A i \in 1 .. n : Append(out[t], result)[i] = out[t][i]
  BY <1>2, StageAppends DEF OutOK
\* The loop goes on only if the last stage so far said Continue.
<1>5. n # stages /\ (n > 0 => out[t][n].decision = Continue)
  BY DEF EvaluateStage, Ended, LastOf
<1>6. n + 1 <= stages
  BY <1>4, <1>5 DEF InOrder, OutOK
<1>7. \A i \in 1 .. n : out[t][i].decision = Continue
  BY <1>4, <1>5 DEF InOrder
<1>8. stages' = stages /\ At(t, "evaluating")'
  BY DEF EvaluateStage, vars, At
<1> QED
  BY <1>3, <1>4, <1>6, <1>7, <1>8 DEF InOrder

LEMMA OtherInOrder ==
  ASSUME OutOK, TasksOK, NEW t \in Tasks, StagedStep(t),
         NEW u \in Tasks, u # t, InOrder(u)
  PROVE  InOrder(u)'
<1>1. out'[u] = out[u] /\ stages' = stages
  BY StagedCases DEF OutOK, Forget, EvaluateStage
<1>2. task'[u] = task[u]
  BY StagedStepIsStep, OthersStand DEF vars
<1> QED
  BY <1>1, <1>2 DEF InOrder, At

LEMMA StepInOrder ==
  OutOK /\ Inv /\ StagesInOrder /\ [StagedNext]_stagedVars => StagesInOrder'
<1> SUFFICES ASSUME OutOK, Inv, StagesInOrder, [StagedNext]_stagedVars
             PROVE  StagesInOrder'
  OBVIOUS
<1>1. \A t \in Tasks : InOrder(t)
  BY DEF StagesInOrder, InOrder
<1>2. CASE UNCHANGED stagedVars
  BY <1>2 DEF stagedVars, vars, StagesInOrder, At
<1>3. ASSUME NEW t \in Tasks, StagedStep(t) PROVE StagesInOrder'
  <2>1. InOrder(t)'
    BY <1>1, <1>3, StagedCases, ForgottenInOrder, StageInOrder
  <2>2. \A u \in Tasks : u # t => InOrder(u)'
    BY <1>1, <1>3, OtherInOrder DEF Inv
  <2> QED
    BY <2>1, <2>2 DEF StagesInOrder, InOrder
<1> QED
  BY <1>2, <1>3 DEF StagedNext

\* CompositeEvaluator::run never runs a stage after one that decided, and no
\* result outlives the cycle it was made for, for pipelines of any length and
\* any number of cycles at a time.
THEOREM StagesStayInOrder == StagedSpec => []StagesInOrder
<1>1. StagedInit => StagesInOrder
  BY StagedInitOK, NoResults DEF StagedInit, StagesInOrder, OutOK
<1> QED
  BY <1>1, StagedInitOK, StagedNextOK, StepInOrder, CompositeIsEvaluator, Invariance,
     PTL DEF StagedSpec

-----------------------------------------------------------------------------
(* The result that is signed. *)

\* What a cycle appends bears its score.
LEMMA AppendedBears ==
  ASSUME NEW inputs, NEW score, NEW status, append(CycleNode(inputs, score, status)),
         NEW id \in Appended
  PROVE  nodes'[id].eval_results = Some(score)
<1> DEFINE node == CycleNode(inputs, score, status)
<1>1. node.eval_results = Some(score)
  BY DEF CycleNode, sign_node, CommitInputs
<1> HIDE DEF node
<1>2. Insert(node) \/ UNCHANGED ledger
  BY DEF append, node
<1>3. Insert(node) /\ id = node.agent_id
  BY <1>2 DEF Appended, Insert, ledger
<1>4. nodes'[id] = node
  BY <1>3 DEF Insert
<1> QED
  BY <1>1, <1>4

LEMMA DecisionBears ==
  ASSUME NEW t \in Tasks, NEW score, CycleDecides(t, score), NEW id \in Appended
  PROVE  nodes'[id].eval_results = Some(score)
<1>1. CASE UNCHANGED ledger
  BY <1>1 DEF ledger, Appended
<1>2. CASE \E status : append(CycleNode(task[t].inputs, score, status))
  BY <1>2, AppendedBears
<1> QED
  BY <1>1, <1>2
  DEF CycleDecides, RejectNotImproved, GateApproves, GateDenies, GatePauses,
      commit_promoted, commit_rejected

LEMMA StepSignsLast ==
  ASSUME OutOK, TasksOK, NEW u \in Tasks, StagedStep(u),
         NEW t \in Tasks, Decided(t), NEW id \in Appended
  PROVE  /\ Ended(out[t])
         /\ nodes'[id].eval_results = Some(LastOf(out[t]).score)
<1>1. task'[t] # task[t]
  BY DEF Decided, At
<1>2. u = t
  BY <1>1, StagedStepIsStep, OthersStand DEF vars
<1>3. ~UNCHANGED ledger
  BY DEF ledger, Appended
\* While a cycle is evaluated nothing else of its task appends.
<1>4. CompositeReturns(t)
  BY <1>1, <1>2, <1>3
  DEF StagedStep, EvaluateStage, StageFails, NoStages, EvaluatorFails, Elsewhere, vars,
      Decided, At, commit_root, run_cycle, StartCycle, resume_with_approval, rollback_to,
      RollbackSetsHead, commit_rollback, RollbackAppends, Drop
<1>5. PICK score \in FinalResult(out[t]) : CycleDecides(t, score)
  BY <1>4 DEF CompositeReturns
<1>6. score = LastOf(out[t]).score
  BY <1>5 DEF FinalResult, LastOf
<1>7. Ended(out[t])
  BY <1>4 DEF CompositeReturns
<1> QED
  BY <1>5, <1>6, <1>7, DecisionBears

\* evaluate returns the score of the last stage that ran, and that is what the
\* runner signs, for pipelines of any length and any number of cycles at a
\* time: no stage's score is taken for another's, nor a task's for another's.
THEOREM LastResultSigned == StagedSpec => SignsLastResult
<1>1. OutOK /\ Inv /\ [StagedNext]_stagedVars =>
        [\A t \in Tasks : Decided(t) =>
           \A id \in Appended :
             /\ Ended(out[t])
             /\ nodes'[id].eval_results = Some(LastOf(out[t]).score)]_stagedVars
  BY StepSignsLast DEF StagedNext, Inv
<1> QED
  BY <1>1, StagedInitOK, StagedNextOK, CompositeIsEvaluator, Invariance, PTL
  DEF StagedSpec, SignsLastResult

-----------------------------------------------------------------------------
(* The empty pipeline. *)

NoCycleNodes == \A id \in Ledger : ~IsCycleNode(Node(id))
NonePaused == \A t \in Tasks : ~At(t, "awaiting")

\* With no stage nothing pauses either, so there is nothing to approve.
EmptyOK == stages = 0 => NoCycleNodes /\ NonePaused

LEMMA AppendKeepsNoCycleNodes ==
  ASSUME NoCycleNodes, NEW node, append(node), ~IsCycleNode(node)
  PROVE  NoCycleNodes'
<1>1. CASE Contains(node.agent_id)
  BY <1>1 DEF append, ledger, NoCycleNodes, Ledger, Node
<1>2. CASE ~Contains(node.agent_id)
  <2>1. /\ Ledger' = Ledger \cup {node.agent_id}
        /\ nodes'[node.agent_id] = node
        /\ \A id \in Ledger : nodes'[id] = nodes[id]
    BY <1>2 DEF append, Insert, Contains, Ledger
  <2> QED
    BY <2>1 DEF NoCycleNodes, Node
<1> QED
  BY <1>1, <1>2

LEMMA RootIsNoCycleNode ==
  ASSUME NEW artifact, NEW scope, NEW now
  PROVE  ~IsCycleNode(sign_node(RootInputs(artifact, scope, now), SigningKey))
BY DEF RootInputs, sign_node, CommitInputs, IsCycleNode

LEMMA RollbackIsNoCycleNode ==
  ASSUME NEW op
  PROVE  ~IsCycleNode(RollbackNode(op))
<1>1. RollbackNode(op).mutation_intent = rollback(op.target_id)
  BY DEF RollbackNode, sign_node, CommitInputs
<1> QED
  BY <1>1 DEF IsCycleNode, rollback, rollback_target, Some, None

\* Without a stage the composite has no result to return.
LEMMA EmptyReturnsNothing ==
  ASSUME OutOK, NEW t \in Tasks, InOrder(t), stages = 0
  PROVE  ~CompositeReturns(t)
<1>1. DOMAIN out[t] = {}
  BY LenProperties DEF InOrder, OutOK
<1> QED
  BY <1>1 DEF CompositeReturns, FinalResult

\* What remains appends roots and rollbacks only, and pauses nothing.
LEMMA ElsewhereAppendsNoCycleNode ==
  ASSUME Inv, NoCycleNodes, NonePaused, NEW t \in Tasks,
         Elsewhere(t) \/ EvaluatorFails(t) \/ UNCHANGED vars
  PROVE  NoCycleNodes'
<1>1. CASE UNCHANGED ledger
  BY <1>1 DEF ledger, NoCycleNodes, Ledger, Node
<1>2. CASE commit_root(t)
  BY <1>2, RootIsNoCycleNode, AppendKeepsNoCycleNodes DEF commit_root
<1>3. CASE RollbackSetsHead(t)
  BY <1>3 DEF RollbackSetsHead, set_head, NoCycleNodes, Ledger, Node
<1>4. CASE RollbackAppends(t)
  BY <1>4, RollbackIsNoCycleNode, AppendKeepsNoCycleNodes DEF RollbackAppends
<1> QED
  BY <1>1, <1>2, <1>3, <1>4
  DEF Elsewhere, run_cycle, StartCycle, resume_with_approval, NonePaused, rollback_to,
      commit_rollback, Drop, EvaluatorFails, vars, ledger

LEMMA ElsewherePausesNothing ==
  ASSUME Inv, NonePaused, NEW t \in Tasks,
         Elsewhere(t) \/ EvaluatorFails(t) \/ UNCHANGED vars
  PROVE  NonePaused'
<1>1. UNCHANGED task \/ \E op : Becomes(t, op) /\ op.step # "awaiting"
  <2>1. CASE commit_root(t) \/ UNCHANGED vars
    BY <2>1 DEF commit_root, vars
  <2>2. CASE Finish(t)
    BY <2>2 DEF Finish, Idle
  <2>3. CASE run_cycle(t)
    BY <2>3 DEF run_cycle, StartCycle
  <2>4. CASE rollback_to(t)
    BY <2>4 DEF rollback_to
  <2>5. CASE commit_rollback(t)
    <3>1. PICK id \in DOMAIN nodes, parent_id \in head, now \in Timestamps :
             Becomes(t, [step |-> "rolling back", target_id |-> id,
                         target |-> Node(id), parent |-> Node(parent_id),
                         created_at |-> now])
      BY <2>5 DEF commit_rollback
    <3> DEFINE op == [step |-> "rolling back", target_id |-> id,
                      target |-> Node(id), parent |-> Node(parent_id),
                      created_at |-> now]
    <3>2. op.step # "awaiting"
      OBVIOUS
    <3>3. Becomes(t, op)
      BY <3>1
    <3> HIDE DEF op
    <3> QED
      BY <3>2, <3>3
  <2> QED
    BY <2>1, <2>2, <2>3, <2>4, <2>5
    DEF Elsewhere, resume_with_approval, RollbackSetsHead, RollbackAppends, Drop,
        EvaluatorFails
<1> QED
  BY <1>1 DEF NonePaused, At, Becomes, Inv, TasksOK

LEMMA StepKeepsEmpty ==
  OutOK /\ Inv /\ StagesInOrder /\ EmptyOK /\ [StagedNext]_stagedVars => EmptyOK'
<1> SUFFICES ASSUME OutOK, Inv, StagesInOrder, EmptyOK, [StagedNext]_stagedVars,
                    stages' = 0
             PROVE  NoCycleNodes' /\ NonePaused'
  BY DEF EmptyOK
<1>1. CASE UNCHANGED stagedVars
  BY <1>1 DEF stagedVars, vars, EmptyOK, NoCycleNodes, NonePaused, Ledger, Node, At
<1>2. ASSUME NEW t \in Tasks, StagedStep(t) PROVE NoCycleNodes' /\ NonePaused'
  <2>1. stages = 0
    BY <1>2, StagedCases DEF EvaluateStage, Forget
  <2>2. InOrder(t)
    BY DEF StagesInOrder, InOrder
  <2>3. Elsewhere(t) \/ EvaluatorFails(t) \/ UNCHANGED vars
    BY <1>2, <2>1, <2>2, EmptyReturnsNothing
    DEF StagedStep, EvaluateStage, StageFails, NoStages
  <2> QED
    BY <2>1, <2>3, ElsewhereAppendsNoCycleNode, ElsewherePausesNothing DEF EmptyOK
<1> QED
  BY <1>1, <1>2 DEF StagedNext

\* CompositeEvaluator::new takes an empty list of stages although it asks for
\* another, and evaluate makes an error of it: nothing is promoted, rejected
\* or paused by such a pipeline.
THEOREM EmptyPipelineStaysOut == StagedSpec => []EmptyPipelineCommitsNothing
<1>1. StagedInit => EmptyOK
  BY DEF StagedInit, Init, StoreInit, EmptyOK, NoCycleNodes, NonePaused, Ledger, At, Idle
<1>2. EmptyOK => EmptyPipelineCommitsNothing
  BY DEF EmptyOK, NoCycleNodes, EmptyPipelineCommitsNothing
<1> QED
  BY <1>1, <1>2, StagedInitOK, StagedNextOK, StepKeepsEmpty, StagesStayInOrder,
     CompositeIsEvaluator, Invariance, PTL DEF StagedSpec

=============================================================================
