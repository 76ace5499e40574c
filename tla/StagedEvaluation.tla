-------------------------- MODULE StagedEvaluation --------------------------
(***************************************************************************)
(* The runner with a CompositeEvaluator (evaluator.rs): while a cycle is   *)
(* being evaluated the stages run one after the other, each returning a    *)
(* score and a decision, until one decides Stop or Promote or none is      *)
(* left; evaluate then returns the score of the last one that ran and      *)
(* forgets the decisions.  A stage that only implements evaluate decides   *)
(* Continue.                                                               *)
(***************************************************************************)
EXTENDS VehProperties

CONSTANT MaxStages   \* bound: the length of the pipeline

ASSUME StagedAssumption == MaxStages \in Nat

VARIABLES
  stages,  \* how many stages the composite was made with
  out      \* the StagedResults of each task's evaluation so far

stagedVars == <<vars, stages, out>>

Continue  == "Continue"
Promote   == "Promote"
Stop      == "Stop"
EvalStage == {Continue, Promote, Stop}

StagedResult(score, verdict) == [score |-> score, decision |-> verdict]

LastOf(results) == results[Len(results)]

\* Mutant: the loop goes on after Promote.
EndedOnStop(results) ==
  \/ Len(results) = stages
  \/ Len(results) > 0 /\ LastOf(results).decision = Stop

\* The loop has left its last iteration.
Ended(results) ==
  \/ Len(results) = stages
  \/ Len(results) > 0 /\ LastOf(results).decision # Continue

\* Mutant: the result of the first stage, not of the last.
FirstResult(results) == {results[i].score : i \in DOMAIN results \cap {1}}

\* Mutant: a pipeline without stages scores zero.
FinalOrZero(results) ==
  IF results = << >> THEN {Some(0)} ELSE {LastOf(results).score}

\* next_back: none for a pipeline without stages.
FinalResult(results) == {results[i].score : i \in DOMAIN results \cap {Len(results)}}

\* The call of evaluate is over, whichever way.
Forget(t) ==
  /\ out' = [out EXCEPT ![t] = << >>]
  /\ UNCHANGED stages

EvaluateStage(t) ==
  /\ At(t, "evaluating")
  /\ ~Ended(out[t])
  /\ \E score \in Scores, verdict \in EvalStage :
       out' = [out EXCEPT ![t] = Append(@, StagedResult(score, verdict))]
  /\ UNCHANGED <<vars, stages>>

\* `?` on the stage's error.
StageFails(t) ==
  /\ ~Ended(out[t])
  /\ EvaluatorFails(t)
  /\ Forget(t)

\* Error::Evaluator("composite has no stages").
NoStages(t) ==
  /\ Ended(out[t]) /\ FinalResult(out[t]) = {}
  /\ EvaluatorFails(t)
  /\ Forget(t)

CompositeReturns(t) ==
  /\ Ended(out[t])
  /\ \E score \in FinalResult(out[t]) : CycleDecides(t, score)
  /\ Forget(t)

\* Everything else the runner does; a dropped cycle drops its composite.
Elsewhere(t) ==
  /\ \/ commit_root(t) \/ run_cycle(t) \/ resume_with_approval(t)
     \/ rollback_to(t) \/ RollbackSetsHead(t)
     \/ commit_rollback(t) \/ RollbackAppends(t)
     \/ Drop(t)
  /\ Forget(t)

StagedInit ==
  /\ Init
  /\ stages \in 0 .. MaxStages
  /\ out = [t \in Tasks |-> << >>]

StagedStep(t) ==
  \/ EvaluateStage(t)
  \/ StageFails(t)
  \/ NoStages(t)
  \/ CompositeReturns(t)
  \/ Elsewhere(t)

StagedNext == \E t \in Tasks : StagedStep(t)

StagedSpec == StagedInit /\ [][StagedNext]_stagedVars

\* Every stage returns or fails, and what the runner does then is polled.
StagedFairness ==
  \A t \in Tasks :
    /\ WF_stagedVars(EvaluateStage(t) \/ StageFails(t))
    /\ WF_stagedVars(NoStages(t) \/ CompositeReturns(t))
    /\ WF_stagedVars(RollbackSetsHead(t) /\ Forget(t))
    /\ WF_stagedVars(RollbackAppends(t) /\ Forget(t))

FairStagedSpec == StagedSpec /\ StagedFairness

-----------------------------------------------------------------------------
(* Properties. *)

\* Only the last stage that ran may have decided to end the pipeline, and
\* stages run only while a cycle waits for them: a composite never sees the
\* results of a cycle that was dropped, failed or came before it.
StagesInOrder ==
  \A t \in Tasks :
    /\ out[t] # << >> => At(t, "evaluating")
    /\ Len(out[t]) <= stages
    /\ \A i \in 1 .. Len(out[t]) - 1 : out[t][i].decision = Continue

Decided(t) == At(t, "evaluating") /\ (~At(t, "evaluating"))'
Appended == DOMAIN nodes' \ DOMAIN nodes

\* What a cycle signs is the score of the stage that ended its pipeline, not
\* of an earlier one nor of another task's.
SignsLastResult ==
  [][\A t \in Tasks : Decided(t) =>
       \A id \in Appended :
         /\ Ended(out[t])
         /\ nodes'[id].eval_results = Some(LastOf(out[t]).score)]_stagedVars

\* A pipeline without stages is an error and not a score: it lets no
\* candidate into the ledger, promoted or rejected.
EmptyPipelineCommitsNothing ==
  stages = 0 => \A id \in Ledger : ~IsCycleNode(Node(id))

\* The composite is one of the evaluators that Veh admits: whatever stages
\* return, the ledger and the tasks only do what they do with any evaluator,
\* and an evaluation ends when each of its stages does.
ImplementsRunner == FairSpec

\* "Candidate failed; abandon further evaluation" (evaluator.rs, Stop): a
\* candidate that a stage stopped is not promoted.
StoppedNotPromoted ==
  [][\A t \in Tasks : Decided(t) =>
       \A id \in Appended :
         LastOf(out[t]).decision = Stop => nodes'[id].status = Rejected]_stagedVars

=============================================================================
