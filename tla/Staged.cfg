\* Two cycles at a time, with pipelines of no stage, of one and of two;
\* every operation comes to its end.
SPECIFICATION FairStagedSpec
CONSTANTS
  t1 = t1
  t2 = t2
  runner = runner
  officer = officer
  GenerationModulus = 8
  Tasks = {t1, t2}
  Artifacts <- OneArtifact
  Intents <- PlainIntent
  Scopes <- OpenScope
  Timestamps = {1}
  Scores <- FiniteScores
  SigningKey = runner
  ApprovalKeys = {officer}
  Foreign = {}
  RequireStrictImprovement = TRUE
  MaxNodes = 3
  MaxStages = 2
INVARIANTS
  StagesInOrder
  EmptyPipelineCommitsNothing
PROPERTIES
  SignsLastResult
  ImplementsRunner
  OperationsFinish
