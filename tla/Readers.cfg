\* Every strategy over the lineages of up to four nodes, rejected ones,
\* rollbacks, negative scores and ties included.
SPECIFICATION Spec
CONSTANTS
  t1 = t1
  t2 = t2
  runner = runner
  officer = officer
  GenerationModulus = 8
  Tasks = {t1}
  Artifacts <- OneArtifact
  Intents <- PlainIntent
  Scopes <- OpenScope
  Timestamps = {1}
  Scores <- ManyScores
  SigningKey = runner
  ApprovalKeys = {officer}
  Foreign = {}
  RequireStrictImprovement = TRUE
  MaxNodes = 4
  MaxHash = 12
  MaxChildren = 3
INVARIANTS
  SelectsPromoted
  BestLeadsEnsemble
  WeightsDecide
  DotIsForest
  StrictImprovement
