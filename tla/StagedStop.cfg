\* A stage that says Stop does not keep its candidate from promotion.
SPECIFICATION StagedSpec
CONSTANTS
  t1 = t1
  t2 = t2
  runner = runner
  officer = officer
  GenerationModulus = 8
  Tasks = {t1, t2}
  Artifacts <- OneArtifact
  Intents <- PlainIntent
  Scopes <- OpenScope
  Timestamps = {1}
  Scores <- FiniteScores
  SigningKey = runner
  ApprovalKeys = {officer}
  Foreign = {}
  RequireStrictImprovement = TRUE
  MaxNodes = 3
  MaxStages = 2
SYMMETRY TaskSymmetry
PROPERTY
  StoppedNotPromoted
