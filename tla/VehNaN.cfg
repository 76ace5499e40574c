\* A score that is not a number.
SPECIFICATION Spec
CONSTANTS
  t1 = t1
  t2 = t2
  runner = runner
  officer = officer
  GenerationModulus = 8
  Tasks = {t1, t2}
  Artifacts <- OneArtifact
  Intents <- PlainIntent
  Scopes <- OpenScope
  Timestamps = {1}
  Scores <- ScoresAndNaN
  SigningKey = runner
  ApprovalKeys = {officer}
  Foreign = {}
  RequireStrictImprovement = TRUE
  MaxNodes = 3
SYMMETRY TaskSymmetry
INVARIANTS
  NotGreaterIsRejected
