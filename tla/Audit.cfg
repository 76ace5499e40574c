\* A node that came out of a cycle has no audit record.
SPECIFICATION Spec
CONSTANTS
  t1 = t1
  t2 = t2
  runner = runner
  officer = officer
  GenerationModulus = 8
  Tasks = {t1, t2}
  Artifacts <- OneArtifact
  Intents <- PlainIntent
  Scopes <- OpenScope
  Timestamps = {1}
  Scores <- FiniteScores
  SigningKey = runner
  ApprovalKeys = {officer}
  Foreign = {}
  RequireStrictImprovement = TRUE
  MaxNodes = 3
  ByteOrder <- NoWords
  MaxDepth = 0
SYMMETRY TaskSymmetry
INVARIANT
  EveryNodeAudited
