\* One process after another over one file, with two failures of any kind, and a
\* host that keeps the root from one process to the next.
SPECIFICATION DurableSpec
CONSTANTS
  t1 = t1
  t2 = t2
  runner = runner
  officer = officer
  GenerationModulus = 8
  Tasks = {t1}
  Artifacts <- OneArtifact
  Intents <- RiskyIntent
  Scopes <- OpenScope
  Timestamps = {1}
  Scores <- OneScore
  SigningKey = runner
  ApprovalKeys = {officer}
  Foreign <- Kept
  RequireStrictImprovement = TRUE
  MaxNodes = 3
  MaxFaults = 2
INVARIANT
  FileIsLineage
PROPERTIES
  RestartNeverGoesBack
  ImplementsDurableLog
