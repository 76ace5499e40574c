\* Two generations at a time, with every failure of mutator, sandbox and
\* evaluator, a leak, and a host that approves, rolls back and drops.  Random
\* may choose whatever another selector chooses.
SPECIFICATION FairDriverSpec
CONSTANTS
  t1 = t1
  t2 = t2
  runner = runner
  officer = officer
  GenerationModulus = 8
  Tasks = {t1, t2}
  Artifacts <- OneArtifact
  Intents <- BothIntents
  Scopes <- OpenOrSealed
  Timestamps = {1}
  Scores <- FiniteScores
  SigningKey = runner
  ApprovalKeys = {officer}
  Foreign = {}
  RequireStrictImprovement = TRUE
  MaxNodes = 3
  MaxHash = 4
  MaxChildren = 2
  Strategy = "Random"
  MaxLeaks = 1
INVARIANTS
  DriverTypeOK
  SandboxBalanced
  EnforcedBeforeEvaluated
  ParentsPromoted
PROPERTY
  GenerationsReturn
