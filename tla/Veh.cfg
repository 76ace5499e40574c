\* Every operation and every decision of the gate, over lineages of three nodes.
SPECIFICATION Spec
CONSTANTS
  t1 = t1
  t2 = t2
  runner = runner
  officer = officer
  GenerationModulus = 8
  Tasks = {t1, t2}
  Artifacts <- BothArtifacts
  Intents <- BothIntents
  Scopes <- BothScopes
  Timestamps = {1}
  Scores <- OneScore
  SigningKey = runner
  ApprovalKeys = {officer}
  Foreign <- Seeded
  RequireStrictImprovement = TRUE
  MaxNodes = 3
SYMMETRY TaskSymmetry
INVARIANTS
  TypeOK
  LedgerIndexed
  NodesDoNotMix
  HeadPromoted
  LineageAcyclic
  GateRespected
  StrictImprovement
  RollbackFaithful
PROPERTIES
  ImplementsDag
