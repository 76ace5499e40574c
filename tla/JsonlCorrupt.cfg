\* One failed write and the ledger cannot be opened.
SPECIFICATION Spec
CONSTANTS
  a = a
  c = c
  h1 = h1
  h2 = h2
  GenerationModulus = 8
  Nodes <- TwoNodes
  Handles = {h1}
  MaxFaults = 1
INVARIANTS
  AckedReopens
