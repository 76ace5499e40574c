\* Two handles on one path, alone or at once, with two failures of any kind.
SPECIFICATION Spec
CONSTANTS
  a = a
  c = c
  h1 = h1
  h2 = h2
  GenerationModulus = 8
  Nodes <- TwoNodes
  Handles = {h1, h2}
  MaxFaults = 2
INVARIANTS
  TypeOK
  AckedRecovered
  NoLineTwice
  ReopenIsIdentity
  MemoryBackedByFile
