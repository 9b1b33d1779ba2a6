CONSTANTS
  a = a
  b = b
  key = key
  Blocks = {a, b, key}
  Files <- MCRepeated
  Missing = Missing
  Sensitive = {key}
  Substantive = {a, key}
  TriggerAt = 2
  Limit = 2
  Target = 1
  RecentAge = 1
  StaleAge = 2
  Weights <- MCWeights
  NoTrim = NoTrim
  MaxNow = 2
  MaxOps = 1
  MaxMemories = 0
  MaxEdits = 0
SPECIFICATION FairSpec
CHECK_DEADLOCK FALSE
PROPERTY RemovedBlocksBecomeEvidence
