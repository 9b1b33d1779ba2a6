CONSTANTS
  a = a
  b = b
  key = key
  Blocks = {a, b, key}
  Files <- MCFiles
  Missing = Missing
  Sensitive = {key}
  Substantive = {a, key}
  TriggerAt = 2
  Limit = 2
  Target = 1
  RecentAge = 1
  StaleAge = 2
  Weights <- MCWeights
  NoTrim = NoTrim
  MaxNow = 2
  MaxOps = 2
  MaxMemories = 1
  MaxEdits = 1
SPECIFICATION Spec
CHECK_DEADLOCK FALSE
INVARIANTS
  EvidenceTypeOK
  IngestIsComplete
  RemovedStaysCitable
  BypassNeedsPolicyOrRevision
