CONSTANTS
  p1 = p1
  p2 = p2
  s1 = s1
  c1 = c1
  canonical = canonical
  w1 = w1
  w2 = w2
  Proposals = {p1, p2}
  Contents = {c1}
  Sources = {canonical}
  WriteAllowed = {canonical}
  Sessions = {s1}
  Continues = {}
  Scenarios = {}
  SourceOf <- MCSourceOf
  TargetOf <- MCTargetOf
  DraftOf <- MCDraftOf
  NewMemory = NewMemory
  NoSession = NoSession
  NoRead = NoRead
  NoRow = NoRow
  MaxVersion = 2
  MaxEvents = 0
  MaxSecond = 0
  Workers = {w1, w2}
  NoClaim = NoClaim
  NoJob = NoJob
  BatchLimit = 2
  MaxAttempts = 2
  MaxStops = 1
  Timely = TRUE
SPECIFICATION FairWorkerSpec
PROPERTY QueuedJobsSettle
