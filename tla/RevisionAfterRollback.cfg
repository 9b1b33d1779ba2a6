CONSTANTS
  p1 = p1
  p2 = p2
  p3 = p3
  s1 = s1
  s2 = s2
  c1 = c1
  c2 = c2
  canonical = canonical
  Proposals = {p1, p2, p3}
  Contents = {c1, c2}
  Sources = {canonical}
  WriteAllowed = {canonical}
  Sessions = {s1, s2}
  Continues = {}
  Scenarios = {"stale_project_state", "repeated_preference"}
  SourceOf <- MCSourceOf
  TargetOf <- MCTargetOf
  DraftOf <- MCDraftOf
  NewMemory = NewMemory
  NoSession = NoSession
  NoRead = NoRead
  NoRow = NoRow
  MaxVersion = 2
  MaxEvents = 3
  MaxSecond = 1
SYMMETRY SessionSymmetry
SPECIFICATION Spec
INVARIANT ApprovedRevisionWritable
