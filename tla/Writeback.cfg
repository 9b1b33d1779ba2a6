CONSTANTS
  full = full
  trimmed = trimmed
  solid = solid
  u1 = u1
  p1 = p1
  p2 = p2
  Contents = {full, trimmed, solid}
  OverTrigger = {full, solid}
  TrimOf <- MCTrimOf
  StartContent = full
  Procs = {p1, p2}
  Undos = {u1}
  Undone <- MCUndone
  MaxRetries = 1
  Free = Free
  MaxEdits = 1
  MaxFailures = 1
SYMMETRY ProcSymmetry
SPECIFICATION Spec
INVARIANTS
  TypeOK
  TrimIsOnRecord
  EvidenceBacksCompletion
PROPERTY StaleHashStops
