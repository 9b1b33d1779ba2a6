CONSTANTS
  p1 = p1
  p2 = p2
  q1 = q1
  q2 = q2
  new = new
  Empty = Empty
  Missing = Missing
  NoHash = NoHash
  NoProposal = NoProposal
  NoContent = NoContent
  File = File
  Proposals = {p1}
  Procs = {q1, q2}
  Contents = {new, Empty}
  BodyOf <- MCBodyOf
  PendingRoot = TRUE
  MaxReceipts = 2
  MaxEdits = 1
SPECIFICATION Spec
INVARIANTS
  FixtureTypeOK
  ReceiptsExplainFile
PROPERTY WithdrawnStaysWithdrawn
