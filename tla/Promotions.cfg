CONSTANTS
  p1 = p1
  p2 = p2
  c1 = c1
  c2 = c2
  s1 = s1
  s2 = s2
  suite = suite
  Sessions = {s1, s2}
  Proposals = {p1, p2}
  Candidates = {c1, c2}
  Base = Base
  CandidateOf <- MCCandidateOf
  Suites = {suite}
  Recommends <- MCRecommends
  NoSuite = NoSuite
  Idle = Idle
  MaxPromotions = 3
  PromotionTimes = {0}
  RollbackTimes = {0, 1}
SYMMETRY MCSymmetry
SPECIFICATION Spec
INVARIANTS
  PromotionsTypeOK
  PromotedOnEvidence
  PromotionsFormChains
PROPERTY PromotionsAreKept
