CONSTANTS
  a1 = a1
  a2 = a2
  a3 = a3
  b1 = b1
  b2 = b2
  plain = plain
  a = a
  b = b
  Events = {a1, a2, a3, b1, b2, plain}
  Clusters = {a, b}
  NoCluster = NoCluster
  ClusterOf <- MCClusterOf
  Severe = {a3, b1}
  Readers = {r1, r2}
  Idle = Idle
  Absent = Absent
  MinEvents = 2
SYMMETRY MCSymmetry
SPECIFICATION Spec
INVARIANTS
  ClustersCountTheirEvents
  DraftsRestOnEvents
PROPERTY OnlyOlderListingsResolve
