SPECIFICATION Spec
CONSTANTS
  Launches = {a}
  Names = {n}
  Kinds <- RuntimeKinds
  Unset = Unset
  Foreign = Foreign
  MaxSecond = 0
  MayTamper = {a}
  Listers = {g}
  Killers = {k1, k2}
SYMMETRY RemovalSymmetry
CHECK_DEADLOCK FALSE
INVARIANTS
  RunningAgentKeepsRecord
  OrphanKeepsRecord
  ReportedRemovalIsComplete
PROPERTIES
  ImplementsAuthority
