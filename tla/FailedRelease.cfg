SPECIFICATION Spec
CONSTANTS
  Launches = {a}
  Names = {n}
  Kinds = {"direct"}
  Unset = Unset
  Foreign = Foreign
  MaxSecond = 0
  MayTamper = {}
  Listers = {}
  Killers = {}
CHECK_DEADLOCK FALSE
INVARIANTS
  FailedReleaseLeavesNoAgent
