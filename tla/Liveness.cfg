SPECIFICATION FairSpec
CONSTANTS
  Launches = {a}
  Names = {n}
  Kinds = {"direct", "command"}
  Unset = Unset
  Foreign = Foreign
  MaxSecond = 1
  MayTamper = {}
  Listers = {g}
  Killers = {k}
CHECK_DEADLOCK FALSE
PROPERTIES
  PaneDecides
  StaleRecordReclaimed
