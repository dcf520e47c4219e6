SPECIFICATION Spec
CONSTANTS
  Launches = {a, b}
  Names = {n}
  Kinds = {"direct"}
  Unset = Unset
  Foreign = Foreign
  MaxSecond = 0
  MayTamper = {}
  Listers = {}
  Killers = {k}
CHECK_DEADLOCK FALSE
INVARIANTS
  TypeOK
  DurableBeforeExec
  CleanupAfterTerminal
PROPERTIES
  OnlyOwnSessionEnds
