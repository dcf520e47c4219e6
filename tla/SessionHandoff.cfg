SPECIFICATION HandoffSpec
CONSTANTS
  Launches = {l1, l2}
  Panes = {p1, p2}
  Clients = {c1, c2}
  MaxDeaths = 3
  NoLaunch = NoLaunch
SYMMETRY HandoffSymmetry
CHECK_DEADLOCK FALSE
INVARIANTS RecordWhileOnScreen CleanReturnClosed
PROPERTIES OnlyReadDeathsClosed
