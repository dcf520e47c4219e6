SPECIFICATION ControlSpec
CONSTANTS
  Hosts = {h1}
  Kills = {k1}
  Terminals = {t1}
  Sessions = {"own"}
  OwnSessions = {}
  Conditions = {"answers", "own_only", "skewed", "refuses", "hangs"}
  Custom = {}
  Multiplex = "auto"
CHECK_DEADLOCK FALSE
INVARIANTS RemoteSuccessIsReal
PROPERTIES AttachIsNotHung
