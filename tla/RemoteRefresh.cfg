SPECIFICATION RemoteSpec
CONSTANTS
  Hosts = {h1}
  AttemptIds = {a1, a2}
  Sessions = {"other"}
  OwnSessions = {}
  Conditions = {"answers", "own_only", "hangs"}
  Custom = {}
  Multiplex = "auto"
CHECK_DEADLOCK FALSE
INVARIANTS OneFetchPerHost ReservationCoversResult
PROPERTIES ReadsInOrder ReservationEnds PeerConverges
