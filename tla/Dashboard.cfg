SPECIFICATION Spec
CONSTANTS
  a = a
  a2 = a2
  b = b
  c = c
  h1 = h1
  ann = ann
  bob = bob
  Local = Local
  Peers <- OnePeer
  Keys = {a, a2, b, c}
  HostOf <- Hosting
  OwnerOf <- Owning
  NameOf <- Naming
  Matching = {a, c}
  Me = ann
  MaxPosted = 1
  Debounce = 1
  MaxLatency = 2
CHECK_DEADLOCK FALSE
INVARIANTS ShownIsCurrent RenderedInTime UserColumnShown
PROPERTIES CursorKeepsItsRow EstablishedRowsKeepOrder
