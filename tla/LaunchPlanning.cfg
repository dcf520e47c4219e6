SPECIFICATION Spec
CONSTANTS
  ann = ann
  bob = bob
  here = here
  boxed = boxed
  hub = hub
  near = near
  far = far
  q1 = q1
  q2 = q2
  c1 = c1
  c2 = c2
  topic = topic
  topic2 = topic2
  Users = {ann, bob}
  Profiles = {here, boxed}
  GitProfiles = {hub}
  Paths = {q1, q2}
  Places = {near, far}
  Caller = ann
  Enabled <- InOrder
  Default = "none"
  AutoMode = TRUE
  Rule <- Rules
  ProfileUser <- Launching
  Direct = {here}
  GitOf <- OnHub
  LeadsTo <- Leading
  Clients = {c1, c2}
  Commands <- Asked
  Branches = {topic, topic2}
  SlugOf <- OnlyTopic
  OutOfTree = FALSE
  BaseOf <- OnlyFoo
  Creatable = {near}
  RemoteBase = TRUE
  OnMissing = "create"
  MaxSessions = 2
CHECK_DEADLOCK FALSE
INVARIANTS WorktreeReady CreatedIsWhole EntersItsOwn
PROPERTIES SettlesAuthorized
