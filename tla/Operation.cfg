\* Settings, rendered and copied files, commands and crashes on one host.
SPECIFICATION Spec
CONSTANTS
  e1 = e1
  e2 = e2
  c1 = c1
  c2 = c2
  Editors <- MCEditors
  Root <- MCRoot
  Edited <- MCEdited
  Typed <- MCTyped
  Payloads <- MCPayloads
  Copied <- MCCopied
  FirstFile <- MCFirstFile
  MaxWrites = 2
  Commands <- MCCommands
  Asks <- MCAsks
  Users <- MCUsers
  Caller = "alice"
  Mapped = "bob"
  Launches <- MCLaunches
  MaxSessions = 2
  Scenes <- MCScenes
SYMMETRY Symmetry
INVARIANTS SavedIsKept WritersAreExact LoadedIsUsable
PROPERTY ManagedStaysReachable
