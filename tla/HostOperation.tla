--------------------------- MODULE HostOperation ---------------------------
(***************************************************************************)
(* One host in operation: the configuration is edited on settings screens, *)
(* rendered, installed and copied while commands that have loaded it run,  *)
(* sessions come and go, and the host goes down.                           *)
(***************************************************************************)
EXTENDS SettingsEditor, SessionCommands

CONSTANT Scenes  \* what is about: [editors, keys, files, commands, asks]

ASSUME SceneAssumption ==
  \A s \in Scenes : s.editors \subseteq Editors /\ s.commands \subseteq Commands

VARIABLE scene   \* one of them

vars == <<editVars, commandVars, scene>>

Init == EditorInit /\ CommandsInit /\ scene \in Scenes

Writes ==
  \/ \E e \in scene.editors : Edits(e, scene.keys \intersect Edited)
  \/ \E p \in Payloads \intersect scene.files : Render(p)
  \/ InstallDraft
  \/ \E f \in Copied \intersect scene.files : Copy(f)

Runs ==
  \/ \E c \in scene.commands : CommandRuns(c, config.now, scene.asks \intersect Asks)
  \/ \E launch \in Launches : scene.commands # {} /\ Opens(config.now, launch)
  \/ \E s \in sessions : Ends(s)

Next ==
  \/ Writes /\ UNCHANGED <<commandVars, scene>>
  \/ Runs /\ UNCHANGED <<editVars, scene>>
  \/ HostCrashes /\ sessions' = {} /\ command' = [c \in Commands |-> Idle] /\ UNCHANGED <<opened, scene>>

Spec == Init /\ [][Next]_vars

-----------------------------------------------------------------------------
\* A command that has got past loading the configuration can rely on it: its
\* users have a backend, its profiles an agent and a runtime, what the runtimes
\* are asked to do they can do, and its rules leave something to launch
\* (config_loader.py, parse_config).
LoadedIsUsable == \A c \in Commands :
  command[c].at # "idle" => Usable(command[c].file.parts, Users)

\* A session whose launch record counts under the configuration a command has
\* loaded - it is in the directory that is configured, and its user's backend is
\* the one it was launched through - answers to its full name at its place, and
\* is alone to, whatever prefixes have been configured since
\* (sessions_probe.py:448-474, resolve_session).
ManagedStaysReachable ==
  [][command' # command => \A c \in Commands :
       command[c].at = "list" /\ command'[c].at = "inspect" =>
         \A s \in sessions :
           Verified(command[c].file, s) /\ s.user = Target(c) /\ s.home = Home(command[c].file, s.user) =>
             Resolved(command[c].file, command'[c].rows, s.name) = {s}]_vars

\* The invariant it rests on: at a place, a user's sessions are told apart by name.
NamesInv == \A r, s \in sessions :
  r.user = s.user /\ r.home = s.home /\ r.name = s.name => r = s
=============================================================================
