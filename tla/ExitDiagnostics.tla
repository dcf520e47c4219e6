--------------------------- MODULE ExitDiagnostics ---------------------------
(***************************************************************************)
(* The error screens of a managed session, as tmux keeps them: dead panes  *)
(* and the native controls uxon installs (infra/tmux_diagnostics.py).  A   *)
(* pane's death is numbered by an option, a key acknowledges the death on  *)
(* screen by copying the number, and a guarded kill-pane closes what is    *)
(* dead and acknowledged.                                                  *)
(*                                                                         *)
(* One tmux session id is modelled, the one a restarted server hands out   *)
(* again: the session that bears it may change from one launch to another. *)
(* Pane ids are reused only then.                                          *)
(***************************************************************************)
EXTENDS Integers, FiniteSetsExt

CONSTANTS
  Launches, Panes, NoLaunch,
  MaxDeaths   \* bound: deaths of all the panes of a session

ASSUME DiagnosticsAssumption ==
  MaxDeaths \in Nat /\ NoLaunch \notin Launches /\ Panes # {}

VARIABLES
  session,  \* the launch whose session bears the id, or NoLaunch
  used,     \* the launches that ever did
  controls, \* the session has @uxon-live-key-table: keys and hooks are armed
  pane,     \* state, @uxon-death-generation and @uxon-dismissed (0: unset)
  records,  \* launches with a finalized record
  deaths,   \* history: how often each pane died
  read      \* history: the last of its deaths that somebody acknowledged

tmuxVars == <<session, used, controls, pane, records, deaths, read>>

Fresh == [is |-> "none", generation |-> 0, dismissed |-> 0]

DiagnosticsTypeOK ==
  /\ session \in Launches \union {NoLaunch} /\ used \subseteq Launches
  /\ controls \in BOOLEAN /\ records \subseteq used
  /\ pane \in [Panes -> [is : {"none", "live", "dead", "closed"},
                         generation : 0..MaxDeaths, dismissed : 0..MaxDeaths]]
  /\ deaths \in [Panes -> 0..MaxDeaths] /\ read \in [Panes -> 0..MaxDeaths]

DiagnosticsInit ==
  /\ session = NoLaunch /\ used = {} /\ controls = FALSE /\ records = {}
  /\ pane = [p \in Panes |-> Fresh]
  /\ deaths = [p \in Panes |-> 0] /\ read = [p \in Panes |-> 0]

\* session_identity_predicate, evaluated on tmux's own queue.
IdentityHolds(l) == session = l

\* ACKNOWLEDGED_FORMAT
Acknowledged(p) == pane[p].generation # 0 /\ pane[p].dismissed = pane[p].generation

OnScreen(p) == pane[p].is \in {"live", "dead"}

\* dismissed_panes of a listing of the id, whoever bears it by then.
DismissedPanes == {p \in Panes : pane[p].is = "dead" /\ Acknowledged(p)}
-----------------------------------------------------------------------------
\* A launch takes the id on a server of its own; its creator may have had
\* the controls configured off.
Starts(l, armed) ==
  /\ session = NoLaunch /\ l \notin used
  /\ session' = l /\ used' = used \union {l}
  /\ controls' = armed /\ records' = records \union {l}
  /\ \E p \in Panes : pane' = [q \in Panes |-> IF q = p THEN [Fresh EXCEPT !.is = "live"] ELSE Fresh]
  /\ deaths' = [p \in Panes |-> 0] /\ read' = [p \in Panes |-> 0]

\* The session goes with its last pane.
LeavesScreen(p) ==
  /\ pane' = [pane EXCEPT ![p].is = "closed"]
  /\ session' = IF \E q \in Panes \ {p} : OnScreen(q) THEN session ELSE NoLaunch
  /\ UNCHANGED <<used, controls, records, deaths, read>>

\* It is killed, or its server ends.
SessionEnds ==
  /\ session # NoLaunch /\ session' = NoLaunch
  /\ pane' = [p \in Panes |-> [pane[p] EXCEPT !.is = IF OnScreen(p) THEN "closed" ELSE @]]
  /\ UNCHANGED <<used, controls, records, deaths, read>>

\* Another removal, or the collector, deletes the record of a session that is gone.
RecordGoes == \E l \in records :
  /\ session # l /\ records' = records \ {l}
  /\ UNCHANGED <<session, used, controls, pane, deaths, read>>

PaneSplit == \E p \in Panes :
  /\ session # NoLaunch /\ pane[p].is = "none"
  /\ pane' = [pane EXCEPT ![p].is = "live"]
  /\ UNCHANGED <<session, used, controls, records, deaths, read>>

SumDeaths == MapThenSumSet(LAMBDA p : deaths[p], Panes)

\* Mutant of NextGeneration: a pane's first number stays.
SameGeneration(p) == IF pane[p].generation = 0 THEN 1 ELSE pane[p].generation

\* The pane-died hook advances the number before any other command runs.
NextGeneration(p) == pane[p].generation + 1

PaneDies == \E p \in Panes :
  /\ pane[p].is = "live" /\ SumDeaths < MaxDeaths
  /\ pane' = [pane EXCEPT ![p].is = "dead",
                          ![p].generation = IF controls THEN NextGeneration(p) ELSE @]
  /\ deaths' = [deaths EXCEPT ![p] = @ + 1]
  /\ UNCHANGED <<session, used, controls, records, read>>

\* respawn-pane keeps the pane's options.
PaneRespawns == \E p \in Panes :
  /\ pane[p].is = "dead" /\ pane' = [pane EXCEPT ![p].is = "live"]
  /\ UNCHANGED <<session, used, controls, records, deaths, read>>

\* The user closes a pane by hand.
PaneClosed == \E p \in Panes : OnScreen(p) /\ LeavesScreen(p)

\* Mutant of AckedGeneration: an unset number is copied as it is.
UnsetGeneration(p) == pane[p].generation
\* A pane that died before the controls were installed gets its number now.
AckedGeneration(p) == IF pane[p].generation = 0 THEN 1 ELSE pane[p].generation

\* Enter, Escape or q on the error screen; the client then exits with 125.
AcknowledgeKey(p) ==
  /\ controls /\ pane[p].is = "dead"
  /\ pane' = [pane EXCEPT ![p].generation = AckedGeneration(p), ![p].dismissed = AckedGeneration(p)]
  /\ read' = [read EXCEPT ![p] = deaths[p]]
  /\ UNCHANGED <<session, used, controls, records, deaths>>

\* The guarded kill-pane of _dismiss_diagnostics, when tmux runs it.
DismissCommand(l, p) ==
  IF pane[p].is = "dead" /\ Acknowledged(p) /\ IdentityHolds(l)
  THEN LeavesScreen(p)
  ELSE UNCHANGED tmuxVars

\* diagnostics_script, guarded by the identity.
InstallControls ==
  /\ controls' = TRUE
  /\ UNCHANGED <<session, used, pane, records, deaths, read>>

Others == SessionEnds \/ RecordGoes \/ PaneSplit \/ PaneDies \/ PaneRespawns \/ PaneClosed
=============================================================================
