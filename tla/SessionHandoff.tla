--------------------------- MODULE SessionHandoff ---------------------------
(***************************************************************************)
(* The interactive handoff (app/session_handoff.py): a uxon process starts *)
(* a session or attaches to one it selected earlier, waits for the tmux    *)
(* client, and when that exits with 125 closes the error screens that were *)
(* acknowledged, one tmux command at a time, while other processes, the    *)
(* user and tmux go on.  Direct runtime; KillPath models the others.       *)
(***************************************************************************)
EXTENDS ExitDiagnostics

CONSTANTS Clients

VARIABLES
  pc,       \* where each process is
  expected, \* the launch it selected or made
  target,   \* the launch its listing found under the id
  todo,     \* the dismissed panes it has still to close
  ack,      \* history: the death it acknowledged
  late      \* commands tmux has received whose clients gave up waiting

clientVars == <<pc, expected, target, todo, ack, late>>
vars == <<tmuxVars, clientVars>>

Places == {"idle", "chosen", "attach", "attached", "dismiss",
           "panes", "kill", "exists", "finish", "delete", "clean"}
NoAck == [death |-> 0]

HandoffTypeOK ==
  /\ DiagnosticsTypeOK
  /\ pc \in [Clients -> Places]
  /\ expected \in [Clients -> Launches \union {NoLaunch}]
  /\ target \in [Clients -> Launches \union {NoLaunch}]
  /\ todo \in [Clients -> SUBSET Panes]
  /\ \A c \in Clients : ack[c] # NoAck => ack[c].launch = expected[c]
  /\ late \subseteq Launches \X Panes

HandoffInit ==
  /\ DiagnosticsInit
  /\ pc = [c \in Clients |-> "idle"] /\ todo = [c \in Clients |-> {}]
  /\ expected = [c \in Clients |-> NoLaunch] /\ target = [c \in Clients |-> NoLaunch]
  /\ ack = [c \in Clients |-> NoAck] /\ late = {}

Goes(c, from, to) == pc[c] = from /\ pc' = [pc EXCEPT ![c] = to]
OnlyPc == UNCHANGED <<tmuxVars, expected, target, todo, ack, late>>

\* Back at the dashboard or the shell.  Only a clean return from a dismissal
\* is remembered for a while ("clean"), for the property about it.
Returns(c) ==
  /\ pc' = [pc EXCEPT ![c] = "idle"] /\ todo' = [todo EXCEPT ![c] = {}]
  /\ expected' = [expected EXCEPT ![c] = NoLaunch] /\ target' = [target EXCEPT ![c] = NoLaunch]
  /\ ack' = [ack EXCEPT ![c] = NoAck]
-----------------------------------------------------------------------------
(* Up to the terminal client *)

\* A row is chosen; the session may be another one by the time it is used.
Select(c) ==
  /\ session # NoLaunch /\ Goes(c, "idle", "chosen")
  /\ expected' = [expected EXCEPT ![c] = session]
  /\ UNCHANGED <<tmuxVars, target, todo, ack, late>>

\* prepare_managed_launch, whose steps are those of ManagedLaunch.
Launch(c) == \E l \in Launches, armed \in BOOLEAN :
  /\ Goes(c, "idle", "attach") /\ Starts(l, armed)
  /\ expected' = [expected EXCEPT ![c] = l]
  /\ late' = {}
  /\ UNCHANGED <<target, todo, ack>>

\* prepare_diagnostics_attach; its timeout may come after the effect.
PrepareAttach(c) ==
  \/ /\ Goes(c, "chosen", "attach") /\ IdentityHolds(expected[c]) /\ InstallControls
     /\ UNCHANGED <<expected, target, todo, ack, late>>
  \/ /\ pc[c] = "chosen" /\ Returns(c) /\ UNCHANGED late
     /\ IdentityHolds(expected[c]) /\ InstallControls

\* attach-session behind the identity guard; refused, the process returns.
Attach(c) == Goes(c, "attach", "attached") /\ IdentityHolds(expected[c]) /\ OnlyPc

Acknowledge(c) == \E p \in Panes :
  /\ Goes(c, "attached", "dismiss") /\ session = expected[c] /\ AcknowledgeKey(p)
  /\ ack' = [ack EXCEPT ![c] = [launch |-> session, pane |-> p, death |-> deaths[p]]]
  /\ UNCHANGED <<expected, target, todo, late>>

-----------------------------------------------------------------------------
(* _dismiss_diagnostics; any query may fail: the process returns *)

\* list-sessions, with the records read.
ListSessions(c) ==
  /\ \/ Goes(c, "dismiss", "clean") /\ session = NoLaunch
     \/ Goes(c, "dismiss", "panes") /\ session # NoLaunch
  /\ target' = [target EXCEPT ![c] = session]
  /\ UNCHANGED <<tmuxVars, expected, todo, ack, late>>

\* list-panes of the id: a session that has gone is skipped, and without an
\* acknowledged pane there is nothing to do.  The record is there as long as
\* the session is (RecordWhileOnScreen): the refusal of an unverified target
\* is among the failures.
ListPanes(c) ==
  /\ \/ Goes(c, "panes", "clean") /\ DismissedPanes = {} /\ UNCHANGED todo
     \/ /\ Goes(c, "panes", "kill") /\ DismissedPanes # {}
        /\ todo' = [todo EXCEPT ![c] = DismissedPanes]
  /\ UNCHANGED <<tmuxVars, expected, target, ack, late>>

\* One pane is asked to close.  A pane that has gone makes the command fail;
\* the fresh snapshot then does not show it, or the process returns.
ClosePane(c) == \E p \in todo[c] :
  /\ Goes(c, "kill", "kill")
  /\ todo' = [todo EXCEPT ![c] = @ \ {p}]
  /\ DismissCommand(target[c], p)
  /\ UNCHANGED <<expected, target, ack, late>>

\* The client gives up waiting; tmux may still run the command.
ClosePaneTimesOut(c) == \E p \in todo[c] :
  /\ pc[c] = "kill" /\ Returns(c)
  /\ late' = late \union {<<target[c], p>>}
  /\ UNCHANGED tmuxVars

LateCommand == \E l \in Launches, p \in Panes :
  /\ <<l, p>> \in late /\ late' = late \ {<<l, p>>}
  /\ DismissCommand(l, p)
  /\ UNCHANGED <<pc, expected, target, todo, ack>>

AllClosed(c) == Goes(c, "kill", "exists") /\ todo[c] = {} /\ OnlyPc

\* Mutant of ProvenGone: a pane was closed, so the session is taken to be gone.
TakenAsGone(l) == TRUE

\* exact_identity_exists; it refuses to answer when another launch bears the
\* id since the same second.
ProvenGone(l) == session # l

StillThere(c) == Goes(c, "exists", "clean") /\ session = target[c] /\ OnlyPc
Gone(c) == Goes(c, "exists", "finish") /\ ProvenGone(target[c]) /\ OnlyPc

\* finish_killed_session proves it again, then deletes the record; another
\* process may have deleted it first.
FinishKilled(c) == Goes(c, "finish", "delete") /\ ProvenGone(target[c]) /\ OnlyPc
DeleteRecord(c) ==
  /\ Goes(c, "delete", "clean")
  /\ records' = records \ {target[c]}
  /\ UNCHANGED <<session, used, controls, pane, deaths, read, expected, target, todo, ack, late>>

\* The terminal client detaches, is refused or loses its session, whose
\* absence is then the warning; a query of the dismissal fails or is refused,
\* which is a warning too; a dismissal is complete; or the process is killed.
Return(c) == pc[c] # "idle" /\ Returns(c) /\ UNCHANGED <<tmuxVars, late>>
-----------------------------------------------------------------------------
HandoffNext ==
  \/ \E c \in Clients :
       \/ Select(c) \/ Launch(c) \/ PrepareAttach(c) \/ Attach(c)
       \/ Acknowledge(c) \/ ListSessions(c) \/ ListPanes(c)
       \/ ClosePane(c) \/ ClosePaneTimesOut(c) \/ AllClosed(c)
       \/ StillThere(c) \/ Gone(c) \/ FinishKilled(c) \/ DeleteRecord(c)
       \/ Return(c)
  \/ LateCommand
  \/ Others /\ UNCHANGED clientVars

HandoffSpec == HandoffInit /\ [][HandoffNext]_vars
-----------------------------------------------------------------------------
(* Properties *)

(***************************************************************************)
(* uxon closes a pane only if somebody acknowledged its latest death: "a   *)
(* later failure after respawn requires a new acknowledgement"             *)
(* (architecture.md), whoever dismisses, however late tmux runs it.        *)
(***************************************************************************)
ByDismissal == late' # late \/ \E c \in Clients : todo'[c] # todo[c] /\ pc'[c] = "kill"
OnlyReadDeathsClosed == [][
  \A p \in Panes : ByDismissal /\ OnScreen(p) /\ pane'[p].is = "closed"
    => pane[p].is = "dead" /\ read[p] = deaths[p]]_vars

(***************************************************************************)
(* A session that is on screen, unread siblings and live panes included,   *)
(* keeps its record: it is deleted only on proof that the session is gone  *)
(* (_dismiss_diagnostics, finish_killed_session).                          *)
(***************************************************************************)
RecordWhileOnScreen == session # NoLaunch => session \in records

(***************************************************************************)
(* Who acknowledged an error and comes back without a warning has closed   *)
(* it: that death is not on screen any more (run_launch_request).          *)
(***************************************************************************)
CleanReturnClosed == \A c \in Clients :
  pc[c] = "clean" /\ ack[c] # NoAck /\ ack[c].launch = session =>
    ~(pane[ack[c].pane].is = "dead" /\ deaths[ack[c].pane] = ack[c].death)
-----------------------------------------------------------------------------
(* What makes these inductive.  The numbers are bounded by MaxDeaths in       *)
(* HandoffTypeOK; that bound plays no part here.                              *)

PaneStates ==
  [is : {"none", "live", "dead", "closed"}, generation : Nat, dismissed : Nat]
AckRecords == [launch : Launches, pane : Panes, death : Nat]

HandoffTypes ==
  /\ session \in Launches \union {NoLaunch} /\ controls \in BOOLEAN
  /\ used \subseteq Launches /\ pane \in [Panes -> PaneStates]
  /\ deaths \in [Panes -> Nat] /\ read \in [Panes -> Nat]
  /\ pc \in [Clients -> Places] /\ todo \in [Clients -> SUBSET Panes]
  /\ expected \in [Clients -> used \union {NoLaunch}]
  /\ target \in [Clients -> used \union {NoLaunch}]
  /\ ack \in [Clients -> AckRecords \union {NoAck}]

\* A launch has the id once.
UsedOnce ==
  /\ session \in used \union {NoLaunch}
  /\ \A c \in Clients : ack[c] # NoAck => ack[c].launch \in used

\* A number acknowledged is that of the latest death, and somebody read it.
DeathsNumbered == \A p \in Panes :
  /\ pane[p].dismissed <= pane[p].generation
  /\ ~controls => pane[p].generation = 0
  /\ Acknowledged(p) => read[p] = deaths[p]

\* Up to its terminal client a process has a launch to enter.  A dismissal
\* that reached a session has it for its target, and what it proved gone
\* stays gone.
TargetKnown(c) ==
  /\ pc[c] \in {"chosen", "attach", "attached"} => expected[c] # NoLaunch
  /\ pc[c] \in {"panes", "kill", "exists", "finish", "delete"} => target[c] # NoLaunch
  /\ pc[c] \in {"finish", "delete"} => target[c] # session

\* The death that c acknowledged is still on screen.
StillShown(c) ==
  pane[ack[c].pane].is = "dead" /\ deaths[ack[c].pane] = ack[c].death

\* Until the death is closed, or followed by another, its acknowledgement
\* stands, and the dismissal has the pane to close.
AckFollowed(c) ==
  ack[c] # NoAck /\ ack[c].launch = session =>
    /\ ack[c].death <= deaths[ack[c].pane]
    /\ StillShown(c) => Acknowledged(ack[c].pane)
    /\ pc[c] \in {"panes", "kill"} => target[c] = session
    /\ pc[c] = "kill" /\ StillShown(c) => ack[c].pane \in todo[c]
    /\ pc[c] \in {"exists", "finish", "delete", "clean"} => ~StillShown(c)

HandoffInv ==
  /\ HandoffTypes /\ UsedOnce /\ DeathsNumbered /\ RecordWhileOnScreen
  /\ \A c \in Clients : TargetKnown(c) /\ AckFollowed(c)
=============================================================================
