------------------------ MODULE SessionHandoff_proofs ------------------------
(***************************************************************************)
(* The handoff and its error screens, for any number of processes, panes,  *)
(* launches and deaths: a session on screen keeps its record, whoever      *)
(* comes back without a warning has closed the death acknowledged, nothing *)
(* unread is closed, and a client enters only what it selected.            *)
(***************************************************************************)
EXTENDS SessionHandoff, TLAPS

\* What tmux and the records hold, whatever the processes do.
ScreenOK ==
  /\ session \in used \union {NoLaunch} /\ controls \in BOOLEAN
  /\ used \subseteq Launches /\ pane \in [Panes -> PaneStates]
  /\ deaths \in [Panes -> Nat] /\ read \in [Panes -> Nat]
  /\ DeathsNumbered

\* What a step of tmux leaves of a death that was acknowledged.
ScreenMoves ==
  /\ used \subseteq used' /\ session' \in {session, NoLaunch} \union (Launches \ used)
  /\ session' = session => \A p \in Panes :
       /\ deaths[p] <= deaths'[p]
       /\ pane'[p].is = "dead" /\ deaths'[p] = deaths[p] =>
            /\ pane[p].is = "dead"
            /\ pane[p].generation # 0 /\ pane[p].dismissed = pane[p].generation =>
                 pane'[p].generation # 0 /\ pane'[p].dismissed = pane'[p].generation

-----------------------------------------------------------------------------
(* The error screens.                                                        *)

(* The invariant's part about tmux, and its types.                           *)
LEMMA HandoffFacts ==
  ASSUME HandoffInv
  PROVE  /\ ScreenOK /\ RecordWhileOnScreen /\ HandoffTypes /\ UsedOnce
         /\ \A c \in Clients : TargetKnown(c) /\ AckFollowed(c)
         /\ NoLaunch \notin Launches
         /\ \A p \in Panes : /\ pane[p] \in PaneStates
                             /\ pane[p].generation \in Nat /\ pane[p].dismissed \in Nat
                             /\ deaths[p] \in Nat /\ read[p] \in Nat
<1>1. \A x \in PaneStates : x.generation \in Nat /\ x.dismissed \in Nat
  BY DEF PaneStates
<1> QED
  BY <1>1, DiagnosticsAssumption DEF HandoffInv, HandoffTypes, UsedOnce, ScreenOK

(* Nothing happens in tmux.                                                  *)
LEMMA NothingShown ==
  ASSUME HandoffInv, UNCHANGED <<session, used, controls, pane, deaths, read>>
  PROVE  ScreenOK' /\ ScreenMoves
<1>1. ScreenOK'
  BY HandoffFacts DEF ScreenOK, DeathsNumbered, Acknowledged
<1> QED
  BY <1>1, HandoffFacts DEF ScreenMoves

(* One pane changes, its numbers staying in order.                            *)
LEMMA OnePane ==
  ASSUME HandoffInv, NEW p \in Panes, NEW new \in PaneStates, NEW n \in Nat, NEW r \in Nat,
         pane' = [pane EXCEPT ![p] = new], deaths' = [deaths EXCEPT ![p] = n],
         read' = [read EXCEPT ![p] = r], UNCHANGED <<used, controls>>,
         session' \in {session, NoLaunch},
         new.dismissed <= new.generation, ~controls => new.generation = 0,
         new.generation # 0 /\ new.dismissed = new.generation => r = n,
         deaths[p] <= n,
         new.is = "dead" /\ n = deaths[p] =>
           /\ pane[p].is = "dead"
           /\ Acknowledged(p) => new.generation # 0 /\ new.dismissed = new.generation
  PROVE  ScreenOK' /\ ScreenMoves
<1>1. /\ pane' \in [Panes -> PaneStates] /\ deaths' \in [Panes -> Nat] /\ read' \in [Panes -> Nat]
      /\ pane'[p] = new /\ deaths'[p] = n /\ read'[p] = r
      /\ \A q \in Panes \ {p} : pane'[q] = pane[q] /\ deaths'[q] = deaths[q] /\ read'[q] = read[q]
  BY HandoffFacts DEF ScreenOK
<1>2. DeathsNumbered'
  BY <1>1, HandoffFacts DEF ScreenOK, DeathsNumbered, Acknowledged
<1>3. ScreenOK'
  BY <1>1, <1>2, HandoffFacts DEF ScreenOK
<1>4. ScreenMoves
  <2>1. ASSUME NEW q \in Panes
        PROVE  /\ deaths[q] <= deaths'[q]
               /\ pane'[q].is = "dead" /\ deaths'[q] = deaths[q] =>
                    /\ pane[q].is = "dead"
                    /\ pane[q].generation # 0 /\ pane[q].dismissed = pane[q].generation =>
                         pane'[q].generation # 0 /\ pane'[q].dismissed = pane'[q].generation
    BY <1>1, HandoffFacts DEF Acknowledged
  <2> QED
    BY <2>1 DEF ScreenMoves
<1> QED
  BY <1>3, <1>4

(* A pane goes from the screen, and with the last the session.                *)
LEMMA PaneLeaves ==
  ASSUME HandoffInv, NEW p \in Panes, LeavesScreen(p)
  PROVE  ScreenOK' /\ ScreenMoves /\ RecordWhileOnScreen'
<1>1. /\ pane' = [pane EXCEPT ![p].is = "closed"] /\ session' \in {session, NoLaunch}
      /\ UNCHANGED <<used, controls, records, deaths, read>>
  BY DEF LeavesScreen
<1>2. PICK new \in PaneStates :
        /\ new = [pane[p] EXCEPT !.is = "closed"]
        /\ new.is = "closed" /\ new.generation = pane[p].generation
        /\ new.dismissed = pane[p].dismissed
  <2>1. pane[p] \in PaneStates
    BY HandoffFacts
  <2>2. [pane[p] EXCEPT !.is = "closed"] \in PaneStates
    BY <2>1 DEF PaneStates
  <2> QED
    BY <2>1, <2>2 DEF PaneStates
<1>3. PICK n \in Nat, r \in Nat : n = deaths[p] /\ r = read[p]
  BY HandoffFacts
<1>4. /\ pane' = [pane EXCEPT ![p] = new] /\ deaths' = [deaths EXCEPT ![p] = n]
      /\ read' = [read EXCEPT ![p] = r]
  BY <1>1, <1>2, <1>3, HandoffFacts DEF ScreenOK
<1>5. /\ new.dismissed <= new.generation /\ (~controls => new.generation = 0)
      /\ new.generation # 0 /\ new.dismissed = new.generation => r = n
  BY <1>2, <1>3, HandoffFacts DEF ScreenOK, DeathsNumbered, Acknowledged
<1>6. deaths[p] <= n /\ new.is # "dead"
  BY <1>2, <1>3
<1>7. ScreenOK' /\ ScreenMoves
  BY <1>1, <1>4, <1>5, <1>6, OnePane
<1> QED
  BY <1>1, <1>7, HandoffFacts DEF RecordWhileOnScreen

(* The key on an error screen copies the number of the death that is there.   *)
LEMMA KeyPressed ==
  ASSUME HandoffInv, NEW p \in Panes, AcknowledgeKey(p)
  PROVE  /\ ScreenOK' /\ ScreenMoves /\ RecordWhileOnScreen'
         /\ pane'[p].generation # 0 /\ pane'[p].dismissed = pane'[p].generation
         /\ session' = session /\ deaths' = deaths
<1>1. PICK n \in Nat : n = AckedGeneration(p) /\ n # 0
  <2>1. AckedGeneration(p) \in Nat /\ AckedGeneration(p) # 0
    BY HandoffFacts DEF AckedGeneration
  <2> QED
    BY <2>1
<1>2. /\ controls /\ pane[p].is = "dead"
      /\ pane' = [pane EXCEPT ![p].generation = n, ![p].dismissed = n]
      /\ read' = [read EXCEPT ![p] = deaths[p]]
      /\ UNCHANGED <<session, used, controls, records, deaths>>
  BY <1>1 DEF AcknowledgeKey
<1>3. PICK new \in PaneStates :
        /\ new = [pane[p] EXCEPT !.generation = n, !.dismissed = n]
        /\ new.is = "dead" /\ new.generation = n /\ new.dismissed = n
  <2>1. pane[p] \in PaneStates
    BY HandoffFacts
  <2>2. [pane[p] EXCEPT !.generation = n, !.dismissed = n] \in PaneStates
    BY <2>1 DEF PaneStates
  <2> QED
    BY <1>2, <2>1, <2>2 DEF PaneStates
<1>4. PICK d \in Nat : d = deaths[p]
  BY HandoffFacts
<1>5. /\ pane' = [pane EXCEPT ![p] = new] /\ deaths' = [deaths EXCEPT ![p] = d]
      /\ read' = [read EXCEPT ![p] = d]
  BY <1>2, <1>3, <1>4, HandoffFacts DEF ScreenOK
<1>6. /\ new.dismissed <= new.generation /\ deaths[p] <= d /\ controls /\ pane[p].is = "dead"
      /\ new.generation # 0 /\ new.dismissed = new.generation
      /\ UNCHANGED <<used, controls>> /\ session' \in {session, NoLaunch}
  BY <1>1, <1>2, <1>3, <1>4
<1>7. ScreenOK' /\ ScreenMoves
  BY <1>5, <1>6, OnePane
<1>8. pane'[p] = new
  BY <1>5, HandoffFacts DEF ScreenOK
<1> QED
  BY <1>1, <1>2, <1>3, <1>7, <1>8, HandoffFacts DEF RecordWhileOnScreen

(* The guarded kill-pane, whenever tmux runs it.                              *)
LEMMA CommandRuns ==
  ASSUME HandoffInv, NEW l, NEW p \in Panes, DismissCommand(l, p)
  PROVE  /\ ScreenOK' /\ ScreenMoves /\ RecordWhileOnScreen'
         /\ session = l /\ pane[p].is = "dead" /\ Acknowledged(p) => pane'[p].is # "dead"
<1>1. CASE pane[p].is = "dead" /\ Acknowledged(p) /\ IdentityHolds(l)
  <2>1. LeavesScreen(p)
    BY <1>1 DEF DismissCommand
  <2>2. pane'[p].is = "closed"
    BY <2>1, HandoffFacts DEF LeavesScreen, ScreenOK, PaneStates
  <2> QED
    BY <2>1, <2>2, PaneLeaves
<1>2. CASE ~(pane[p].is = "dead" /\ Acknowledged(p) /\ IdentityHolds(l))
  <2>1. UNCHANGED tmuxVars
    BY <1>2 DEF DismissCommand
  <2> QED
    BY <1>2, <2>1, HandoffFacts, NothingShown
       DEF tmuxVars, RecordWhileOnScreen, IdentityHolds
<1> QED
  BY <1>1, <1>2

(* A pane that is split off, dies or is started again.                        *)
LEMMA PaneChanges ==
  ASSUME HandoffInv, PaneSplit \/ PaneDies \/ PaneRespawns
  PROVE  ScreenOK' /\ ScreenMoves /\ RecordWhileOnScreen'
<1>1. UNCHANGED <<session, used, controls, records, read>>
  BY DEF PaneSplit, PaneDies, PaneRespawns
<1>2. RecordWhileOnScreen'
  BY <1>1, HandoffFacts DEF RecordWhileOnScreen
<1>3. PICK p \in Panes, was \in PaneStates, g \in Nat, m \in Nat, d \in Nat, r \in Nat :
        /\ was = pane[p] /\ g = was.generation /\ m = was.dismissed
        /\ d = deaths[p] /\ r = read[p]
        /\ \/ /\ pane' = [pane EXCEPT ![p].is = "live"] /\ deaths' = deaths
           \/ /\ was.is = "live" /\ deaths' = [deaths EXCEPT ![p] = d + 1]
              /\ pane' = [pane EXCEPT ![p].is = "dead",
                                      ![p].generation = IF controls THEN g + 1 ELSE g]
  <2>1. PICK p \in Panes :
        \/ /\ pane' = [pane EXCEPT ![p].is = "live"] /\ deaths' = deaths
        \/ /\ pane[p].is = "live" /\ deaths' = [deaths EXCEPT ![p] = deaths[p] + 1]
           /\ pane' = [pane EXCEPT ![p].is = "dead",
                                   ![p].generation =
                                     IF controls THEN pane[p].generation + 1 ELSE pane[p].generation]
    BY DEF PaneSplit, PaneDies, PaneRespawns, NextGeneration
  <2>2. PICK was \in PaneStates : was = pane[p] /\ was.generation \in Nat /\ was.dismissed \in Nat
    BY HandoffFacts
  <2>3. PICK d \in Nat, r \in Nat : d = deaths[p] /\ r = read[p]
    BY HandoffFacts
  <2> QED
    BY <2>1, <2>2, <2>3
<1>4. /\ pane \in [Panes -> PaneStates] /\ deaths \in [Panes -> Nat] /\ read \in [Panes -> Nat]
      /\ m <= g /\ (~controls => g = 0) /\ (g # 0 /\ m = g => r = d) /\ controls \in BOOLEAN
  BY <1>3, HandoffFacts DEF ScreenOK, DeathsNumbered, Acknowledged
<1>5. read' = [read EXCEPT ![p] = r]
  BY <1>1, <1>3, <1>4
<1>6. CASE pane' = [pane EXCEPT ![p].is = "live"] /\ deaths' = deaths
  <2>1. PICK new \in PaneStates :
          /\ pane' = [pane EXCEPT ![p] = new]
          /\ new.is = "live" /\ new.generation = g /\ new.dismissed = m
    <3>1. [was EXCEPT !.is = "live"] \in PaneStates
      BY DEF PaneStates
    <3> QED
      BY <1>3, <1>6, <3>1 DEF PaneStates
  <2>2. deaths' = [deaths EXCEPT ![p] = d] /\ deaths[p] <= d
    BY <1>3, <1>4, <1>6
  <2>3. ScreenOK' /\ ScreenMoves
    BY <1>1, <1>4, <1>5, <2>1, <2>2, OnePane
  <2> QED
    BY <1>2, <2>3
<1>7. CASE /\ deaths' = [deaths EXCEPT ![p] = d + 1]
           /\ pane' = [pane EXCEPT ![p].is = "dead",
                                   ![p].generation = IF controls THEN g + 1 ELSE g]
  <2>1. PICK h \in Nat : h = IF controls THEN g + 1 ELSE g
    OBVIOUS
  <2>2. PICK new \in PaneStates :
          /\ pane' = [pane EXCEPT ![p] = new]
          /\ new.is = "dead" /\ new.generation = h /\ new.dismissed = m
    <3>1. [was EXCEPT !.is = "dead", !.generation = h] \in PaneStates
      BY DEF PaneStates
    <3>2. pane' = [pane EXCEPT ![p].is = "dead", ![p].generation = h]
      BY <1>7, <2>1
    <3>3. pane' = [pane EXCEPT ![p] = [was EXCEPT !.is = "dead", !.generation = h]]
      BY <1>3, <1>4, <3>2 DEF PaneStates
    <3> QED
      BY <1>3, <3>1, <3>3 DEF PaneStates
  <2>3. PICK n \in Nat : n = d + 1
    OBVIOUS
  <2>4. /\ new.dismissed <= new.generation /\ (~controls => new.generation = 0)
        /\ ~(new.generation # 0 /\ new.dismissed = new.generation)
        /\ deaths[p] <= n /\ n # deaths[p]
    BY <1>3, <1>4, <2>1, <2>2, <2>3
  <2>5. deaths' = [deaths EXCEPT ![p] = n]
    BY <1>7, <2>3
  <2>6. ScreenOK' /\ ScreenMoves
    BY <1>1, <1>5, <2>2, <2>4, <2>5, OnePane
  <2> QED
    BY <1>2, <2>6
<1> QED
  BY <1>3, <1>6, <1>7

(* What tmux and the users do besides.                                        *)
LEMMA OthersMove ==
  ASSUME HandoffInv, Others
  PROVE  ScreenOK' /\ ScreenMoves /\ RecordWhileOnScreen'
<1>1. CASE SessionEnds
  <2>1. /\ session' = NoLaunch /\ session # NoLaunch
        /\ pane' = [p \in Panes |-> [pane[p] EXCEPT !.is = IF OnScreen(p) THEN "closed" ELSE @]]
        /\ UNCHANGED <<used, controls, records, deaths, read>>
    BY <1>1 DEF SessionEnds
  <2>2. \A p \in Panes :
          /\ pane'[p] \in PaneStates /\ pane'[p].generation = pane[p].generation
          /\ pane'[p].dismissed = pane[p].dismissed
    <3> SUFFICES ASSUME NEW p \in Panes
                 PROVE  /\ pane'[p] \in PaneStates /\ pane'[p].generation = pane[p].generation
                        /\ pane'[p].dismissed = pane[p].dismissed
      OBVIOUS
    <3>1. pane[p] \in PaneStates
      BY HandoffFacts
    <3>2. CASE OnScreen(p)
      <4>1. pane'[p] = [pane[p] EXCEPT !.is = "closed"]
        BY <2>1, <3>2
      <4> QED
        BY <3>1, <4>1 DEF PaneStates
    <3>3. CASE ~OnScreen(p)
      <4>1. pane'[p] = [pane[p] EXCEPT !.is = pane[p].is]
        BY <2>1, <3>3
      <4> QED
        BY <3>1, <4>1 DEF PaneStates
    <3> QED
      BY <3>2, <3>3
  <2>3. DeathsNumbered'
    BY <2>1, <2>2, HandoffFacts DEF ScreenOK, DeathsNumbered, Acknowledged
  <2>4. pane' \in [Panes -> PaneStates]
    BY <2>1, <2>2
  <2> QED
    BY <2>1, <2>3, <2>4, HandoffFacts DEF ScreenOK, ScreenMoves, RecordWhileOnScreen
<1>2. CASE RecordGoes
  <2>1. UNCHANGED <<session, used, controls, pane, deaths, read>>
    BY <1>2 DEF RecordGoes
  <2>2. RecordWhileOnScreen'
    BY <1>2, HandoffFacts DEF RecordGoes, RecordWhileOnScreen
  <2> QED
    BY <2>1, <2>2, NothingShown
<1>3. CASE PaneSplit \/ PaneDies \/ PaneRespawns
  BY <1>3, PaneChanges
<1>4. CASE PaneClosed
  BY <1>4, PaneLeaves DEF PaneClosed
<1> QED
  BY <1>1, <1>2, <1>3, <1>4 DEF Others

(* A launch has panes of its own.                                            *)
LEMMA LaunchStarts ==
  ASSUME HandoffInv, NEW l \in Launches, NEW armed \in BOOLEAN, Starts(l, armed)
  PROVE  /\ ScreenOK' /\ ScreenMoves /\ RecordWhileOnScreen'
         /\ session' = l /\ l \notin used /\ used' = used \union {l}
<1>1. /\ session = NoLaunch /\ l \notin used /\ session' = l /\ used' = used \union {l}
      /\ controls' = armed /\ records' = records \union {l}
      /\ deaths' = [p \in Panes |-> 0] /\ read' = [p \in Panes |-> 0]
  BY DEF Starts
<1>2. \A p \in Panes :
        pane'[p] \in PaneStates /\ pane'[p].generation = 0 /\ pane'[p].dismissed = 0
  BY DEF Starts, Fresh, PaneStates
<1>3. pane' = [p \in Panes |-> pane'[p]]
  BY DEF Starts
<1>4. pane' \in [Panes -> PaneStates]
  BY <1>2, <1>3
<1>5. ScreenOK'
  BY <1>1, <1>2, <1>4, HandoffFacts DEF ScreenOK, DeathsNumbered, Acknowledged
<1>6. session' # session
  BY <1>1, HandoffFacts
<1> QED
  BY <1>1, <1>5, <1>6, HandoffFacts DEF ScreenMoves, RecordWhileOnScreen

(* The controls are installed.                                               *)
LEMMA ControlsInstalled ==
  ASSUME HandoffInv, InstallControls
  PROVE  ScreenOK' /\ ScreenMoves /\ RecordWhileOnScreen'
<1>1. controls' = TRUE /\ UNCHANGED <<session, used, pane, records, deaths, read>>
  BY DEF InstallControls
<1>2. ScreenOK'
  BY <1>1, HandoffFacts DEF ScreenOK, DeathsNumbered, Acknowledged
<1> QED
  BY <1>1, <1>2, HandoffFacts DEF ScreenMoves, RecordWhileOnScreen

-----------------------------------------------------------------------------
(* The processes.                                                            *)

\* A step of process c: the others stay where they are.
OnlyClient(c) ==
  /\ pc' \in [Clients -> Places] /\ todo' \in [Clients -> SUBSET Panes]
  /\ expected' \in [Clients -> used' \union {NoLaunch}]
  /\ target' \in [Clients -> used' \union {NoLaunch}]
  /\ ack' \in [Clients -> AckRecords \union {NoAck}]
  /\ \A d \in Clients \ {c} :
       /\ pc'[d] = pc[d] /\ todo'[d] = todo[d] /\ target'[d] = target[d]
       /\ expected'[d] = expected[d] /\ ack'[d] = ack[d]

(* A death that was acknowledged, after any step of tmux.                     *)
LEMMA AckStands ==
  ASSUME HandoffInv, ScreenOK', ScreenMoves, NEW c \in Clients, ack'[c] = ack[c],
         ack[c] # NoAck, ack[c].launch = session'
  PROVE  /\ session' = session /\ session # NoLaunch /\ ack[c].pane \in Panes
         /\ ack[c].launch = session
         /\ ack[c].death <= deaths'[ack[c].pane]
         /\ StillShown(c)' =>
              /\ StillShown(c) /\ Acknowledged(ack[c].pane)
              /\ pane'[ack[c].pane].generation # 0
              /\ pane'[ack[c].pane].dismissed = pane'[ack[c].pane].generation
<1>1. PICK a \in AckRecords : a = ack[c]
  BY HandoffFacts DEF HandoffTypes
<1>2. a.launch \in used /\ a.launch \in Launches /\ a.pane \in Panes /\ a.death \in Nat
  BY <1>1, HandoffFacts DEF UsedOnce, AckRecords
<1>3. session' = session /\ a.launch = session /\ session # NoLaunch
  BY <1>1, <1>2, HandoffFacts DEF ScreenMoves
<1>4. /\ a.death <= deaths[a.pane] /\ deaths[a.pane] <= deaths'[a.pane]
      /\ StillShown(c) => Acknowledged(a.pane)
  BY <1>1, <1>2, <1>3, HandoffFacts DEF AckFollowed, ScreenMoves
<1>5. deaths[a.pane] \in Nat /\ deaths'[a.pane] \in Nat
  BY <1>2, HandoffFacts DEF ScreenOK
<1>6. ASSUME StillShown(c)'
      PROVE  /\ StillShown(c) /\ Acknowledged(a.pane)
             /\ pane'[a.pane].generation # 0 /\ pane'[a.pane].dismissed = pane'[a.pane].generation
  <2>1. pane'[a.pane].is = "dead" /\ deaths'[a.pane] = a.death
    BY <1>1, <1>6 DEF StillShown
  <2>2. deaths'[a.pane] = deaths[a.pane]
    BY <1>2, <1>4, <1>5, <2>1
  <2>3. /\ pane[a.pane].is = "dead"
        /\ pane[a.pane].generation # 0 /\ pane[a.pane].dismissed = pane[a.pane].generation =>
             pane'[a.pane].generation # 0 /\ pane'[a.pane].dismissed = pane'[a.pane].generation
    BY <1>2, <1>3, <2>1, <2>2 DEF ScreenMoves
  <2>4. StillShown(c)
    BY <1>1, <2>1, <2>2, <2>3 DEF StillShown
  <2>5. pane'[a.pane].generation # 0 /\ pane'[a.pane].dismissed = pane'[a.pane].generation
    BY <1>4, <2>3, <2>4 DEF Acknowledged
  <2> QED
    BY <1>4, <2>4, <2>5
<1> QED
  BY <1>1, <1>2, <1>3, <1>4, <1>5, <1>6

(* A process that does not step, or steps without a dismissal, follows its     *)
(* acknowledgement as before.                                                 *)
LEMMA ClientKept ==
  ASSUME HandoffInv, ScreenOK', ScreenMoves, NEW c \in Clients,
         target'[c] = target[c], todo'[c] = todo[c], ack'[c] = ack[c],
         \/ pc'[c] = pc[c] /\ expected'[c] = expected[c]
         \/ pc'[c] \in {"chosen", "attach", "attached"} /\ expected'[c] # NoLaunch
  PROVE  TargetKnown(c)' /\ AckFollowed(c)'
<1>1. TargetKnown(c)'
  <2>1. target[c] \in used \union {NoLaunch}
    BY HandoffFacts DEF HandoffTypes
  <2>2. target[c] # NoLaunch /\ target[c] # session => target[c] # session'
    BY <2>1, HandoffFacts DEF ScreenMoves
  <2> QED
    BY <2>2, HandoffFacts DEF TargetKnown
<1>2. ASSUME ack[c] # NoAck, ack[c].launch = session'
      PROVE  /\ ack[c].death <= deaths'[ack[c].pane]
             /\ StillShown(c)' => /\ pane'[ack[c].pane].generation # 0
                                  /\ pane'[ack[c].pane].dismissed = pane'[ack[c].pane].generation
             /\ pc'[c] \in {"panes", "kill"} => target'[c] = session'
             /\ pc'[c] = "kill" /\ StillShown(c)' => ack[c].pane \in todo'[c]
             /\ pc'[c] \in {"exists", "finish", "delete", "clean"} => ~StillShown(c)'
  BY <1>2, AckStands, HandoffFacts DEF AckFollowed
<1>3. AckFollowed(c)'
  BY <1>2 DEF AckFollowed, Acknowledged
<1> QED
  BY <1>1, <1>3

(* One process steps.                                                        *)
LEMMA ClientSteps ==
  ASSUME HandoffInv, ScreenOK', ScreenMoves, RecordWhileOnScreen', NEW c \in Clients,
         OnlyClient(c), ack'[c] # NoAck => ack'[c].launch \in used',
         TargetKnown(c)', AckFollowed(c)'
  PROVE  HandoffInv'
<1>1. ASSUME NEW d \in Clients  PROVE TargetKnown(d)' /\ AckFollowed(d)'
  <2>1. CASE d = c
    BY <2>1
  <2>2. CASE d # c
    BY <2>2, ClientKept DEF OnlyClient
  <2> QED
    BY <2>1, <2>2
<1>2. HandoffTypes'
  BY DEF ScreenOK, OnlyClient, HandoffTypes
<1>3. UsedOnce'
  <2>1. \A d \in Clients : ack'[d] # NoAck => ack'[d].launch \in used'
    BY HandoffFacts DEF UsedOnce, OnlyClient, ScreenMoves
  <2> QED
    BY <2>1 DEF UsedOnce, ScreenOK
<1> QED
  BY <1>1, <1>2, <1>3 DEF HandoffInv, ScreenOK

(* A process that ends forgets what it was about.                             *)
LEMMA Returned ==
  ASSUME HandoffInv, ScreenOK', ScreenMoves, RecordWhileOnScreen', NEW c \in Clients, Returns(c)
  PROVE  HandoffInv'
<1>1. /\ pc' = [pc EXCEPT ![c] = "idle"] /\ todo' = [todo EXCEPT ![c] = {}]
      /\ target' = [target EXCEPT ![c] = NoLaunch] /\ ack' = [ack EXCEPT ![c] = NoAck]
      /\ expected' = [expected EXCEPT ![c] = NoLaunch]
  BY DEF Returns
<1>2. OnlyClient(c) /\ pc'[c] = "idle" /\ ack'[c] = NoAck
  BY <1>1, HandoffFacts DEF HandoffTypes, OnlyClient, Places, ScreenMoves
<1>3. TargetKnown(c)' /\ AckFollowed(c)'
  BY <1>2 DEF TargetKnown, AckFollowed
<1> QED
  BY <1>2, <1>3, ClientSteps

(* A process gets a step further up to its terminal client.                   *)
LEMMA GoesOn ==
  ASSUME HandoffInv, ScreenOK', ScreenMoves, RecordWhileOnScreen', NEW c \in Clients,
         UNCHANGED <<target, todo, ack>>, NEW l \in used', l # NoLaunch,
         expected' = [expected EXCEPT ![c] = l],
         \E to \in {"chosen", "attach", "attached"} : pc' = [pc EXCEPT ![c] = to]
  PROVE  HandoffInv'
<1>1. OnlyClient(c)
  BY HandoffFacts DEF HandoffTypes, OnlyClient, Places, ScreenMoves
<1>2. pc'[c] \in {"chosen", "attach", "attached"} /\ expected'[c] # NoLaunch
  BY HandoffFacts DEF HandoffTypes
<1>3. TargetKnown(c)' /\ AckFollowed(c)'
  BY <1>2, ClientKept
<1>4. ack'[c] # NoAck => ack'[c].launch \in used'
  BY HandoffFacts DEF UsedOnce, ScreenMoves
<1> QED
  BY <1>1, <1>3, <1>4, ClientSteps

(* From the row to the terminal client.                                       *)
LEMMA EntrySteps ==
  ASSUME HandoffInv, NEW c \in Clients, Select(c) \/ Launch(c) \/ PrepareAttach(c) \/ Attach(c)
  PROVE  HandoffInv'
<1>1. CASE Select(c) \/ Attach(c)
  <2>1. /\ UNCHANGED tmuxVars /\ UNCHANGED <<target, todo, ack>>
        /\ \E to \in {"chosen", "attach", "attached"} : pc' = [pc EXCEPT ![c] = to]
        /\ \/ session # NoLaunch /\ expected' = [expected EXCEPT ![c] = session]
           \/ expected' = expected /\ pc[c] = "attach"
    BY <1>1 DEF Select, Attach, Goes, OnlyPc
  <2>2. ScreenOK' /\ ScreenMoves /\ RecordWhileOnScreen'
    BY <2>1, HandoffFacts, NothingShown DEF tmuxVars, RecordWhileOnScreen
  <2>3. PICK l \in used' : l # NoLaunch /\ expected' = [expected EXCEPT ![c] = l]
    <3>1. CASE session # NoLaunch /\ expected' = [expected EXCEPT ![c] = session]
      BY <2>1, <3>1, HandoffFacts DEF tmuxVars, UsedOnce
    <3>2. CASE expected' = expected /\ pc[c] = "attach"
      BY <2>1, <3>2, HandoffFacts DEF tmuxVars, HandoffTypes, TargetKnown
    <3> QED
      BY <2>1, <3>1, <3>2
  <2> QED
    BY <2>1, <2>2, <2>3, GoesOn
<1>2. CASE Launch(c)
  <2>1. PICK l \in Launches, armed \in BOOLEAN :
          Starts(l, armed) /\ expected' = [expected EXCEPT ![c] = l]
    BY <1>2 DEF Launch
  <2>2. UNCHANGED <<target, todo, ack>> /\ pc' = [pc EXCEPT ![c] = "attach"]
    BY <1>2 DEF Launch, Goes
  <2>3. l \in used' /\ l # NoLaunch /\ ScreenOK' /\ ScreenMoves /\ RecordWhileOnScreen'
    BY <2>1, LaunchStarts, HandoffFacts
  <2> QED
    BY <2>1, <2>2, <2>3, GoesOn
<1>3. CASE /\ InstallControls /\ UNCHANGED <<expected, target, todo, ack>>
           /\ pc[c] = "chosen" /\ pc' = [pc EXCEPT ![c] = "attach"]
  <2>1. ScreenOK' /\ ScreenMoves /\ RecordWhileOnScreen'
    BY <1>3, ControlsInstalled
  <2>2. PICK l \in used' : l # NoLaunch /\ expected' = [expected EXCEPT ![c] = l]
    BY <1>3, HandoffFacts DEF InstallControls, HandoffTypes, TargetKnown
  <2> QED
    BY <1>3, <2>1, <2>2, GoesOn
<1>4. CASE PrepareAttach(c) /\ Returns(c)
  BY <1>4, ControlsInstalled, Returned DEF PrepareAttach
<1> QED
  BY <1>1, <1>2, <1>3, <1>4 DEF PrepareAttach, Goes

(* A death is acknowledged: from then on it is followed.                      *)
LEMMA AcknowledgeStep ==
  ASSUME HandoffInv, NEW c \in Clients, Acknowledge(c)
  PROVE  HandoffInv'
<1>1. PICK p \in Panes :
        /\ Goes(c, "attached", "dismiss") /\ session = expected[c] /\ AcknowledgeKey(p)
        /\ ack' = [ack EXCEPT ![c] = [launch |-> session, pane |-> p, death |-> deaths[p]]]
        /\ UNCHANGED <<expected, target, todo>>
  BY DEF Acknowledge
<1>2. /\ ScreenOK' /\ ScreenMoves /\ RecordWhileOnScreen'
      /\ pane'[p].generation # 0 /\ pane'[p].dismissed = pane'[p].generation
      /\ session' = session /\ deaths' = deaths
  BY <1>1, KeyPressed
<1>3. session \in used /\ session \in Launches
  BY <1>1, HandoffFacts DEF Goes, TargetKnown, UsedOnce, HandoffTypes
<1>4. PICK a \in AckRecords :
        /\ ack' = [ack EXCEPT ![c] = a]
        /\ a.launch = session /\ a.pane = p /\ a.death = deaths[p]
  <2>1. [launch |-> session, pane |-> p, death |-> deaths[p]] \in AckRecords
    BY <1>3, HandoffFacts DEF AckRecords
  <2> QED
    BY <1>1, <2>1
<1>5. OnlyClient(c) /\ pc'[c] = "dismiss" /\ ack'[c] = a
  BY <1>1, <1>2, <1>4, HandoffFacts DEF Goes, HandoffTypes, OnlyClient, Places, ScreenMoves
<1>6. a.launch \in used'
  BY <1>2, <1>3, <1>4 DEF ScreenMoves
<1>7. TargetKnown(c)' /\ AckFollowed(c)'
  <2>1. a.death <= deaths'[a.pane]
    BY <1>2, <1>4, HandoffFacts
  <2> QED
    BY <1>2, <1>4, <1>5, <2>1 DEF TargetKnown, AckFollowed, Acknowledged
<1> QED
  BY <1>2, <1>5, <1>6, <1>7, ClientSteps

(* The dismissal, while tmux is asked.                                        *)
LEMMA QuerySteps ==
  ASSUME HandoffInv, NEW c \in Clients,
         ListSessions(c) \/ ListPanes(c) \/ AllClosed(c) \/ StillThere(c) \/ Gone(c) \/ FinishKilled(c)
  PROVE  HandoffInv'
<1>1. UNCHANGED tmuxVars /\ UNCHANGED <<expected, ack>>
  BY DEF ListSessions, ListPanes, AllClosed, StillThere, Gone, FinishKilled, OnlyPc
<1>2. /\ ScreenOK' /\ ScreenMoves /\ RecordWhileOnScreen'
      /\ UNCHANGED <<session, pane, deaths, used>>
  BY <1>1, HandoffFacts, NothingShown DEF tmuxVars, RecordWhileOnScreen
<1>3. OnlyClient(c)
  <2>1. \E to \in Places : pc' = [pc EXCEPT ![c] = to]
    BY DEF ListSessions, ListPanes, AllClosed, StillThere, Gone, FinishKilled, Goes, Places
  <2>2. target' = target \/ target' = [target EXCEPT ![c] = session]
    BY DEF ListSessions, ListPanes, AllClosed, StillThere, Gone, FinishKilled, OnlyPc
  <2>3. todo' = todo \/ \E d \in SUBSET Panes : todo' = [todo EXCEPT ![c] = d]
    BY DEF ListSessions, ListPanes, AllClosed, StillThere, Gone, FinishKilled, OnlyPc,
           DismissedPanes
  <2> QED
    BY <1>1, <1>2, <2>1, <2>2, <2>3, HandoffFacts DEF HandoffTypes, UsedOnce, OnlyClient
<1>4. ack'[c] # NoAck => ack'[c].launch \in used'
  BY <1>1, <1>2, HandoffFacts DEF UsedOnce
<1>5. /\ pc \in [Clients -> Places] /\ target \in [Clients -> used \union {NoLaunch}]
      /\ todo \in [Clients -> SUBSET Panes]
      /\ TargetKnown(c) /\ AckFollowed(c)
  BY HandoffFacts DEF HandoffTypes
<1>6. ack[c] # NoAck => ack[c].launch # NoLaunch /\ ack[c].pane \in Panes
  BY HandoffFacts DEF HandoffTypes, AckRecords
<1>7. /\ Acknowledged(ack[c].pane)' <=> Acknowledged(ack[c].pane)
      /\ StillShown(c)' <=> StillShown(c)
  BY <1>1, <1>2 DEF Acknowledged, StillShown
<1>8. CASE ListSessions(c)
  <2>1. /\ pc[c] = "dismiss" /\ target'[c] = session
        /\ \/ pc'[c] = "clean" /\ session = NoLaunch
           \/ pc'[c] = "panes" /\ session # NoLaunch
    BY <1>5, <1>8 DEF ListSessions, Goes
  <2>2. TargetKnown(c)'
    BY <1>2, <2>1 DEF TargetKnown
  <2>3. AckFollowed(c)'
    BY <1>1, <1>2, <1>5, <1>6, <2>1 DEF AckFollowed, StillShown, Acknowledged
  <2> QED
    BY <1>2, <1>3, <1>4, <2>2, <2>3, ClientSteps
<1>9. CASE ListPanes(c)
  <2>1. /\ pc[c] = "panes" /\ target'[c] = target[c]
        /\ \/ pc'[c] = "clean" /\ DismissedPanes = {}
           \/ pc'[c] = "kill" /\ todo'[c] = DismissedPanes
    BY <1>5, <1>9 DEF ListPanes, Goes
  <2>2. ack[c] # NoAck /\ StillShown(c) /\ Acknowledged(ack[c].pane) => ack[c].pane \in DismissedPanes
    BY <1>6 DEF StillShown, DismissedPanes
  <2>3. TargetKnown(c)'
    BY <1>2, <1>5, <2>1 DEF TargetKnown
  <2>4. AckFollowed(c)'
    BY <1>1, <1>2, <1>5, <1>6, <2>1, <2>2 DEF AckFollowed, StillShown, Acknowledged
  <2> QED
    BY <1>2, <1>3, <1>4, <2>3, <2>4, ClientSteps
<1>10. CASE AllClosed(c)
  <2>1. pc[c] = "kill" /\ todo[c] = {} /\ pc'[c] = "exists" /\ target'[c] = target[c]
    BY <1>5, <1>10 DEF AllClosed, Goes, OnlyPc
  <2>2. TargetKnown(c)'
    BY <1>2, <1>5, <2>1 DEF TargetKnown
  <2>3. AckFollowed(c)'
    BY <1>1, <1>2, <1>5, <2>1 DEF AckFollowed, StillShown, Acknowledged
  <2> QED
    BY <1>2, <1>3, <1>4, <2>2, <2>3, ClientSteps
<1>11. CASE StillThere(c) \/ Gone(c) \/ FinishKilled(c)
  <2>1. /\ pc[c] \in {"exists", "finish"} /\ target'[c] = target[c]
        /\ pc'[c] = "clean" \/ (pc'[c] \in {"finish", "delete"} /\ session # target[c])
    BY <1>5, <1>11 DEF StillThere, Gone, FinishKilled, ProvenGone, Goes, OnlyPc
  <2>2. TargetKnown(c)'
    BY <1>2, <1>5, <2>1 DEF TargetKnown
  <2>3. AckFollowed(c)'
    BY <1>1, <1>2, <1>5, <2>1 DEF AckFollowed, StillShown, Acknowledged
  <2> QED
    BY <1>2, <1>3, <1>4, <2>2, <2>3, ClientSteps
<1> QED
  BY <1>8, <1>9, <1>10, <1>11

(* A pane of the dismissal is closed, or the process gives up.                *)
LEMMA CloseSteps ==
  ASSUME HandoffInv, NEW c \in Clients, ClosePane(c) \/ ClosePaneTimesOut(c)
  PROVE  HandoffInv'
<1>1. CASE ClosePaneTimesOut(c)
  <2>1. UNCHANGED tmuxVars /\ Returns(c)
    BY <1>1 DEF ClosePaneTimesOut
  <2>2. ScreenOK' /\ ScreenMoves /\ RecordWhileOnScreen'
    BY <2>1, HandoffFacts, NothingShown DEF tmuxVars, RecordWhileOnScreen
  <2> QED
    BY <2>1, <2>2, Returned
<1>2. CASE ClosePane(c)
  <2>1. PICK p \in todo[c] :
          /\ pc[c] = "kill" /\ pc' = [pc EXCEPT ![c] = "kill"]
          /\ todo' = [todo EXCEPT ![c] = todo[c] \ {p}]
          /\ DismissCommand(target[c], p)
          /\ UNCHANGED <<expected, target, ack>>
    BY <1>2 DEF ClosePane, Goes
  <2>2. p \in Panes /\ todo[c] \in SUBSET Panes
    BY HandoffFacts DEF HandoffTypes
  <2>3. /\ ScreenOK' /\ ScreenMoves /\ RecordWhileOnScreen'
        /\ session = target[c] /\ pane[p].is = "dead" /\ Acknowledged(p) => pane'[p].is # "dead"
    BY <2>1, <2>2, CommandRuns
  <2>4. /\ OnlyClient(c) /\ pc'[c] = "kill" /\ target'[c] = target[c]
        /\ todo'[c] = todo[c] \ {p} /\ ack'[c] = ack[c]
    BY <2>1, <2>2, <2>3, HandoffFacts DEF HandoffTypes, OnlyClient, Places, ScreenMoves
  <2>5. TargetKnown(c)'
    BY <2>1, <2>4, HandoffFacts DEF TargetKnown
  <2>6. ASSUME ack[c] # NoAck, ack[c].launch = session'
        PROVE  /\ ack[c].death <= deaths'[ack[c].pane]
               /\ StillShown(c)' => /\ pane'[ack[c].pane].generation # 0
                                    /\ pane'[ack[c].pane].dismissed = pane'[ack[c].pane].generation
               /\ target'[c] = session'
               /\ StillShown(c)' => ack[c].pane \in todo'[c]
    <3>1. /\ session' = session /\ ack[c].launch = session
          /\ ack[c].death <= deaths'[ack[c].pane]
          /\ StillShown(c)' =>
               /\ StillShown(c) /\ Acknowledged(ack[c].pane)
               /\ pane'[ack[c].pane].generation # 0
               /\ pane'[ack[c].pane].dismissed = pane'[ack[c].pane].generation
      BY <2>3, <2>4, <2>6, AckStands
    <3>2. target[c] = session /\ (StillShown(c) => ack[c].pane \in todo[c])
      BY <2>1, <2>6, <3>1, HandoffFacts DEF AckFollowed
    <3>3. StillShown(c)' => ack[c].pane # p
      <4>1. StillShown(c)' => pane'[ack[c].pane].is = "dead"
        BY <2>4 DEF StillShown
      <4>2. StillShown(c) => pane[ack[c].pane].is = "dead"
        BY DEF StillShown
      <4> QED
        BY <2>3, <3>1, <3>2, <4>1, <4>2
    <3> QED
      BY <2>4, <3>1, <3>2, <3>3
  <2>7. AckFollowed(c)'
    BY <2>4, <2>6 DEF AckFollowed, Acknowledged
  <2>8. ack'[c] # NoAck => ack'[c].launch \in used'
    BY <2>3, <2>4, HandoffFacts DEF UsedOnce, ScreenMoves
  <2> QED
    BY <2>3, <2>4, <2>5, <2>7, <2>8, ClientSteps
<1> QED
  BY <1>1, <1>2

(* The record of a session that was proved gone is deleted.                   *)
LEMMA DeleteStep ==
  ASSUME HandoffInv, NEW c \in Clients, DeleteRecord(c)
  PROVE  HandoffInv'
<1>1. /\ pc[c] = "delete" /\ pc' = [pc EXCEPT ![c] = "clean"] /\ records' = records \ {target[c]}
      /\ UNCHANGED <<session, used, controls, pane, deaths, read, expected, target, todo, ack>>
  BY DEF DeleteRecord, Goes
<1>2. target[c] # session
  BY <1>1, HandoffFacts DEF TargetKnown
<1>3. RecordWhileOnScreen'
  BY <1>1, <1>2, HandoffFacts DEF RecordWhileOnScreen
<1>4. ScreenOK' /\ ScreenMoves
  BY <1>1, NothingShown
<1>5. OnlyClient(c) /\ pc'[c] = "clean"
  BY <1>1, HandoffFacts DEF HandoffTypes, OnlyClient, Places
<1>6. TargetKnown(c)'
  BY <1>5 DEF TargetKnown
<1>7. AckFollowed(c)'
  BY <1>1, <1>5, HandoffFacts DEF AckFollowed, StillShown, Acknowledged
<1>8. ack'[c] # NoAck => ack'[c].launch \in used'
  BY <1>1, HandoffFacts DEF UsedOnce
<1> QED
  BY <1>3, <1>4, <1>5, <1>6, <1>7, <1>8, ClientSteps

(* Tmux, the users and the commands that came late leave the processes alone. *)
LEMMA OutsideSteps ==
  ASSUME HandoffInv,
         UNCHANGED vars \/ LateCommand \/ (Others /\ UNCHANGED clientVars)
  PROVE  HandoffInv'
<1>1. UNCHANGED <<pc, expected, target, todo, ack>>
  BY DEF LateCommand, clientVars, vars
<1>2. ScreenOK' /\ ScreenMoves /\ RecordWhileOnScreen'
  <2>1. CASE UNCHANGED vars
    BY <2>1, HandoffFacts, NothingShown DEF vars, tmuxVars, RecordWhileOnScreen
  <2>2. CASE LateCommand
    BY <2>2, CommandRuns DEF LateCommand
  <2>3. CASE Others
    BY <2>3, OthersMove
  <2> QED
    BY <2>1, <2>2, <2>3
<1>3. \A c \in Clients : TargetKnown(c)' /\ AckFollowed(c)'
  BY <1>1, <1>2, ClientKept
<1>4. HandoffTypes'
  BY <1>1, <1>2, HandoffFacts DEF HandoffTypes, ScreenOK, ScreenMoves
<1>5. UsedOnce'
  BY <1>1, <1>2, HandoffFacts DEF UsedOnce, ScreenOK, ScreenMoves
<1> QED
  BY <1>2, <1>3, <1>4, <1>5 DEF HandoffInv, ScreenOK

(* Every step keeps the invariant.                                           *)
LEMMA HandoffInvStep == HandoffInv /\ [HandoffNext]_vars => HandoffInv'
<1> SUFFICES ASSUME HandoffInv, [HandoffNext]_vars  PROVE HandoffInv'
  OBVIOUS
<1>1. ASSUME NEW c \in Clients, Return(c)  PROVE HandoffInv'
  <2>1. UNCHANGED tmuxVars /\ Returns(c)
    BY <1>1 DEF Return
  <2>2. ScreenOK' /\ ScreenMoves /\ RecordWhileOnScreen'
    BY <2>1, HandoffFacts, NothingShown DEF tmuxVars, RecordWhileOnScreen
  <2> QED
    BY <2>1, <2>2, Returned
<1> QED
  BY <1>1, EntrySteps, AcknowledgeStep, QuerySteps, CloseSteps, DeleteStep, OutsideSteps
     DEF HandoffNext

(* No session, no process.                                                   *)
LEMMA HandoffInvInit == HandoffInit => HandoffInv
<1> SUFFICES ASSUME HandoffInit  PROVE HandoffInv
  OBVIOUS
<1>1. /\ session = NoLaunch /\ used = {} /\ controls = FALSE
      /\ pane = [p \in Panes |-> [is |-> "none", generation |-> 0, dismissed |-> 0]]
      /\ deaths = [p \in Panes |-> 0] /\ read = [p \in Panes |-> 0]
      /\ pc = [c \in Clients |-> "idle"] /\ todo = [c \in Clients |-> {}]
      /\ expected = [c \in Clients |-> NoLaunch] /\ target = [c \in Clients |-> NoLaunch]
      /\ ack = [c \in Clients |-> NoAck]
  BY DEF HandoffInit, DiagnosticsInit, Fresh
<1>2. [is |-> "none", generation |-> 0, dismissed |-> 0] \in PaneStates
  BY DEF PaneStates
<1>3. HandoffTypes
  BY <1>1, <1>2 DEF HandoffTypes, Places
<1>4. UsedOnce /\ RecordWhileOnScreen
  BY <1>1 DEF UsedOnce, RecordWhileOnScreen
<1>5. DeathsNumbered
  BY <1>1 DEF DeathsNumbered, Acknowledged
<1>6. \A c \in Clients : TargetKnown(c) /\ AckFollowed(c)
  BY <1>1 DEF TargetKnown, AckFollowed
<1> QED
  BY <1>3, <1>4, <1>5, <1>6 DEF HandoffInv

-----------------------------------------------------------------------------
(* Every run of any number of processes.                                     *)

(* Always: a launch has the id once, an acknowledged number is that of the    *)
(* latest death, and each dismissal follows the death it acknowledged.        *)
THEOREM HandoffInvariant == HandoffSpec => []HandoffInv
<1>1. HandoffInit => HandoffInv
  BY HandoffInvInit
<1>2. HandoffInv /\ [HandoffNext]_vars => HandoffInv'
  BY HandoffInvStep
<1> QED
  BY <1>1, <1>2, PTL DEF HandoffSpec

(* A session on screen keeps its record, however its error screens are closed *)
(* and whoever takes its id before or after.                                  *)
THEOREM RecordStays == HandoffSpec => []RecordWhileOnScreen
<1>1. HandoffInv => RecordWhileOnScreen
  BY DEF HandoffInv
<1> QED
  BY <1>1, HandoffInvariant, PTL

(* Who comes back from an error screen without a warning has closed the death *)
(* that was acknowledged.                                                     *)
THEOREM CleanReturn == HandoffSpec => []CleanReturnClosed
<1>1. HandoffInv => CleanReturnClosed
  <2> SUFFICES ASSUME HandoffInv, NEW c \in Clients,
                      pc[c] = "clean", ack[c] # NoAck, ack[c].launch = session
               PROVE  ~(pane[ack[c].pane].is = "dead" /\ deaths[ack[c].pane] = ack[c].death)
    BY DEF CleanReturnClosed
  <2> QED
    BY HandoffFacts DEF AckFollowed, StillShown
<1> QED
  BY <1>1, HandoffInvariant, PTL

(* A command of uxon's, in time or late, closes only a pane that is dead and  *)
(* whose latest death somebody acknowledged.                                  *)
THEOREM UnreadStays == HandoffSpec => OnlyReadDeathsClosed
<1>1. HandoffInv /\ [HandoffNext]_vars =>
        \A p \in Panes : ByDismissal /\ OnScreen(p) /\ pane'[p].is = "closed"
          => pane[p].is = "dead" /\ read[p] = deaths[p]
  <2> SUFFICES ASSUME HandoffInv, [HandoffNext]_vars, NEW p \in Panes,
                      ByDismissal, OnScreen(p), pane'[p].is = "closed"
               PROVE  pane[p].is = "dead" /\ read[p] = deaths[p]
    OBVIOUS
  <2>1. ASSUME NEW l, NEW q \in Panes, DismissCommand(l, q)
        PROVE  pane[p].is = "dead" /\ read[p] = deaths[p]
    <3>1. pane'[p] # pane[p]
      BY DEF OnScreen
    <3>2. LeavesScreen(q) /\ pane[q].is = "dead" /\ Acknowledged(q)
      BY <2>1, <3>1 DEF DismissCommand, tmuxVars
    <3>3. p = q
      BY <3>1, <3>2, HandoffFacts DEF LeavesScreen, ScreenOK
    <3> QED
      BY <3>2, <3>3, HandoffFacts DEF ScreenOK, DeathsNumbered
  <2>2. ASSUME UNCHANGED tmuxVars  PROVE FALSE
    BY <2>2 DEF tmuxVars, OnScreen
  <2>3. ASSUME NEW c \in Clients, Launch(c)  PROVE FALSE
    <3>1. pane'[p].is \in {"none", "live"}
      BY <2>3 DEF Launch, Starts, Fresh
    <3> QED
      BY <3>1
  <2>4. ASSUME UNCHANGED <<late, todo>>  PROVE FALSE
    BY <2>4 DEF ByDismissal
  <2>5. ASSUME NEW c \in Clients, ClosePane(c)
        PROVE  pane[p].is = "dead" /\ read[p] = deaths[p]
    <3>1. PICK q \in todo[c] : DismissCommand(target[c], q)
      BY <2>5 DEF ClosePane
    <3>2. q \in Panes
      BY HandoffFacts DEF HandoffTypes
    <3> QED
      BY <2>1, <3>1, <3>2
  <2>6. ASSUME NEW c \in Clients, PrepareAttach(c)  PROVE FALSE
    <3>1. pane' = pane
      BY <2>6 DEF PrepareAttach, InstallControls
    <3> QED
      BY <3>1 DEF OnScreen
  <2>7. ASSUME NEW c \in Clients,
               \/ Select(c) \/ Attach(c) \/ ListSessions(c) \/ ListPanes(c) \/ ClosePaneTimesOut(c)
               \/ AllClosed(c) \/ StillThere(c) \/ Gone(c) \/ FinishKilled(c) \/ Return(c)
        PROVE  FALSE
    BY <2>2, <2>7
       DEF Select, Attach, ListSessions, ListPanes, ClosePaneTimesOut, AllClosed, StillThere, Gone,
           FinishKilled, Return, OnlyPc
  <2>8. ASSUME NEW c \in Clients, Acknowledge(c) \/ DeleteRecord(c)  PROVE FALSE
    BY <2>4, <2>8 DEF Acknowledge, DeleteRecord
  <2>9. CASE LateCommand
    BY <2>1, <2>9 DEF LateCommand
  <2>10. CASE (Others /\ UNCHANGED clientVars) \/ UNCHANGED vars
    BY <2>4, <2>10 DEF clientVars, vars
  <2> QED
    BY <2>3, <2>5, <2>6, <2>7, <2>8, <2>9, <2>10 DEF HandoffNext
<1> QED
  BY <1>1, HandoffInvariant, PTL DEF HandoffSpec, OnlyReadDeathsClosed

=============================================================================
