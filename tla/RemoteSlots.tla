---------------------------- MODULE RemoteSlots ----------------------------
(***************************************************************************)
(* What the refresh of remote peers promises, without breakers, attempts   *)
(* or threads: a host is read at most once at a time, and what its slot    *)
(* shows is the outcome of one read, folded in after every earlier one.    *)
(* RemoteRefresh implements it.                                            *)
(***************************************************************************)
EXTENDS RemotePeers

VARIABLES
  slot,     \* the outcome last shown for each host
  reading   \* the outcome read and not yet shown, or NoRead

slotVars == <<slot, reading>>

SlotsTypeOK ==
  /\ PeersTypeOK
  /\ slot \in [Hosts -> [known : BOOLEAN, snap : Snapshots]]
  /\ reading \in [Hosts -> Snapshots \union {NoRead}]

SlotsInit ==
  /\ PeersInit
  /\ slot = [h \in Hosts |-> [known |-> FALSE, snap |-> Blank]]
  /\ reading = [h \in Hosts |-> NoRead]

\* The peer answers, or is given up; a refusal of --all-users leads to a
\* second command, whose answer is the one that counts.
Read(h) ==
  /\ reading[h] = NoRead
  /\ \E all \in BOOLEAN : \E o \in {Answer(h, all)} :
       /\ ~(all /\ FallsBack(o))
       /\ \E snap \in {Snapshot(o, ~all)} : reading' = [reading EXCEPT ![h] = snap]
       /\ IF o.ended = "timeout" THEN UNCHANGED master ELSE Connected(h)
  /\ UNCHANGED <<peer, slot>>

\* The refused command itself opens the connection.
OpensConnection(h) ==
  /\ ~Stuck(h)
  /\ Connected(h)
  /\ UNCHANGED <<peer, slot, reading>>

\* The command that timed out asks the master to exit.
RecoversAfterRead(h) ==
  /\ reading[h] # NoRead /\ reading[h].code = "timeout" /\ Shares(h)
  /\ AsksMasterToExit(h)
  /\ UNCHANGED <<peer, slot, reading>>

Show(h) ==
  /\ reading[h] # NoRead
  /\ slot' = [slot EXCEPT ![h] = Folded(reading[h])]
  /\ reading' = [reading EXCEPT ![h] = NoRead]
  /\ UNCHANGED peerVars

\* The reader dies, and what it read is lost.
Lose(h) ==
  /\ reading[h] # NoRead
  /\ reading' = [reading EXCEPT ![h] = NoRead]
  /\ UNCHANGED <<slot, peerVars>>

SlotsNext == \E h \in Hosts :
  \/ Read(h) \/ OpensConnection(h) \/ RecoversAfterRead(h) \/ Show(h) \/ Lose(h)
  \/ PeersMove(h) /\ UNCHANGED slotVars

SlotsSpec == SlotsInit /\ [][SlotsNext]_<<slotVars, peerVars>>
=============================================================================
