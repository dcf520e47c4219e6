------------------------- MODULE RemoteControl_proofs -------------------------
(***************************************************************************)
(* Commands sent to a peer, for any number of hosts, sessions, kills and    *)
(* terminals: a removal that is reported has taken place, whatever the slot *)
(* it was chosen from showed by then and whatever became of the connection; *)
(* and no recovery of a shared connection ends an attached terminal.        *)
(***************************************************************************)
EXTENDS RemoteControl, TLAPS

-----------------------------------------------------------------------------
(* What one read of a peer comes to.                                         *)

(* What a peer that answers soundly, or is older, is read as.               *)
LEMMA AnswersDecode ==
  ASSUME NEW S
  PROVE  /\ EnvelopeCode(SoundEnvelope(S)) = "none"
         /\ EnvelopeCode([SoundEnvelope(S) EXCEPT !.schema = "older"]) \in ErrorCodes
<1>1. ASSUME NEW e, e.object, e.list, e.data, e.error = "none", e.records = "sound",
             e.scope, e.stats = "none"
      PROVE  EnvelopeCode(e) = IF e.schema = "same" THEN "none" ELSE SchemaCode(e)
  <2> DEFINE checks == << <<e.object,            "invalid_response">>,
                          <<e.schema = "same",   SchemaCode(e)>>,
                          <<e.list,              "invalid_response">>,
                          <<e.data,              "invalid_response">>,
                          <<e.error = "none",    ReportedCode(e)>>,
                          <<e.records = "sound", "invalid_response">>,
                          <<e.scope,             "invalid_response">>,
                          <<e.stats # "bad",     "invalid_response">> >>
  <2>0. \A i \in 1..8 : i \in {1, 2, 3, 4, 5, 6, 7, 8}
    OBVIOUS
  <2>1. DOMAIN checks = 1..8
    OBVIOUS
  <2>2. /\ checks[1][1] /\ checks[3][1] /\ checks[4][1] /\ checks[5][1]
        /\ checks[6][1] /\ checks[7][1] /\ checks[8][1]
    BY <1>1
  <2>3. checks[2][1] = (e.schema = "same") /\ checks[2][2] = SchemaCode(e)
    OBVIOUS
  <2>4. EnvelopeCode(e) = FirstFailure(checks, "none")
    BY DEF EnvelopeCode
  <2> HIDE DEF checks
  <2>5. CASE e.schema = "same"
    <3>1. \A i \in 1..8 : checks[i][1]
      BY <2>2, <2>3, <2>5, <2>0
    <3>2. {i \in DOMAIN checks : ~checks[i][1]} = {}
      BY <2>1, <3>1
    <3> QED
      BY <2>4, <2>5, <3>2 DEF FirstFailure
  <2>6. CASE e.schema # "same"
    <3>1. \A i \in 1..8 : checks[i][1] <=> i # 2
      BY <2>2, <2>3, <2>6, <2>0
    <3>2. 2 \in 1..8
      OBVIOUS
    <3>3. {i \in DOMAIN checks : ~checks[i][1]} = {2}
      BY <2>1, <3>1, <3>2
    <3>4. Min({2}) = 2
      BY DEF Min
    <3> QED
      BY <2>3, <2>4, <2>6, <3>3, <3>4 DEF FirstFailure
  <2> QED
    BY <2>5, <2>6
<1>2. ASSUME NEW e, e = SoundEnvelope(S)  PROVE EnvelopeCode(e) = "none"
  <2>1. /\ e.object /\ e.list /\ e.data /\ e.error = "none" /\ e.records = "sound"
        /\ e.scope /\ e.stats = "none" /\ e.schema = "same"
    BY <1>2 DEF SoundEnvelope
  <2> QED
    BY <1>1, <2>1
<1>3. ASSUME NEW e, e = [SoundEnvelope(S) EXCEPT !.schema = "older"]
      PROVE  EnvelopeCode(e) \in ErrorCodes
  <2>1. /\ e.object /\ e.list /\ e.data /\ e.error = "none" /\ e.records = "sound"
        /\ e.scope /\ e.stats = "none" /\ e.schema = "older"
    BY <1>3 DEF SoundEnvelope
  <2>2. EnvelopeCode(e) = SchemaCode(e)
    BY <1>1, <2>1
  <2>3. SchemaCode(e) \in ErrorCodes
    BY DEF SchemaCode, ErrorCodes, CompatibilityCodes
  <2> QED
    BY <2>2, <2>3
<1> QED
  BY <1>2, <1>3

(* What a command to a peer comes to, a slot can show, and what it lists are   *)
(* sessions the peer has now.                                                *)
LEMMA ListsAlive ==
  ASSUME PeersTypeOK, NEW h \in Hosts, NEW all \in BOOLEAN, NEW limited \in BOOLEAN
  PROVE  /\ Snapshot(Answer(h, all), limited) \in Snapshots
         /\ Snapshot(Answer(h, all), limited).sessions \subseteq peer[h].alive
<1> DEFINE o == Answer(h, all)
<1>1. CASE o \in {Silent("timeout"), Silent("exit"), [Silent("exit") EXCEPT !.marker = TRUE]}
  <2>1. o.ended \in {"timeout", "exit"} /\ ~o.written
    BY <1>1 DEF Silent
  <2> HIDE DEF o
  <2>2. /\ Snapshot(o, limited) = [code |-> RunCode(o), sessions |-> {}, limited |-> limited]
        /\ RunCode(o) \in {"timeout", "ssh_error"}
    BY <2>1 DEF Snapshot, RunCode
  <2>3. Snapshot(o, limited) \in Snapshots /\ Snapshot(o, limited).sessions = {}
    BY <2>2 DEF Snapshots, ErrorCodes
  <2> QED
    BY <2>3 DEF o
<1>2. ASSUME NEW e, o = Wrote(e), EnvelopeCode(e) \in {"none"} \union ErrorCodes,
             e.sessions \in SUBSET peer[h].alive
      PROVE  /\ Snapshot(o, limited) \in Snapshots
             /\ Snapshot(o, limited).sessions \subseteq peer[h].alive
  <2>1. o.ended = "ok" /\ o.env = e /\ ~o.marker
    BY <1>2 DEF Wrote
  <2> HIDE DEF o
  <2>2. Snapshot(o, limited) = [code     |-> EnvelopeCode(e),
                                sessions |-> IF EnvelopeCode(e) = "none" THEN e.sessions ELSE {},
                                limited  |-> limited]
    BY <2>1 DEF Snapshot, RunCode
  <2>3. peer[h].alive \subseteq Sessions
    BY DEF PeersTypeOK, Peer
  <2> QED
    BY <1>2, <2>2, <2>3 DEF Snapshots
<1>3. CASE o = Wrote([SoundEnvelope(peer[h].alive) EXCEPT !.schema = "older"])
  <2>1. PICK e : e = [SoundEnvelope(peer[h].alive) EXCEPT !.schema = "older"]
    OBVIOUS
  <2>2. e.sessions = peer[h].alive
    BY <2>1 DEF SoundEnvelope
  <2>3. EnvelopeCode(e) \in ErrorCodes
    BY <2>1, AnswersDecode
  <2>4. o = Wrote(e)
    BY <1>3, <2>1
  <2> HIDE DEF o
  <2>5. EnvelopeCode(e) \in {"none"} \union ErrorCodes /\ e.sessions \in SUBSET peer[h].alive
    BY <2>2, <2>3
  <2> QED
    BY <1>2, <2>4, <2>5 DEF o
<1>4. CASE \E s \in SUBSET peer[h].alive : o = Wrote(SoundEnvelope(s))
  <2>1. PICK s \in SUBSET peer[h].alive : o = Wrote(SoundEnvelope(s))
    BY <1>4
  <2>2. PICK e : e = SoundEnvelope(s)
    OBVIOUS
  <2>3. e.sessions \in SUBSET peer[h].alive
    BY <2>2 DEF SoundEnvelope
  <2>4. EnvelopeCode(e) = "none" /\ o = Wrote(e)
    BY <2>1, <2>2, AnswersDecode
  <2> HIDE DEF o
  <2> QED
    BY <1>2, <2>3, <2>4 DEF o
<1> QED
  BY <1>1, <1>3, <1>4 DEF Answer

-----------------------------------------------------------------------------
(* Types.                                                                   *)

KillRecords ==
  [at : {"idle", "confirming", "sent", "waiting", "recovering", "reporting"},
   host : Hosts \union {NoHost}, target : Sessions \union {NoTarget},
   seen : BOOLEAN, result : {"none", "removed", "failed"}]

TermRecords == [at : {"none", "connecting", "attached"}, host : Hosts \union {NoHost}]

RunStates == {"none", "running", "killed", "already_absent", "failed", "foreign"}

(* Blank and folded snapshots are ones a slot can show.                       *)
LEMMA Foldings ==
  /\ Blank \in Snapshots /\ Blank.sessions = {} /\ NoRead.sessions = {}
  /\ \A s \in Snapshots :
       /\ Folded(s) \in [known : BOOLEAN, snap : Snapshots]
       /\ Folded(s).snap.sessions \subseteq s.sessions
<1>1. Blank \in Snapshots /\ Blank.sessions = {} /\ NoRead.sessions = {}
  BY DEF Blank, NoRead, Snapshots
<1>2. ASSUME NEW s \in Snapshots
      PROVE  [s EXCEPT !.sessions = {}] \in Snapshots /\ [s EXCEPT !.sessions = {}].sessions = {}
  BY DEF Snapshots
<1> QED
  BY <1>1, <1>2 DEF Folded

(* A kill may move on, and be given its result.                               *)
LEMMA KillFields ==
  ASSUME NEW r \in KillRecords
  PROVE  /\ \A p \in {"idle", "confirming", "sent", "waiting", "recovering", "reporting"} :
              /\ [r EXCEPT !.at = p] \in KillRecords
              /\ \A x \in {"none", "removed", "failed"} :
                   [r EXCEPT !.at = p, !.result = x] \in KillRecords
         /\ NoKill \in KillRecords
BY DEF KillRecords, NoKill

(* The parts of a peer that ends a session.                                   *)
LEMMA PeerWithout ==
  ASSUME peer \in [Hosts -> Peer], NEW h \in Hosts, NEW s \in peer[h].alive,
         peer' = [peer EXCEPT ![h].alive = @ \ {s}, ![h].gone = @ \union {s}]
  PROVE  /\ peer' \in [Hosts -> Peer]
         /\ peer'[h].alive = peer[h].alive \ {s} /\ peer'[h].gone = peer[h].gone \union {s}
         /\ \A g \in Hosts : g # h => peer'[g] = peer[g]
<1>1. peer[h] \in Peer
  OBVIOUS
<1>2. s \in Sessions
  BY <1>1 DEF Peer
<1>3. PICK p : p = [peer EXCEPT ![h].alive = @ \ {s}]
  OBVIOUS
<1>4. /\ p \in [Hosts -> Peer]
      /\ p[h].alive = peer[h].alive \ {s} /\ p[h].gone = peer[h].gone
      /\ \A g \in Hosts : g # h => p[g] = peer[g]
  BY <1>1, <1>2, <1>3 DEF Peer
<1>5. peer' = [p EXCEPT ![h].gone = @ \union {s}]
  BY <1>3
<1>6. ASSUME NEW q \in Peer
      PROVE  /\ [q EXCEPT !.gone = @ \union {s}] \in Peer
             /\ [q EXCEPT !.gone = @ \union {s}].alive = q.alive
             /\ [q EXCEPT !.gone = @ \union {s}].gone = q.gone \union {s}
  BY <1>2 DEF Peer
<1>7. p[h] \in Peer
  BY <1>4
<1>8. /\ peer'[h] = [p[h] EXCEPT !.gone = @ \union {s}]
      /\ \A g \in Hosts : g # h => peer'[g] = p[g]
      /\ peer' = [g \in Hosts |-> IF g = h THEN [p[h] EXCEPT !.gone = @ \union {s}] ELSE p[g]]
  BY <1>4, <1>5
<1>9. peer' \in [Hosts -> Peer]
  BY <1>4, <1>6, <1>7, <1>8
<1> QED
  BY <1>4, <1>6, <1>7, <1>8, <1>9

(* What can be done to a peer by anybody.                                     *)
PeersOnlyLose ==
  \A h \in Hosts : /\ Had(h) \subseteq peer'[h].alive \union peer'[h].gone
                   /\ peer[h].gone \subseteq peer'[h].gone
                   /\ peer'[h].alive \intersect peer'[h].gone = {}

(* A session ended on a peer, or its condition changed.                       *)
LEMMA ExecuteLoses ==
  ASSUME ControlInv, NEW k \in Kills, Execute(k)
  PROVE  PeersOnlyLose /\ peer' \in [Hosts -> Peer]
<1>1. /\ peer \in [Hosts -> Peer] /\ EndedForGood
      /\ kill[k].host \in Hosts
  BY DEF ControlInv, ControlTypeOK, SlotsTypeOK, PeersTypeOK, TargetWasRead, Execute
<1>2. CASE UNCHANGED peer
  BY <1>1, <1>2 DEF PeersOnlyLose, Had, EndedForGood
<1>3. CASE kill[k].target \in peer[kill[k].host].alive /\ Removed(k)
  <2>1. PICK h \in Hosts : h = kill[k].host
    BY <1>1
  <2>2. PICK s \in peer[h].alive : s = kill[k].target
    BY <1>3, <2>1
  <2>3. /\ peer' \in [Hosts -> Peer]
        /\ peer'[h].alive = peer[h].alive \ {s} /\ peer'[h].gone = peer[h].gone \union {s}
        /\ \A g \in Hosts : g # h => peer'[g] = peer[g]
    <3>1. peer' = [peer EXCEPT ![h].alive = @ \ {s}, ![h].gone = @ \union {s}]
      BY <1>3, <2>1, <2>2 DEF Removed
    <3> QED
      BY <1>1, <2>1, <2>2, <3>1, PeerWithout
  <2> QED
    BY <1>1, <2>2, <2>3 DEF PeersOnlyLose, Had, EndedForGood
<1> QED
  BY <1>2, <1>3 DEF Execute

(* However a peer changes, its sessions end and do not come back.           *)
LEMMA ChangesLose ==
  ASSUME ControlInv, NEW h \in Hosts, PeerChanges(h)
  PROVE  PeersOnlyLose /\ peer' \in [Hosts -> Peer]
<1>1. peer \in [Hosts -> Peer] /\ EndedForGood /\ peer[h] \in Peer
  BY DEF ControlInv, ControlTypeOK, SlotsTypeOK, PeersTypeOK
<1>2. PICK does \in Conditions, alive \in SUBSET (Sessions \ peer[h].gone) :
        peer' = [peer EXCEPT ![h] = [does |-> does, alive |-> alive,
                                     gone |-> peer[h].gone \union (peer[h].alive \ alive)]]
  BY DEF PeerChanges
<1>3. [does |-> does, alive |-> alive,
       gone |-> peer[h].gone \union (peer[h].alive \ alive)] \in Peer
  BY <1>1 DEF Peer
<1> QED
  BY <1>1, <1>2, <1>3 DEF PeersOnlyLose, Had, EndedForGood

(* Nothing done to the peers loses nothing.                                   *)
LEMMA NothingLost ==
  ASSUME ControlInv, UNCHANGED peer
  PROVE  PeersOnlyLose /\ peer' \in [Hosts -> Peer]
BY DEF ControlInv, ControlTypeOK, SlotsTypeOK, PeersTypeOK, PeersOnlyLose, Had, EndedForGood

-----------------------------------------------------------------------------
(* The slots.                                                               *)

(* The connection to a host after a command that ran, or that asks it to end. *)
LEMMA Masters ==
  ASSUME ControlInv, NEW h \in Hosts, Connected(h) \/ AsksMasterToExit(h)
  PROVE  master' \in [Hosts -> {"none", "up", "stuck"}]
BY DEF ControlInv, ControlTypeOK, SlotsTypeOK, PeersTypeOK, Connected, AsksMasterToExit

(* What is read while nothing happens to the peers was there.                 *)
LEMMA ReadsStay ==
  ASSUME ControlInv, PeersOnlyLose,
         \A h \in Hosts : /\ slot'[h].snap.sessions \subseteq Had(h)
                          /\ reading'[h].sessions \subseteq Had(h)
  PROVE  ReadFromPeer'
BY DEF PeersOnlyLose, ReadFromPeer, Had

(* The slots themselves.                                                      *)
LEMMA SlotsStep ==
  ASSUME ControlInv, SlotsNext
  PROVE  SlotsTypeOK' /\ PeersOnlyLose /\ ReadFromPeer'
<1>1. PICK h \in Hosts :
        \/ Read(h) \/ OpensConnection(h) \/ RecoversAfterRead(h) \/ Show(h) \/ Lose(h)
        \/ PeersMove(h) /\ UNCHANGED slotVars
  BY DEF SlotsNext
<1>2. /\ slot \in [Hosts -> [known : BOOLEAN, snap : Snapshots]]
      /\ reading \in [Hosts -> Snapshots \union {NoRead}]
      /\ peer \in [Hosts -> Peer] /\ master \in [Hosts -> {"none", "up", "stuck"}]
      /\ PeersTypeOK
  BY DEF ControlInv, ControlTypeOK, SlotsTypeOK, PeersTypeOK
<1>3. \A g \in Hosts : slot[g].snap.sessions \subseteq Had(g) /\ reading[g].sessions \subseteq Had(g)
  BY DEF ControlInv, ReadFromPeer
<1>4. CASE Read(h)
  <2>0. PICK all \in BOOLEAN :
          /\ reading' = [reading EXCEPT ![h] = Snapshot(Answer(h, all), ~all)]
          /\ (UNCHANGED master \/ Connected(h))
    BY <1>4 DEF Read
  <2>1. PICK snap :
          /\ snap = Snapshot(Answer(h, all), ~all)
          /\ reading' = [reading EXCEPT ![h] = snap]
          /\ (UNCHANGED master \/ Connected(h))
    BY <2>0
  <2>2. snap \in Snapshots /\ snap.sessions \subseteq peer[h].alive
    <3>1. all \in BOOLEAN /\ (~all) \in BOOLEAN
      OBVIOUS
    <3> QED
      BY <1>2, <2>1, <3>1, ListsAlive
  <2>3. PeersOnlyLose /\ UNCHANGED <<peer, slot>>
    BY <1>4, NothingLost DEF Read
  <2>4. ASSUME NEW g \in Hosts  PROVE reading'[g].sessions \subseteq Had(g)
    <3>1. snap.sessions \subseteq Had(h)
      BY <2>2 DEF Had
    <3>2. reading'[g] = IF g = h THEN snap ELSE reading[g]
      BY <1>2, <2>1
    <3> QED
      BY <1>3, <3>1, <3>2
  <2>5. master' \in [Hosts -> {"none", "up", "stuck"}]
    BY <1>2, <2>1, Masters
  <2>6. reading' \in [Hosts -> Snapshots \union {NoRead}]
    BY <1>2, <2>1, <2>2
  <2>7. ReadFromPeer'
    BY <1>3, <2>3, <2>4, ReadsStay
  <2> QED
    BY <1>2, <2>3, <2>5, <2>6, <2>7 DEF SlotsTypeOK, PeersTypeOK
<1>5. CASE OpensConnection(h) \/ RecoversAfterRead(h)
  <2>1. master' \in [Hosts -> {"none", "up", "stuck"}] /\ UNCHANGED <<peer, slot, reading>>
    BY <1>5, Masters DEF OpensConnection, RecoversAfterRead
  <2>2. PeersOnlyLose
    BY <2>1, NothingLost
  <2>3. ReadFromPeer'
    BY <1>3, <2>1, <2>2, ReadsStay
  <2> QED
    BY <1>2, <2>1, <2>2, <2>3 DEF SlotsTypeOK, PeersTypeOK
<1>6. CASE Show(h)
  <2>1. /\ reading[h] # NoRead
        /\ slot' = [slot EXCEPT ![h] = Folded(reading[h])]
        /\ reading' = [reading EXCEPT ![h] = NoRead]
        /\ UNCHANGED <<peer, master>>
    BY <1>6 DEF Show, peerVars
  <2>2. reading[h] \in Snapshots
    BY <1>2, <2>1
  <2>3. /\ Folded(reading[h]) \in [known : BOOLEAN, snap : Snapshots]
        /\ Folded(reading[h]).snap.sessions \subseteq reading[h].sessions
        /\ NoRead.sessions = {}
    BY <2>2, Foldings
  <2>4. PeersOnlyLose
    BY <2>1, NothingLost
  <2>5. slot' \in [Hosts -> [known : BOOLEAN, snap : Snapshots]]
    BY <1>2, <2>1, <2>3
  <2>6. reading' \in [Hosts -> Snapshots \union {NoRead}]
    BY <1>2, <2>1
  <2>7. ASSUME NEW g \in Hosts
        PROVE  slot'[g].snap.sessions \subseteq Had(g) /\ reading'[g].sessions \subseteq Had(g)
    BY <1>2, <1>3, <2>1, <2>3
  <2>8. ReadFromPeer'
    BY <2>4, <2>7, ReadsStay
  <2> QED
    BY <1>2, <2>1, <2>4, <2>5, <2>6, <2>8 DEF SlotsTypeOK, PeersTypeOK
<1>7. CASE Lose(h)
  <2>1. reading' = [reading EXCEPT ![h] = NoRead] /\ UNCHANGED <<slot, peer, master>>
    BY <1>7 DEF Lose, peerVars
  <2>2. PeersOnlyLose
    BY <2>1, NothingLost
  <2>3. \A g \in Hosts : reading'[g].sessions \subseteq Had(g)
    BY <1>2, <1>3, <2>1, Foldings
  <2>4. ReadFromPeer'
    BY <1>3, <2>1, <2>2, <2>3, ReadsStay
  <2>5. reading' \in [Hosts -> Snapshots \union {NoRead}]
    BY <1>2, <2>1
  <2> QED
    BY <1>2, <2>1, <2>2, <2>4, <2>5 DEF SlotsTypeOK, PeersTypeOK
<1>8. CASE PeersMove(h) /\ UNCHANGED slotVars
  <2>1. UNCHANGED <<slot, reading>>
    BY <1>8 DEF slotVars
  <2>2. /\ PeersOnlyLose /\ peer' \in [Hosts -> Peer]
        /\ master' \in [Hosts -> {"none", "up", "stuck"}]
    <3>1. CASE PeerChanges(h)
      BY <1>2, <3>1, ChangesLose DEF PeerChanges
    <3>2. CASE MasterSticks(h) \/ MasterEnds(h)
      BY <1>2, <3>2, NothingLost DEF MasterSticks, MasterEnds
    <3> QED
      BY <1>8, <3>1, <3>2 DEF PeersMove
  <2>3. ReadFromPeer'
    BY <1>3, <2>1, <2>2, ReadsStay
  <2> QED
    BY <1>2, <2>1, <2>2, <2>3 DEF SlotsTypeOK, PeersTypeOK
<1> QED
  BY <1>1, <1>4, <1>5, <1>6, <1>7, <1>8

-----------------------------------------------------------------------------
(* The kills.                                                               *)

(* A step of one kill keeps what is said of every kill, if it keeps what is   *)
(* said of that one.                                                          *)
LEMMA OneKill ==
  ASSUME ControlInv, PeersOnlyLose, NEW k \in Kills,
         \A j \in Kills : j # k => kill'[j] = kill[j] /\ run'[j] = run[j],
         kill'[k].at # "idle" \/ run'[k] # "none" =>
           /\ kill'[k].host \in Hosts
           /\ kill'[k].target \in peer'[kill'[k].host].alive \union peer'[kill'[k].host].gone,
         kill'[k].result # "none" => kill'[k].at = "reporting",
         kill'[k].at \in {"confirming", "sent"} => run'[k] = "none",
         run'[k] \in {"killed", "already_absent"} => kill'[k].target \in peer'[kill'[k].host].gone,
         kill'[k].result = "removed" => kill'[k].target \in peer'[kill'[k].host].gone
  PROVE  (TargetWasRead /\ ResultReported /\ RunsOnceSent /\ RunIsTrue /\ RemoteSuccessIsReal)'
<1>1. ASSUME NEW j \in Kills
      PROVE  /\ kill'[j].at # "idle" \/ run'[j] # "none" =>
                 /\ kill'[j].host \in Hosts
                 /\ kill'[j].target \in peer'[kill'[j].host].alive \union peer'[kill'[j].host].gone
             /\ kill'[j].result # "none" => kill'[j].at = "reporting"
             /\ kill'[j].at \in {"confirming", "sent"} => run'[j] = "none"
             /\ run'[j] \in {"killed", "already_absent"} =>
                  kill'[j].target \in peer'[kill'[j].host].gone
             /\ kill'[j].result = "removed" => kill'[j].target \in peer'[kill'[j].host].gone
  <2>1. CASE j = k
    BY <2>1
  <2>2. CASE j # k
    <3>1. kill'[j] = kill[j] /\ run'[j] = run[j]
      BY <2>2
    <3>2. /\ kill[j].at # "idle" \/ run[j] # "none" =>
               kill[j].host \in Hosts /\ kill[j].target \in Had(kill[j].host)
          /\ kill[j].result # "none" => kill[j].at = "reporting"
          /\ kill[j].at \in {"confirming", "sent"} => run[j] = "none"
          /\ run[j] \in {"killed", "already_absent"} => kill[j].target \in peer[kill[j].host].gone
          /\ kill[j].result = "removed" => kill[j].target \in peer[kill[j].host].gone
      BY DEF ControlInv, TargetWasRead, ResultReported, RunsOnceSent, RunIsTrue, RemoteSuccessIsReal
    <3> QED
      BY <3>1, <3>2 DEF PeersOnlyLose
  <2> QED
    BY <2>1, <2>2
<1> QED
  BY <1>1 DEF TargetWasRead, ResultReported, RunsOnceSent, RunIsTrue, RemoteSuccessIsReal, Had

(* Other operations leave the kills what they were.                           *)
LEMMA NoKillMoves ==
  ASSUME ControlInv, PeersOnlyLose, UNCHANGED <<kill, run>>
  PROVE  (TargetWasRead /\ ResultReported /\ RunsOnceSent /\ RunIsTrue /\ RemoteSuccessIsReal)'
<1>1. ASSUME NEW j \in Kills
      PROVE  /\ kill[j].at # "idle" \/ run[j] # "none" =>
                 /\ kill[j].host \in Hosts
                 /\ kill[j].target \in peer'[kill[j].host].alive \union peer'[kill[j].host].gone
             /\ kill[j].result # "none" => kill[j].at = "reporting"
             /\ kill[j].at \in {"confirming", "sent"} => run[j] = "none"
             /\ run[j] \in {"killed", "already_absent"} =>
                  kill[j].target \in peer'[kill[j].host].gone
             /\ kill[j].result = "removed" => kill[j].target \in peer'[kill[j].host].gone
  <2>1. /\ kill[j].at # "idle" \/ run[j] # "none" =>
             kill[j].host \in Hosts /\ kill[j].target \in Had(kill[j].host)
        /\ kill[j].result # "none" => kill[j].at = "reporting"
        /\ kill[j].at \in {"confirming", "sent"} => run[j] = "none"
        /\ run[j] \in {"killed", "already_absent"} => kill[j].target \in peer[kill[j].host].gone
        /\ kill[j].result = "removed" => kill[j].target \in peer[kill[j].host].gone
    BY DEF ControlInv, TargetWasRead, ResultReported, RunsOnceSent, RunIsTrue, RemoteSuccessIsReal
  <2> QED
    BY <2>1 DEF PeersOnlyLose
<1> QED
  BY <1>1 DEF TargetWasRead, ResultReported, RunsOnceSent, RunIsTrue, RemoteSuccessIsReal, Had

(* A response that is believed and says removed tells what the run did.       *)
LEMMA RemovedIsTold ==
  ASSUME NEW k \in Kills, NEW r \in Responses(k), ResultOf(r) = "removed",
         run[k] \in RunStates \ {"none", "running"}
  PROVE  run[k] \in {"killed", "already_absent"}
<1>1. r.schema = "same" /\ r.action # "failed"
  BY DEF ResultOf, Believed
<1>2. run[k] # "foreign" /\ r.action = run[k]
  BY <1>1 DEF Responses
<1> QED
  BY <1>1, <1>2 DEF RunStates

(* The parts of the state that a step of a kill which touches neither slot,   *)
(* peer nor terminal keeps.                                                   *)
LEMMA KillStays ==
  ASSUME ControlInv, NEW k \in Kills, UNCHANGED <<slot, reading, peer, term>>,
         master' \in [Hosts -> {"none", "up", "stuck"}],
         NEW r \in KillRecords, kill' = [kill EXCEPT ![k] = r],
         NEW d \in RunStates, run' = [run EXCEPT ![k] = d],
         r.at # "idle" \/ d # "none" => r.host \in Hosts /\ r.target \in Had(r.host),
         r.result # "none" => r.at = "reporting",
         r.at \in {"confirming", "sent"} => d = "none",
         d \in {"killed", "already_absent"} => r.target \in peer[r.host].gone,
         r.result = "removed" => r.target \in peer[r.host].gone
  PROVE  ControlInv'
<1>1. /\ kill \in [Kills -> KillRecords] /\ run \in [Kills -> RunStates]
      /\ ControlTypeOK /\ EndedForGood /\ ReadFromPeer
  BY DEF ControlInv, ControlTypeOK, KillRecords, RunStates
<1>2. /\ kill' \in [Kills -> KillRecords] /\ run' \in [Kills -> RunStates]
      /\ kill'[k] = r /\ run'[k] = d
      /\ \A j \in Kills : j # k => kill'[j] = kill[j] /\ run'[j] = run[j]
  BY <1>1
<1>3. PeersOnlyLose
  BY NothingLost
<1>4. peer'[r.host].alive \union peer'[r.host].gone = Had(r.host)
  BY DEF Had
<1>5. (TargetWasRead /\ ResultReported /\ RunsOnceSent /\ RunIsTrue /\ RemoteSuccessIsReal)'
  BY <1>2, <1>3, <1>4, OneKill
<1>6. (EndedForGood /\ ReadFromPeer)'
  BY <1>1 DEF EndedForGood, ReadFromPeer, Had
<1>7. ControlTypeOK'
  BY <1>1, <1>2 DEF ControlTypeOK, SlotsTypeOK, PeersTypeOK, KillRecords, RunStates
<1> QED
  BY <1>5, <1>6, <1>7 DEF ControlInv

(* Nor does it matter which kill it is when nothing is asked of the peer.     *)
LEMMA KillIs ==
  ASSUME ControlInv, NEW k \in Kills
  PROVE  /\ kill[k] \in KillRecords /\ run[k] \in RunStates
         /\ run = [run EXCEPT ![k] = run[k]]
         /\ master \in [Hosts -> {"none", "up", "stuck"}]
         /\ kill[k].at # "idle" \/ run[k] # "none" =>
              kill[k].host \in Hosts /\ kill[k].target \in Had(kill[k].host)
         /\ kill[k].result # "none" => kill[k].at = "reporting"
         /\ kill[k].at \in {"confirming", "sent"} => run[k] = "none"
         /\ run[k] \in {"killed", "already_absent"} => kill[k].target \in peer[kill[k].host].gone
         /\ kill[k].result = "removed" => kill[k].target \in peer[kill[k].host].gone
BY DEF ControlInv, ControlTypeOK, SlotsTypeOK, PeersTypeOK, KillRecords, RunStates,
       TargetWasRead, ResultReported, RunsOnceSent, RunIsTrue, RemoteSuccessIsReal

(* A kill moves on, or is given a failure to report.                          *)
LEMMA KillMoveKeeps ==
  ASSUME ControlInv, NEW k \in Kills, UNCHANGED <<slot, reading, peer, term, run>>,
         master' \in [Hosts -> {"none", "up", "stuck"}], kill[k].at # "idle",
         \/ kill[k].at = "confirming" /\ KillMoves(k, "sent")
         \/ kill[k].at # "reporting" /\ KillMoves(k, "recovering")
         \/ Reports(k, "failed")
  PROVE  ControlInv'
<1>1. PICK c : c = kill[k]
  OBVIOUS
<1>2. /\ c \in KillRecords /\ run[k] \in RunStates /\ run' = [run EXCEPT ![k] = run[k]]
      /\ c.host \in Hosts /\ c.target \in Had(c.host)
      /\ c.result # "none" => c.at = "reporting"
      /\ c.at \in {"confirming", "sent"} => run[k] = "none"
      /\ run[k] \in {"killed", "already_absent"} => c.target \in peer[c.host].gone
  BY <1>1, KillIs
<1>3. ASSUME NEW p \in {"sent", "recovering"}, KillMoves(k, p),
             c.at # "reporting", p = "sent" => c.at = "confirming"
      PROVE  ControlInv'
  <2>1. PICK r : r = [c EXCEPT !.at = p]
    OBVIOUS
  <2>2. /\ r \in KillRecords /\ r.host = c.host /\ r.target = c.target /\ r.at = p
        /\ r.result = c.result
    BY <1>2, <2>1 DEF KillRecords
  <2>3. kill' = [kill EXCEPT ![k] = r]
    BY <1>1, <1>3, <2>1 DEF KillMoves
  <2>4. r.result = "none"
    BY <1>2, <1>3, <2>2
  <2>5. r.at \in {"confirming", "sent"} => run[k] = "none"
    BY <1>2, <1>3, <2>2
  <2> QED
    BY <1>2, <2>2, <2>3, <2>4, <2>5, KillStays
<1>4. CASE Reports(k, "failed")
  <2>1. PICK r : r = [c EXCEPT !.at = "reporting", !.result = "failed"]
    OBVIOUS
  <2>2. /\ r \in KillRecords /\ r.host = c.host /\ r.target = c.target /\ r.at = "reporting"
        /\ r.result = "failed"
    BY <1>2, <2>1 DEF KillRecords
  <2>3. kill' = [kill EXCEPT ![k] = r]
    BY <1>1, <1>4, <2>1 DEF Reports
  <2> QED
    BY <1>2, <2>2, <2>3, KillStays
<1> QED
  BY <1>1, <1>3, <1>4

(* No terminal shares the connection of the fetches and the kills, so none    *)
(* ends with it.                                                              *)
LEMMA TermsStay ==
  ASSUME ControlInv, TermsAfter
  PROVE  UNCHANGED term
<1>1. term \in [Terminals -> TermRecords]
  BY DEF ControlInv, ControlTypeOK, TermRecords
<1>2. \A h : ~AttachShares(h)
  BY DEF AttachShares, SharesMaster, AttachMultiplex
<1>3. term' = [t \in Terminals |-> term[t]]
  BY <1>2 DEF TermsAfter
<1> QED
  BY <1>1, <1>3

(* What is chosen to be killed was read from the peer.                        *)
LEMMA ChosenWasRead ==
  ASSUME ControlInv, NEW k \in Kills, Choose(k)
  PROVE  \E h \in Hosts, s \in Sessions, seen \in BOOLEAN :
           /\ s \in Had(h)
           /\ kill' = [kill EXCEPT ![k] =
                [at |-> "confirming", host |-> h, target |-> s, seen |-> seen, result |-> "none"]]
<1>1. PICK h \in Hosts, s \in Sessions, seen \in BOOLEAN :
        /\ IF seen THEN RemoteSessionAvailable(h, s)
           ELSE \E o \in {Answer(h, TRUE), Answer(h, FALSE)} : \E snap \in {Snapshot(o, FALSE)} :
                  IsLive(snap) /\ s \in snap.sessions
        /\ kill' = [kill EXCEPT ![k] =
             [at |-> "confirming", host |-> h, target |-> s, seen |-> seen, result |-> "none"]]
  BY DEF Choose
<1>2. CASE RemoteSessionAvailable(h, s)
  <2>1. s \in slot[h].snap.sessions
    BY <1>2 DEF RemoteSessionAvailable
  <2>2. s \in Had(h)
    BY <2>1 DEF ControlInv, ReadFromPeer
  <2> QED
    BY <1>1, <2>2
<1>3. CASE \E all \in BOOLEAN : s \in Snapshot(Answer(h, all), FALSE).sessions
  <2>1. PeersTypeOK
    BY DEF ControlInv, ControlTypeOK, SlotsTypeOK
  <2>2. s \in peer[h].alive
    BY <1>3, <2>1, ListsAlive
  <2>3. s \in Had(h)
    BY <2>2 DEF Had
  <2> QED
    BY <1>1, <2>3
<1> QED
  BY <1>1, <1>2, <1>3

(* The peer carries out what reached it.                                      *)
LEMMA ExecuteKeeps ==
  ASSUME ControlInv, NEW k \in Kills, Execute(k)
  PROVE  ControlInv'
<1>1. /\ PeersOnlyLose /\ peer' \in [Hosts -> Peer]
      /\ UNCHANGED <<slot, reading, master, kill, term>>
  BY ExecuteLoses DEF Execute, slotVars
<1>2. /\ ControlTypeOK /\ ReadFromPeer
      /\ run[k] = "running" /\ run \in [Kills -> RunStates]
  BY DEF ControlInv, ControlTypeOK, Execute, RunStates
<1>3. PICK h \in Hosts : h = kill[k].host /\ kill[k].target \in Had(h)
  BY <1>2, KillIs
<1>4. PICK d \in {"killed", "already_absent", "failed"} :
        /\ run' = [run EXCEPT ![k] = d]
        /\ d # "failed" => kill[k].target \in peer'[h].gone
  <2>1. CASE kill[k].target \in peer[h].alive /\ Removed(k)
    <3>1. PICK t \in peer[h].alive : t = kill[k].target
      BY <2>1
    <3>2. peer' = [peer EXCEPT ![h].alive = @ \ {t}, ![h].gone = @ \union {t}]
      BY <1>3, <2>1, <3>1 DEF Removed
    <3>3. peer \in [Hosts -> Peer]
      BY <1>2 DEF ControlTypeOK, SlotsTypeOK, PeersTypeOK
    <3>4. peer'[h].gone = peer[h].gone \union {t}
      BY <3>2, <3>3, PeerWithout
    <3> QED
      BY <1>3, <2>1, <3>1, <3>4 DEF Execute
  <2>2. CASE kill[k].target \in peer[h].alive /\ ~Removed(k)
    BY <1>3, <2>2 DEF Execute
  <2>3. CASE kill[k].target \notin peer[h].alive
    BY <1>1, <1>3, <2>3 DEF Execute, Had, PeersOnlyLose
  <2> QED
    BY <2>1, <2>2, <2>3
<1>5. /\ run' \in [Kills -> RunStates] /\ run'[k] = d
      /\ \A j \in Kills : j # k => run'[j] = run[j]
  BY <1>2, <1>4 DEF RunStates
<1>6. /\ kill[k].result # "none" => kill[k].at = "reporting"
      /\ kill[k].at \notin {"confirming", "sent"}
  BY <1>2, KillIs
<1>7. kill[k].result = "removed" => kill[k].target \in peer'[h].gone
  BY <1>1, <1>3, KillIs DEF PeersOnlyLose
<1>8. kill[k].target \in peer'[h].alive \union peer'[h].gone
  BY <1>1, <1>3 DEF PeersOnlyLose
<1>9. (TargetWasRead /\ ResultReported /\ RunsOnceSent /\ RunIsTrue /\ RemoteSuccessIsReal)'
  BY <1>1, <1>3, <1>4, <1>5, <1>6, <1>7, <1>8, OneKill
<1>10. ReadFromPeer'
  BY <1>1, <1>2, ReadsStay DEF ReadFromPeer
<1>11. EndedForGood'
  BY <1>1 DEF PeersOnlyLose, EndedForGood
<1>12. ControlTypeOK'
  BY <1>1, <1>2, <1>5 DEF ControlTypeOK, SlotsTypeOK, PeersTypeOK, RunStates
<1> QED
  BY <1>9, <1>10, <1>11, <1>12 DEF ControlInv

(* The response is judged.                                                    *)
LEMMA AnsweredKeeps ==
  ASSUME ControlInv, NEW k \in Kills, Answered(k)
  PROVE  ControlInv'
<1>1. PICK c : c = kill[k]
  OBVIOUS
<1>2. /\ c \in KillRecords /\ c.host \in Hosts /\ c.target \in Had(c.host)
      /\ c.at = "waiting" /\ run[k] \in RunStates \ {"none", "running"}
      /\ master \in [Hosts -> {"none", "up", "stuck"}]
      /\ run[k] \in {"killed", "already_absent"} => c.target \in peer[c.host].gone
  BY <1>1, KillIs DEF Answered, KillAt
<1>3. PICK a \in Responses(k) : Reports(k, ResultOf(a))
  BY DEF Answered
<1>4. ResultOf(a) \in {"removed", "failed"}
  BY DEF ResultOf
<1>5. PICK r : r = [c EXCEPT !.at = "reporting", !.result = ResultOf(a)]
  OBVIOUS
<1>6. /\ r \in KillRecords /\ r.host = c.host /\ r.target = c.target
      /\ r.at = "reporting" /\ r.result = ResultOf(a)
  BY <1>2, <1>4, <1>5 DEF KillRecords
<1>7. kill' = [kill EXCEPT ![k] = r]
  BY <1>1, <1>3, <1>5 DEF Reports
<1>8. r.result = "removed" => r.target \in peer[r.host].gone
  BY <1>2, <1>6, RemovedIsTold
<1>9. /\ run' = [run EXCEPT ![k] = "none"] /\ "none" \in RunStates
      /\ UNCHANGED <<slot, reading, peer, term, master>>
  BY DEF Answered, RunStates, slotVars, peerVars
<1> QED
  BY <1>2, <1>6, <1>7, <1>8, <1>9, KillStays

(* A command reaches the peer.                                                *)
LEMMA DeliverKeeps ==
  ASSUME ControlInv, NEW k \in Kills, Deliver(k)
  PROVE  ControlInv'
<1>1. PICK c : c = kill[k]
  OBVIOUS
<1>2. /\ c \in KillRecords /\ c.host \in Hosts /\ c.target \in Had(c.host)
      /\ c.at = "sent" /\ c.result = "none"
  BY <1>1, KillIs DEF Deliver, KillAt
<1>3. PICK r : r = [c EXCEPT !.at = "waiting"]
  OBVIOUS
<1>4. /\ r \in KillRecords /\ r.host = c.host /\ r.target = c.target
      /\ r.at = "waiting" /\ r.result = "none"
  BY <1>2, <1>3 DEF KillRecords
<1>5. kill' = [kill EXCEPT ![k] = r]
  BY <1>1, <1>3 DEF Deliver, KillMoves
<1>6. PICK d \in {"foreign", "running"} : run' = [run EXCEPT ![k] = d]
  BY DEF Deliver
<1>7. d \in RunStates /\ d \notin {"killed", "already_absent"}
  BY DEF RunStates
<1>8. master' \in [Hosts -> {"none", "up", "stuck"}] /\ UNCHANGED <<slot, reading, peer, term>>
  BY <1>1, <1>2, Masters DEF Deliver, slotVars
<1> QED
  BY <1>2, <1>4, <1>5, <1>6, <1>7, <1>8, KillStays

(* A kill that is over.                                                       *)
LEMMA KillEndsKeeps ==
  ASSUME ControlInv, NEW k \in Kills, Decline(k) \/ ShowResult(k) \/ Unheard(k)
  PROVE  ControlInv'
<1>1. PICK c : c = kill[k]
  OBVIOUS
<1>2. /\ c \in KillRecords /\ run[k] \in RunStates /\ run = [run EXCEPT ![k] = run[k]]
      /\ c.at # "idle" \/ run[k] # "none" => c.host \in Hosts /\ c.target \in Had(c.host)
      /\ run[k] \in {"killed", "already_absent"} => c.target \in peer[c.host].gone
      /\ master \in [Hosts -> {"none", "up", "stuck"}]
  BY <1>1, KillIs
<1>3. UNCHANGED <<slot, reading, peer, term, master>>
  BY DEF Decline, ShowResult, Unheard, OnlyKill, slotVars, peerVars
<1>4. NoKill \in KillRecords /\ NoKill.at = "idle" /\ NoKill.result = "none"
  BY DEF NoKill, KillRecords
<1>5. CASE Decline(k)
  <2>1. run[k] = "none" /\ kill' = [kill EXCEPT ![k] = NoKill] /\ run' = run
    BY <1>5, KillIs DEF Decline, KillAt, OnlyKill
  <2> QED
    BY <1>2, <1>3, <1>4, <2>1, KillStays
<1>6. CASE Unheard(k)
  <2>1. /\ kill' = [kill EXCEPT ![k] = NoKill] /\ run' = [run EXCEPT ![k] = "none"]
        /\ "none" \in RunStates
    BY <1>6 DEF Unheard, RunStates
  <2> QED
    BY <1>2, <1>3, <1>4, <2>1, KillStays
<1>7. CASE ShowResult(k) /\ run[k] = "none"
  <2>1. kill' = [kill EXCEPT ![k] = NoKill] /\ run' = run
    BY <1>7 DEF ShowResult, OnlyKill
  <2> QED
    BY <1>2, <1>3, <1>4, <1>7, <2>1, KillStays
<1>8. CASE ShowResult(k) /\ run[k] # "none"
  <2>1. PICK r : r = [c EXCEPT !.at = "idle", !.result = "none"]
    OBVIOUS
  <2>2. /\ r \in KillRecords /\ r.host = c.host /\ r.target = c.target
        /\ r.at = "idle" /\ r.result = "none"
    BY <1>2, <2>1 DEF KillRecords
  <2>3. kill' = [kill EXCEPT ![k] = r] /\ run' = run
    BY <1>1, <1>8, <2>1 DEF ShowResult, OnlyKill
  <2> QED
    BY <1>2, <1>3, <1>8, <2>2, <2>3, KillStays
<1> QED
  BY <1>5, <1>6, <1>7, <1>8

(* The steps of a kill.                                                       *)
LEMMA KillKeeps ==
  ASSUME ControlInv, NEW k \in Kills, KillStep(k)
  PROVE  ControlInv'
<1>1. master \in [Hosts -> {"none", "up", "stuck"}]
  BY KillIs
<1>2. CASE Choose(k)
  <2>1. PICK h \in Hosts, s \in Sessions, seen \in BOOLEAN :
          /\ s \in Had(h)
          /\ kill' = [kill EXCEPT ![k] =
               [at |-> "confirming", host |-> h, target |-> s, seen |-> seen, result |-> "none"]]
    BY <1>2, ChosenWasRead
  <2>2. PICK r : r = [at |-> "confirming", host |-> h, target |-> s, seen |-> seen,
                      result |-> "none"]
    OBVIOUS
  <2>3. /\ r \in KillRecords /\ r.host = h /\ r.target = s
        /\ r.at = "confirming" /\ r.result = "none"
    BY <2>2 DEF KillRecords
  <2>4. /\ UNCHANGED <<slot, reading, peer, term, master>> /\ run[k] = "none"
        /\ run[k] \in RunStates /\ run' = [run EXCEPT ![k] = run[k]]
    BY <1>2, KillIs DEF Choose, OnlyKill, slotVars, peerVars
  <2> QED
    BY <1>1, <2>1, <2>2, <2>3, <2>4, KillStays
<1>3. CASE Confirm(k) \/ Refused(k) \/ TimesOut(k) \/ Dropped(k)
  BY <1>1, <1>3, KillMoveKeeps
     DEF Confirm, Refused, TimesOut, Dropped, KillAt, OnlyKill, slotVars, peerVars
<1>4. CASE RecoverAfterKill(k)
  <2>1. /\ UNCHANGED <<slot, reading, peer, run>> /\ Reports(k, "failed")
        /\ kill[k].at = "recovering" /\ UNCHANGED term
    BY <1>4, TermsStay DEF RecoverAfterKill, KillAt, slotVars
  <2>2. kill[k].host \in Hosts
    BY <2>1, KillIs
  <2>3. master' \in [Hosts -> {"none", "up", "stuck"}]
    BY <1>4, <2>2, Masters DEF RecoverAfterKill
  <2> QED
    BY <2>1, <2>3, KillMoveKeeps
<1> QED
  BY <1>2, <1>3, <1>4, ExecuteKeeps, AnsweredKeeps, DeliverKeeps, KillEndsKeeps DEF KillStep

-----------------------------------------------------------------------------
(* The specification.                                                       *)

(* Nothing has been read, nothing chosen.                                     *)
LEMMA ControlStarts == ControlInit => ControlInv
<1> SUFFICES ASSUME ControlInit  PROVE ControlInv
  OBVIOUS
<1>1. /\ PeersInit /\ slot = [h \in Hosts |-> [known |-> FALSE, snap |-> Blank]]
      /\ reading = [h \in Hosts |-> NoRead]
  BY DEF ControlInit, SlotsInit
<1>2. PeersTypeOK /\ EndedForGood
  BY <1>1, PeersAssumption DEF PeersInit, PeersTypeOK, Peer, EndedForGood
<1>3. SlotsTypeOK /\ ReadFromPeer
  BY <1>1, <1>2, Foldings DEF SlotsTypeOK, ReadFromPeer
<1>4. /\ kill = [k \in Kills |-> NoKill] /\ run = [k \in Kills |-> "none"]
      /\ term = [t \in Terminals |-> NoTerm]
  BY DEF ControlInit
<1>5. ControlTypeOK
  BY <1>3, <1>4 DEF ControlTypeOK, NoKill, NoTerm
<1>6. TargetWasRead /\ ResultReported /\ RunsOnceSent /\ RunIsTrue /\ RemoteSuccessIsReal
  BY <1>4 DEF TargetWasRead, ResultReported, RunsOnceSent, RunIsTrue, RemoteSuccessIsReal, NoKill
<1> QED
  BY <1>2, <1>3, <1>5, <1>6 DEF ControlInv

(* An operation of a terminal.                                                *)
TermStep(t) == Dial(t) \/ Attach(t) \/ Hangup(t)

(* A terminal's own steps touch no slot, reading, peer, master or command.  *)
LEMMA TermMoves ==
  ASSUME ControlInv, NEW t \in Terminals, TermStep(t)
  PROVE  /\ term' \in [Terminals -> TermRecords]
         /\ UNCHANGED <<slot, reading, peer, master, kill, run>>
<1>1. term \in [Terminals -> TermRecords] /\ term[t] \in TermRecords
  BY DEF ControlInv, ControlTypeOK, TermRecords
<1>2. UNCHANGED <<slot, reading, peer, master, kill, run>>
  BY DEF TermStep, Dial, Attach, Hangup, OnlyTerm, slotVars, peerVars
<1>3. PICK r \in TermRecords : term' = [term EXCEPT ![t] = r]
  <2>1. CASE Dial(t)
    BY <2>1 DEF Dial, TermRecords
  <2>2. CASE Attach(t)
    <3>1. [term[t] EXCEPT !.at = "attached"] \in TermRecords
      BY <1>1 DEF TermRecords
    <3> QED
      BY <2>2, <3>1 DEF Attach
  <2>3. CASE Hangup(t)
    BY <2>3 DEF Hangup, NoTerm, TermRecords
  <2> QED
    BY <2>1, <2>2, <2>3 DEF TermStep
<1> QED
  BY <1>1, <1>2, <1>3

(* Every step keeps the invariant.                                            *)
LEMMA ControlSteps == ControlInv /\ [ControlNext]_vars => ControlInv'
<1> SUFFICES ASSUME ControlInv, [ControlNext]_vars  PROVE ControlInv'
  OBVIOUS
<1>1. CASE SlotsNext /\ TermsAfter /\ UNCHANGED <<kill, run>>
  <2>1. SlotsTypeOK' /\ PeersOnlyLose /\ ReadFromPeer'
    BY <1>1, SlotsStep
  <2>2. UNCHANGED term
    BY <1>1, TermsStay
  <2>3. (TargetWasRead /\ ResultReported /\ RunsOnceSent /\ RunIsTrue /\ RemoteSuccessIsReal)'
    BY <1>1, <2>1, NoKillMoves
  <2>4. EndedForGood'
    BY <2>1 DEF PeersOnlyLose, EndedForGood
  <2>5. ControlTypeOK'
    BY <1>1, <2>1, <2>2 DEF ControlInv, ControlTypeOK
  <2> QED
    BY <2>1, <2>3, <2>4, <2>5 DEF ControlInv
<1>2. ASSUME NEW k \in Kills, KillStep(k)  PROVE ControlInv'
  BY <1>2, KillKeeps
<1>3. ASSUME NEW t \in Terminals, TermStep(t)  PROVE ControlInv'
  <2>1. term' \in [Terminals -> TermRecords] /\ UNCHANGED <<slot, reading, peer, master, kill, run>>
    BY <1>3, TermMoves
  <2>2. ControlTypeOK'
    BY <2>1 DEF ControlInv, ControlTypeOK, SlotsTypeOK, PeersTypeOK, TermRecords
  <2>3. (EndedForGood /\ ReadFromPeer)'
    BY <2>1 DEF ControlInv, EndedForGood, ReadFromPeer, Had
  <2>4. PeersOnlyLose
    BY <2>1, NothingLost
  <2>5. (TargetWasRead /\ ResultReported /\ RunsOnceSent /\ RunIsTrue /\ RemoteSuccessIsReal)'
    BY <2>1, <2>4, NoKillMoves
  <2> QED
    BY <2>2, <2>3, <2>5 DEF ControlInv
<1>4. CASE UNCHANGED vars
  BY <1>4 DEF vars, slotVars, peerVars, ControlInv, ControlTypeOK, SlotsTypeOK, PeersTypeOK,
     EndedForGood, ReadFromPeer, Had, TargetWasRead, ResultReported, RunsOnceSent, RunIsTrue,
     RemoteSuccessIsReal
<1> QED
  BY <1>1, <1>2, <1>3, <1>4 DEF ControlNext, TermStep

(* The invariant holds in every behaviour: whatever was read from a peer it   *)
(* has or had, a command is delivered for nothing else, and what it is said   *)
(* to have done it did.                                                       *)
THEOREM ControlInvariant == ControlSpec => []ControlInv
<1>1. ControlInit => ControlInv
  BY ControlStarts
<1>2. ControlInv /\ [ControlNext]_vars => ControlInv'
  BY ControlSteps
<1> QED
  BY <1>1, <1>2, PTL DEF ControlSpec

(* Every variable of the slots, the peers and the commands keeps its type.    *)
THEOREM ControlTypesHold == ControlSpec => []ControlTypeOK
<1>1. ControlInv => ControlTypeOK
  BY DEF ControlInv
<1> QED
  BY <1>1, ControlInvariant, PTL

(* A removal reported to the user has taken place on the peer, however the    *)
(* slot, the connection and the peer changed while it was under way.          *)
THEOREM RemovalIsReal == ControlSpec => []RemoteSuccessIsReal
<1>1. ControlInv => RemoteSuccessIsReal
  BY DEF ControlInv
<1> QED
  BY <1>1, ControlInvariant, PTL

=============================================================================
