---------------------------- MODULE RemotePeers ----------------------------
(***************************************************************************)
(* The configured peers and the ssh connections to them, as the commands   *)
(* of infra/remote see them: what a peer lists, what one command comes to, *)
(* and the master connection that commands to a host share unless the host *)
(* has a command template of its own or multiplexing is off.               *)
(***************************************************************************)
EXTENDS RemoteFetch, FiniteSets

CONSTANTS Hosts,        \* the configured peers
          Sessions,     \* identities of the sessions of a peer
          OwnSessions,  \* those of the peer's own user
          Conditions,   \* what the peers of this instance may do
          Custom,       \* the hosts with a command_template of their own
          Multiplex     \* the ssh_multiplex setting

PeerConditions == {"answers", "own_only", "skewed", "refuses", "hangs"}

ASSUME PeersAssumption ==
  /\ OwnSessions \subseteq Sessions
  /\ Custom \subseteq Hosts
  /\ "answers" \in Conditions /\ Conditions \subseteq PeerConditions
  /\ Multiplex \in {"auto", "off"}

Snapshots == [code : {"none"} \union ErrorCodes, sessions : SUBSET Sessions,
              limited : BOOLEAN]
Blank == [code |-> "none", sessions |-> {}, limited |-> FALSE]
NoRead == [Blank EXCEPT !.code = "unread"]

\* handle_remote_snapshot: a failure keeps the diagnosis and drops the rows.
Folded(snap) ==
  [known |-> TRUE,
   snap |-> IF IsLive(snap) THEN snap ELSE [snap EXCEPT !.sessions = {}]]

VARIABLES
  peer,    \* what each peer does; its sessions, and those it had before
  master   \* the shared connection to each host

peerVars == <<peer, master>>

Peer == [does : Conditions, alive : SUBSET Sessions, gone : SUBSET Sessions]
PeersTypeOK ==
  /\ peer \in [Hosts -> Peer]
  /\ master \in [Hosts -> {"none", "up", "stuck"}]

PeersInit ==
  /\ peer \in [Hosts -> [does : {"answers"}, alive : SUBSET Sessions, gone : {{}}]]
  /\ master = [h \in Hosts |-> "none"]

Shares(h) == SharesMaster(h \in Custom, Multiplex)
Stuck(h) == peer[h].does = "hangs" \/ (Shares(h) /\ master[h] = "stuck")

SoundEnvelope(sessions) ==
  [object |-> TRUE, named |-> TRUE, schema |-> "same", list |-> TRUE,
   data |-> TRUE, relay |-> "none", error |-> "none", records |-> "sound",
   scope |-> TRUE, stats |-> "none", sessions |-> sessions]
Wrote(env) == [ended |-> "ok", written |-> TRUE, marker |-> FALSE, env |-> env]
Silent(ended) == [ended |-> ended, written |-> FALSE, marker |-> FALSE, env |-> NoEnvelope]

\* What `uxon list --json` on h, of all users or of its own, comes to now.
Answer(h, all) ==
  CASE Stuck(h) -> Silent("timeout")
    [] ~Stuck(h) /\ peer[h].does = "refuses" -> Silent("exit")
    [] ~Stuck(h) /\ peer[h].does = "skewed" ->
         Wrote([SoundEnvelope(peer[h].alive) EXCEPT !.schema = "older"])
    [] ~Stuck(h) /\ peer[h].does = "own_only" /\ all ->
         [Silent("exit") EXCEPT !.marker = TRUE]
    [] OTHER ->
         Wrote(SoundEnvelope(IF all THEN peer[h].alive ELSE peer[h].alive \intersect OwnSessions))

Recovers(h, o) == RecoversMaster(o, h \in Custom, Multiplex)

\* A command that ran leaves the connection open for the next (ControlPersist).
Connected(h) ==
  master' = IF Shares(h) /\ master[h] = "none" THEN [master EXCEPT ![h] = "up"] ELSE master

\* `ssh -O exit`, which a stuck master may not answer within its two seconds.
AsksMasterToExit(h) ==
  \/ UNCHANGED master
  \/ master' = [master EXCEPT ![h] = "none"]

\* The peer's condition changes; sessions start there, and end for good.
PeerChanges(h) ==
  /\ \E does \in Conditions, alive \in SUBSET (Sessions \ peer[h].gone) :
       peer' = [peer EXCEPT ![h] =
                 [does |-> does, alive |-> alive,
                  gone |-> peer[h].gone \union (peer[h].alive \ alive)]]
  /\ peer' # peer
  /\ UNCHANGED master

MasterSticks(h) ==
  /\ master[h] = "up"
  /\ master' = [master EXCEPT ![h] = "stuck"]
  /\ UNCHANGED peer

\* ControlPersist runs out, or ServerAlive gives an unresponsive peer up.
MasterEnds(h) ==
  /\ master[h] # "none"
  /\ master' = [master EXCEPT ![h] = "none"]
  /\ UNCHANGED peer

PeersMove(h) == PeerChanges(h) \/ MasterSticks(h) \/ MasterEnds(h)
=============================================================================
