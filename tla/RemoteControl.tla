--------------------------- MODULE RemoteControl ---------------------------
(***************************************************************************)
(* Commands sent to a peer while its slot is being refreshed: the          *)
(* conditional kill of a session seen in a listing (app/kill.py            *)
(* remote_kill_expected, tui/screens/kill_flow.py) and interactive attach  *)
(* (app/attach.py _do_attach_remote).  The refresh is taken at its         *)
(* abstract level (RemoteSlots); the commands meet it in the slot they     *)
(* read and in the ssh master they share with it, which a fetch or a kill  *)
(* that times out asks to exit.                                            *)
(***************************************************************************)
EXTENDS RemoteSlots

CONSTANTS Kills,       \* concurrent kill operations
          Terminals    \* concurrent attach operations

VARIABLES
  kill,   \* each kill operation on this host
  run,    \* what the peer does with it
  term    \* each attach operation

vars == <<slotVars, peerVars, kill, run, term>>

NoHost == "no host"
NoTarget == "no session"
NoKill == [at |-> "idle", host |-> NoHost, target |-> NoTarget, seen |-> FALSE, result |-> "none"]
NoTerm == [at |-> "none", host |-> NoHost]

ControlTypeOK ==
  /\ SlotsTypeOK
  /\ kill \in [Kills ->
       [at : {"idle", "confirming", "sent", "waiting", "recovering", "reporting"},
        host : Hosts \union {NoHost}, target : Sessions \union {NoTarget},
        seen : BOOLEAN, result : {"none", "removed", "failed"}]]
  /\ run \in [Kills -> {"none", "running", "killed", "already_absent", "failed", "foreign"}]
  /\ term \in [Terminals -> [at : {"none", "connecting", "attached"},
                             host : Hosts \union {NoHost}]]

ControlInit ==
  /\ SlotsInit
  /\ kill = [k \in Kills |-> NoKill]
  /\ run = [k \in Kills |-> "none"]
  /\ term = [t \in Terminals |-> NoTerm]

(* Attaching to a session of a peer.                                       *)

\* Mutant of AttachMultiplex: attach follows the setting of the fetches.
AttachMultiplexFollows == Multiplex

\* _do_attach_remote asks for a connection of its own, whatever the setting.
AttachMultiplex == "off"
AttachShares(h) == SharesMaster(h \in Custom, AttachMultiplex)

\* A master that ends takes down what runs over it.
TermsAfter ==
  term' = [t \in Terminals |->
            IF \E h \in Hosts : /\ term[t] = [at |-> "attached", host |-> h]
                               /\ AttachShares(h)
                               /\ master[h] # "none" /\ master'[h] = "none"
            THEN NoTerm ELSE term[t]]

OnlyTerm == UNCHANGED <<slotVars, peerVars, kill, run>>

Dial(t) ==
  /\ term[t].at = "none"
  /\ \E h \in Hosts : term' = [term EXCEPT ![t] = [at |-> "connecting", host |-> h]]
  /\ OnlyTerm

Attach(t) ==
  /\ term[t].at = "connecting"
  /\ peer[term[t].host].does \notin {"hangs", "refuses"}
  /\ AttachShares(term[t].host) => master[term[t].host] # "stuck"
  /\ term' = [term EXCEPT ![t].at = "attached"]
  /\ OnlyTerm

\* The user leaves, or the peer is not there.
Hangup(t) ==
  /\ term[t].at = "attached" \/ (term[t].at = "connecting" /\ peer[term[t].host].does # "answers")
  /\ term' = [term EXCEPT ![t] = NoTerm]
  /\ OnlyTerm

(* Killing a session of a peer.                                            *)

KillAt(k, place) == kill[k].at = place
KillMoves(k, place) == kill' = [kill EXCEPT ![k].at = place]
Reports(k, result) == kill' = [kill EXCEPT ![k].at = "reporting", ![k].result = result]
OnlyKill == UNCHANGED <<slotVars, peerVars, run, term>>

\* remote_session_available: the captured row against the current slot.
RemoteSessionAvailable(h, s) ==
  slot[h].known /\ IsLive(slot[h].snap) /\ s \in slot[h].snap.sessions

\* A row of the dashboard is chosen (kill_flow), or `uxon kill --host`
\* resolves its selector with a fetch of its own (resolve_remote_identity).
Choose(k) ==
  /\ KillAt(k, "idle") /\ run[k] = "none"
  /\ \E h \in Hosts, s \in Sessions, seen \in BOOLEAN :
       /\ IF seen THEN RemoteSessionAvailable(h, s)
          ELSE \E o \in {Answer(h, TRUE), Answer(h, FALSE)} : \E snap \in {Snapshot(o, FALSE)} :
                 IsLive(snap) /\ s \in snap.sessions
       /\ kill' = [kill EXCEPT ![k] =
            [at |-> "confirming", host |-> h, target |-> s, seen |-> seen, result |-> "none"]]
  /\ OnlyKill

\* The user's answer.  The TUI checks the captured row once more.
Confirm(k) ==
  /\ KillAt(k, "confirming")
  /\ ~kill[k].seen \/ RemoteSessionAvailable(kill[k].host, kill[k].target)
  /\ KillMoves(k, "sent")
  /\ OnlyKill

Decline(k) ==
  /\ KillAt(k, "confirming")
  /\ kill' = [kill EXCEPT ![k] = NoKill]
  /\ OnlyKill

\* The command reaches the peer, over the master if it may.
Deliver(k) ==
  /\ KillAt(k, "sent")
  /\ ~Stuck(kill[k].host) /\ peer[kill[k].host].does # "refuses"
  /\ KillMoves(k, "waiting")
  /\ run' = [run EXCEPT ![k] = IF peer[kill[k].host].does = "skewed" THEN "foreign" ELSE "running"]
  /\ Connected(kill[k].host)
  /\ UNCHANGED <<slotVars, peer, term>>

Refused(k) ==
  /\ KillAt(k, "sent")
  /\ ~Stuck(kill[k].host) /\ peer[kill[k].host].does = "refuses"
  /\ Reports(k, "failed")
  /\ OnlyKill

\* The peer's own conditional kill, on the captured identity.  It goes on
\* whether or not anybody still waits for it, and it may fail.
Removed(k) ==
  peer' = [peer EXCEPT ![kill[k].host].alive = @ \ {kill[k].target},
                       ![kill[k].host].gone = @ \union {kill[k].target}]
Execute(k) ==
  /\ run[k] = "running"
  /\ IF kill[k].target \in peer[kill[k].host].alive
     THEN \/ Removed(k) /\ run' = [run EXCEPT ![k] = "killed"]
          \/ Removed(k) /\ run' = [run EXCEPT ![k] = "failed"]
          \/ run' = [run EXCEPT ![k] = "failed"] /\ UNCHANGED peer
     ELSE run' = [run EXCEPT ![k] = "already_absent"] /\ UNCHANGED peer
  /\ UNCHANGED <<slotVars, master, kill, term>>

\* The response, one field per check made on it.  A peer of another version
\* may answer anything, about anything.
Responses(k) ==
  IF run[k] = "foreign"
  THEN [schema : {"other"}, kind : {"kill"}, identity : BOOLEAN,
        action : {"killed", "failed"}, cleanup : {"ok"}]
  ELSE [schema : {"same"}, kind : {"kill"}, identity : {TRUE}, action : {run[k]},
        cleanup : IF run[k] = "failed" THEN {"not_run"} ELSE {"ok", "error"}]

\* Mutant of Believed: the version of the answer is not looked at.
BelievedOfAnyVersion(r) == r.kind = "kill" /\ r.identity

\* remote_kill_expected: which responses it believes, and what it reports.
Believed(r) ==
  /\ r.schema = "same" /\ r.kind = "kill" /\ r.identity
  /\ r.action \in {"killed", "already_absent", "failed"}
  /\ r.action # "failed" => r.cleanup # "not_run"

ResultOf(r) ==
  IF Believed(r) /\ r.action # "failed" /\ r.cleanup # "error" THEN "removed" ELSE "failed"

Answered(k) ==
  /\ KillAt(k, "waiting") /\ ~Stuck(kill[k].host)
  /\ run[k] \notin {"none", "running"}
  /\ \E r \in Responses(k) : Reports(k, ResultOf(r))
  /\ run' = [run EXCEPT ![k] = "none"]
  /\ UNCHANGED <<slotVars, peerVars, term>>

\* Nothing came within the total timeout.
TimesOut(k) ==
  /\ kill[k].at \in {"sent", "waiting"}
  /\ Stuck(kill[k].host) \/ run[k] = "running"
  /\ IF Shares(kill[k].host) THEN KillMoves(k, "recovering") ELSE Reports(k, "failed")
  /\ OnlyKill

RecoverAfterKill(k) ==
  /\ KillAt(k, "recovering")
  /\ AsksMasterToExit(kill[k].host)
  /\ TermsAfter
  /\ Reports(k, "failed")
  /\ UNCHANGED <<slotVars, peer, run>>

\* The master the command runs over is gone: ssh exits, with no response.
Dropped(k) ==
  /\ KillAt(k, "waiting")
  /\ Shares(kill[k].host) /\ master[kill[k].host] = "none"
  /\ Reports(k, "failed")
  /\ OnlyKill

\* The result is shown; the TUI kicks a refresh, which the slots do anyway.
ShowResult(k) ==
  /\ KillAt(k, "reporting")
  /\ IF run[k] = "none" THEN kill' = [kill EXCEPT ![k] = NoKill]
     ELSE kill' = [kill EXCEPT ![k].at = "idle", ![k].result = "none"]
  /\ OnlyKill

\* A run nobody waits for ends unheard.
Unheard(k) ==
  /\ KillAt(k, "idle") /\ run[k] \notin {"none", "running"}
  /\ run' = [run EXCEPT ![k] = "none"]
  /\ kill' = [kill EXCEPT ![k] = NoKill]
  /\ UNCHANGED <<slotVars, peerVars, term>>

KillStep(k) ==
  \/ Choose(k) \/ Confirm(k) \/ Decline(k) \/ Deliver(k) \/ Refused(k) \/ Execute(k)
  \/ Answered(k) \/ TimesOut(k) \/ RecoverAfterKill(k) \/ Dropped(k) \/ ShowResult(k)
  \/ Unheard(k)

ControlNext ==
  \/ SlotsNext /\ TermsAfter /\ UNCHANGED <<kill, run>>
  \/ \E k \in Kills : KillStep(k)
  \/ \E t \in Terminals : Dial(t) \/ Attach(t) \/ Hangup(t)

\* ssh runs to an answer; nothing is assumed of peers, masters or commands.
ControlSpec ==
  ControlInit /\ [][ControlNext]_vars /\ \A t \in Terminals : WF_vars(Attach(t))

(* Correctness.                                                            *)

\* A kill is reported as done only when the captured session is gone from
\* the peer: not for the answer of another version, nor for a refusal, a
\* timeout or a connection that a recovering fetch took down meanwhile.
RemoteSuccessIsReal ==
  \A k \in Kills : kill[k].result = "removed" =>
    kill[k].target \in peer[kill[k].host].gone

\* "a wedged poller master can never hang the TUI handoff" (docs/reference/
\* cli.md): a terminal that dials a peer that answers is attached, though
\* the shared master may be stuck for ever.
AttachIsNotHung ==
  \A t \in Terminals, h \in Hosts :
    term[t] = [at |-> "connecting", host |-> h]
      ~> (term[t].at # "connecting" \/ peer[h].does # "answers")

-----------------------------------------------------------------------------
(* Why a reported success is real: sessions end for good, whatever was read  *)
(* from a peer it has had, and a command is delivered for nothing else.      *)

\* The sessions a peer has, or had.
Had(h) == peer[h].alive \union peer[h].gone

EndedForGood == \A h \in Hosts : peer[h].alive \intersect peer[h].gone = {}

ReadFromPeer == \A h \in Hosts :
  slot[h].snap.sessions \subseteq Had(h) /\ reading[h].sessions \subseteq Had(h)

TargetWasRead == \A k \in Kills :
  kill[k].at # "idle" \/ run[k] # "none" =>
    kill[k].host \in Hosts /\ kill[k].target \in Had(kill[k].host)

ResultReported == \A k \in Kills : kill[k].result # "none" => kill[k].at = "reporting"

RunsOnceSent == \A k \in Kills : kill[k].at \in {"confirming", "sent"} => run[k] = "none"

RunIsTrue == \A k \in Kills :
  run[k] \in {"killed", "already_absent"} => kill[k].target \in peer[kill[k].host].gone

ControlInv ==
  /\ ControlTypeOK /\ EndedForGood /\ ReadFromPeer
  /\ TargetWasRead /\ ResultReported /\ RunsOnceSent
  /\ RunIsTrue /\ RemoteSuccessIsReal
=============================================================================
