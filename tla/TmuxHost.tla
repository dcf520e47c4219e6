------------------------------ MODULE TmuxHost ------------------------------
(***************************************************************************)
(* The execution side of uxon, seen through the commands the code sends to *)
(* it: one user's tmux server, the process in each session's pane, and the *)
(* workload a command runtime runs behind that process.                    *)
(*                                                                         *)
(* A launch carries a random nonce of its own and creates at most one      *)
(* session, so the launch stands for its nonce here, and a session is      *)
(* found under the launch that created it.  What tmux itself knows of a    *)
(* session is its name, its "$id" (counted from 0 by each server) and its  *)
(* creation second: all three can be those of an earlier session.          *)
(***************************************************************************)
EXTENDS Naturals, FiniteSets

CONSTANTS
  Launches,    \* launch attempts, each with its own nonce
  Names,       \* session names
  Kinds,       \* the workload runtimes in use
  Unset,       \* no terminal, no captured identity
  Foreign,     \* a marker value that is no launch's nonce
  MaxSecond,   \* bound: the clock second stops here
  MayTamper    \* launches whose session environment a user may edit

\* No runtime, a command runtime with a stop command, and one without.
RuntimeKinds == {"direct", "command", "unstoppable"}

ASSUME HostAssumption ==
  /\ Kinds \subseteq RuntimeKinds
  /\ MaxSecond \in Nat
  /\ MayTamper \subseteq Launches
  /\ Foreign \notin Launches
  /\ Unset \notin [id : Nat, created : Nat]
  /\ Unset \notin [id : Nat, created : Nat, nonce : Launches \cup {Foreign}]

VARIABLES
  name,        \* the session name each launch allocated before it began
  kind,        \* its workload runtime kind
  terminal,    \* its tmux session: "$id" and creation second, or Unset
  pane,        \* the process in that session's pane
  tampered,    \* launches whose nonce marker a user has overwritten
  nextId,      \* the server's session counter
  second,      \* the clock, in the seconds tmux stamps sessions with
  late,        \* commands whose client timed out and that may still run
  workload,    \* the process behind a command runtime's exec
  restarted    \* launches whose runtime resource has restarted since launch

hostVars == <<name, kind, terminal, pane, tampered, nextId, second, late,
              workload, restarted>>

\* "waiting": the bootstrap blocks on the release channel; "woken": the channel
\* was signalled; "giveup", "cleaning": its wait failed and it removes its own
\* session; "agent": it has exec'ed; "dead": exited non-zero and kept on screen.
PaneStates == {"none", "waiting", "woken", "giveup", "cleaning", "agent", "dead"}

Identities ==
  [id : Nat, created : Nat, nonce : Launches \cup {Foreign}]

Commands ==
  [op : {"create"}, nonce : Launches]
    \cup [op : {"release", "kill"}, of : Identities]

HostTypeOK ==
  /\ name \in [Launches -> Names]
  /\ kind \in [Launches -> Kinds]
  /\ terminal \in [Launches -> [id : Nat, created : Nat] \cup {Unset}]
  /\ pane \in [Launches -> PaneStates]
  /\ tampered \in SUBSET MayTamper
  /\ nextId \in Nat
  /\ second \in 0..MaxSecond
  /\ late \subseteq Commands
  /\ workload \in [Launches -> {"none", "running"}]
  /\ restarted \in SUBSET Launches

HostInit ==
  /\ name \in [Launches -> Names]
  /\ kind \in [Launches -> Kinds]
  /\ terminal = [l \in Launches |-> Unset]
  /\ pane = [l \in Launches |-> "none"]
  /\ tampered = {}
  /\ nextId = 0
  /\ second = 0
  /\ late = {}
  /\ workload = [l \in Launches |-> "none"]
  /\ restarted = {}

-----------------------------------------------------------------------------
(* What a client can see.                                                  *)

Live(l) == terminal[l] # Unset

\* The nonce in a session's environment, as `#{E:UXON_LAUNCH_NONCE}` prints it.
NonceOf(l) == IF l \in tampered THEN Foreign ELSE l

IdentityOf(l) ==
  [id |-> terminal[l].id, created |-> terminal[l].created, nonce |-> NonceOf(l)]

Rows == {IdentityOf(l) : l \in {m \in Launches : Live(m)}}

\* `session_identity_predicate`, evaluated on the session at "$id".
IdentityHolds(l, e) == IdentityOf(l) = e

\* Mutant of Guarded: the nonce is left out of the predicate.
GuardedByTmuxIdentity(e) ==
  {l \in Launches : Live(l) /\ terminal[l] = [id |-> e.id, created |-> e.created]}

\* The sessions a `guarded_session_commands` script acts on: the one at the
\* expected "$id", and only while it is the captured one.
Guarded(e) ==
  {l \in Launches : Live(l) /\ terminal[l].id = e.id /\ IdentityHolds(l, e)}

NameTaken(n) == \E l \in Launches : Live(l) /\ name[l] = n

\* Mutant of ExactIdentity: a refused query counts as absence.
ExactIdentityAssumed(e) ==
  {"absent"} \cup (IF e \in Rows THEN {"present"} ELSE {})

\* What `exact_identity_exists` can answer.  A refused query is "unknown"; so is
\* a session of that id and second under another nonce.  No server, no session.
ExactIdentity(e) ==
  {"unknown"} \cup
  (IF \E r \in Rows : r.id = e.id /\ r.created = e.created /\ r.nonce # e.nonce
     THEN {}
     ELSE IF e \in Rows THEN {"present"} ELSE {"absent"})

-----------------------------------------------------------------------------
(* What a command does when the server runs it.                            *)

\* A server exits with its last session and new-session starts one by itself,
\* counting ids from 0 again.  A late command may reach either server.
EndSessions(S) ==
  LET rest == {l \in Launches : Live(l)} \ S
  IN  /\ terminal' = [l \in Launches |-> IF l \in S THEN Unset ELSE terminal[l]]
      /\ pane' = [l \in Launches |-> IF l \in S THEN "none" ELSE pane[l]]
      /\ nextId' = IF rest = {} THEN 0 ELSE nextId

\* `new-session -d` with the nonce in the environment: refused when the name is
\* taken.  The pane runs the bootstrap.
CreateEffect(l) ==
  IF NameTaken(name[l])
    THEN UNCHANGED <<terminal, pane, nextId>>
    ELSE /\ terminal' = [terminal EXCEPT
                           ![l] = [id |-> nextId, created |-> second]]
         /\ pane' = [pane EXCEPT ![l] = "waiting"]
         /\ nextId' = nextId + 1

\* `wait-for -S` inside the identity guard.  The channel's flag is not state of
\* its own: a bootstrap waits on it once, when its pane starts.
ReleaseEffect(e) ==
  /\ pane' = [l \in Launches |-> IF l \in Guarded(e) /\ pane[l] = "waiting"
                                   THEN "woken" ELSE pane[l]]
  /\ UNCHANGED <<terminal, nextId>>

KillEffect(e) == EndSessions(Guarded(e))

Effect(c) ==
  \/ c.op = "create" /\ CreateEffect(c.nonce)
  \/ c.op = "release" /\ ReleaseEffect(c.of)
  \/ c.op = "kill" /\ KillEffect(c.of)

\* The ways a command with a timeout can end for its client: `outcome` is what
\* the client learns.  A client that timed out does not know whether the server
\* ran the command, will never run it, or has yet to.
Send(c, refused, outcome) ==
  \/ /\ outcome = IF refused THEN "error" ELSE "ack"
     /\ Effect(c)
     /\ UNCHANGED late
  \/ /\ outcome = "error"
     /\ \/ Effect(c) /\ UNCHANGED late
        \/ UNCHANGED <<terminal, pane, nextId, late>>
        \/ late' = late \cup {c} /\ UNCHANGED <<terminal, pane, nextId>>

-----------------------------------------------------------------------------
(* What happens on the host without uxon asking for it.                    *)

\* A command whose client gave up on it runs after all.
LateCommand(c) ==
  /\ c \in late
  /\ Effect(c)
  /\ late' = late \ {c}
  /\ UNCHANGED <<name, kind, tampered, second, workload, restarted>>

\* The pane's process exits: with status 0 the pane closes and with it the
\* session; otherwise `remain-on-exit failed` keeps the dead pane, and what exited
\* may have been only the client of a workload that goes on.
AgentExits(l) ==
  /\ pane[l] = "agent"
  /\ \/ EndSessions({l}) /\ workload' = [workload EXCEPT ![l] = "none"]
     \/ /\ pane' = [pane EXCEPT ![l] = "dead"]
        /\ workload' \in {workload, [workload EXCEPT ![l] = "none"]}
        /\ UNCHANGED <<terminal, nextId>>
  /\ UNCHANGED <<name, kind, tampered, second, late, restarted>>

\* The user, or the host going down, ends sessions without uxon.  A workload
\* behind a command runtime survives its severed exec.
SessionsEnd(S) ==
  /\ S # {}
  /\ \A l \in S : Live(l)
  /\ EndSessions(S)
  /\ UNCHANGED <<name, kind, tampered, second, late, workload, restarted>>

\* The user overwrites the nonce in a session's environment.
Tamper(l) ==
  /\ l \in MayTamper \ tampered
  /\ Live(l)
  /\ tampered' = tampered \cup {l}
  /\ UNCHANGED <<name, kind, terminal, pane, nextId, second, late, workload,
                 restarted>>

\* The workload's container restarts: its processes are gone and its epoch is
\* not the one the launch recorded.
RuntimeRestarts(l) ==
  /\ kind[l] # "direct"
  /\ l \notin restarted
  /\ restarted' = restarted \cup {l}
  /\ workload' = [workload EXCEPT ![l] = "none"]
  /\ UNCHANGED <<name, kind, terminal, pane, tampered, nextId, second, late>>

Tick ==
  /\ second < MaxSecond
  /\ second' = second + 1
  /\ UNCHANGED <<name, kind, terminal, pane, tampered, nextId, late, workload,
                 restarted>>

HostNext ==
  \/ \E c \in late : LateCommand(c)
  \/ \E l \in Launches : AgentExits(l) \/ Tamper(l) \/ RuntimeRestarts(l)
  \/ \E S \in SUBSET Launches : SessionsEnd(S)
  \/ Tick

=============================================================================
