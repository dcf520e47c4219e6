--------------------------- MODULE ManagedLaunch ---------------------------
(***************************************************************************)
(* The launch handshake between a controller (`prepare_managed_launch`) and *)
(* the bootstrap process its pane starts with (`wait_then_exec`): the pane  *)
(* blocks on a release channel until the controller has read the session's  *)
(* native identity and finalized the launch record, and only then execs the *)
(* agent.  A failure anywhere rolls back: kill the session if it is the     *)
(* launch's own, then remove the record, both best effort.                  *)
(***************************************************************************)
EXTENDS LaunchRecords

VARIABLES
  lpc,         \* where each launch's controller is
  meta,        \* the session identity it has read, or Unset
  sealed       \* history: launches whose record has been finalized

launchVars == <<lpc, meta, sealed>>

LaunchStates == {"idle", "write", "create", "query", "finalize", "release",
                 "lookup", "rollback", "unlink", "done", "failed", "crashed"}

Ended == {"done", "failed", "crashed"}

InFlight(l) == lpc[l] \notin Ended \cup {"idle"}

LaunchTypeOK ==
  /\ lpc \in [Launches -> LaunchStates]
  /\ meta \in [Launches -> Identities \cup {Unset}]
  /\ sealed \subseteq Launches

LaunchInit ==
  /\ lpc = [l \in Launches |-> "idle"]
  /\ meta = [l \in Launches |-> Unset]
  /\ sealed = {}

Goto(l, to) == lpc' = [lpc EXCEPT ![l] = to]

\* What a command to the server leaves alone, whatever becomes of it.
CommandFrame == UNCHANGED <<name, kind, tampered, second, workload, restarted>>

-----------------------------------------------------------------------------
(* The controller: prepare_managed_launch.                                 *)

\* `create_pending_record`: the file comes into being under its final name, and
\* empty.  An exception skips the rollback kill, here and up to the creation:
\* there is no session yet.
CreatePendingRecord(l) ==
  /\ lpc[l] = "idle"
  /\ \/ record' = [record EXCEPT ![l] = Torn] /\ Goto(l, "write")
     \/ Goto(l, "unlink") /\ UNCHANGED record
  /\ UNCHANGED <<hostVars, expired, seen, listing, meta, sealed>>

\* It is written and synced, and the prelaunch commands are run.  A file whose
\* writing failed is unlinked, unless that fails too.
WritePendingRecord(l) ==
  /\ lpc[l] = "write"
  /\ \/ /\ record' = [record EXCEPT ![l] = Pending]
        /\ Goto(l, "create") \/ Goto(l, "unlink")
     \/ (Unlink(l) \/ UNCHANGED record) /\ Goto(l, "unlink")
  /\ UNCHANGED <<hostVars, expired, seen, listing, meta, sealed>>

\* `create_cmd`.  The controller takes any error, a timeout included, for a
\* session it may have created.
CreateSession(l) ==
  /\ lpc[l] = "create"
  /\ \E outcome \in {"ack", "error"} :
       /\ Send([op |-> "create", nonce |-> l], NameTaken(name[l]), outcome)
       /\ Goto(l, IF outcome = "ack" THEN "query" ELSE "lookup")
  /\ CommandFrame
  /\ UNCHANGED <<storeVars, meta, sealed>>

\* `query_cmd` finds the session by name: another launch's, if this one's has
\* gone and the name has been taken again.
QuerySession(l) ==
  /\ lpc[l] = "query"
  /\ \/ \E m \in Launches :
          /\ Live(m) /\ name[m] = name[l]
          /\ meta' = [meta EXCEPT ![l] = IdentityOf(m)]
          /\ Goto(l, "finalize")
     \/ Goto(l, "lookup") /\ UNCHANGED meta
  /\ UNCHANGED <<hostVars, storeVars, sealed>>

\* Mutant of FinalizeRecord: an error is swallowed and the release follows.
FinalizeRecordAnyway(l) ==
  /\ lpc[l] = "finalize"
  /\ \/ /\ meta[l].nonce = l
        /\ record[l].status = "pending"
        /\ record' = [record EXCEPT ![l] = Finalized(meta[l])]
        /\ sealed' = sealed \cup {l}
     \/ UNCHANGED <<record, sealed>>
  /\ Goto(l, "release")
  /\ UNCHANGED <<hostVars, expired, seen, listing, meta>>

\* `finalize_pending_record` trusts the metadata only under the launch's own
\* nonce, and only over a record that is still pending.  The replacement can be
\* in place although the directory's fsync then fails.
FinalizeRecord(l) ==
  /\ lpc[l] = "finalize"
  /\ \/ /\ meta[l].nonce = l
        /\ record[l].status = "pending"
        /\ record' = [record EXCEPT ![l] = Finalized(meta[l])]
        /\ sealed' = sealed \cup {l}
        /\ Goto(l, "release") \/ Goto(l, "lookup")
     \/ Goto(l, "lookup") /\ UNCHANGED <<record, sealed>>
  /\ UNCHANGED <<hostVars, expired, seen, listing, meta>>

\* `_install_diagnostics`: configure the session and signal its release channel
\* in one script guarded by the captured identity.
ReleaseBootstrap(l) ==
  /\ lpc[l] = "release"
  /\ \E outcome \in {"ack", "error"} :
       /\ Send([op |-> "release", of |-> meta[l]], Guarded(meta[l]) = {}, outcome)
       /\ Goto(l, IF outcome = "ack" THEN "done" ELSE "lookup")
  /\ CommandFrame
  /\ UNCHANGED <<storeVars, meta, sealed>>

\* `_kill_created_session_if_owned`, its lookup: without metadata the session is
\* looked up by name, and it is the launch's own only under its nonce.
RollbackLookup(l) ==
  /\ lpc[l] = "lookup"
  /\ IF meta[l] # Unset
       THEN /\ Goto(l, IF meta[l].nonce = l THEN "rollback" ELSE "unlink")
            /\ UNCHANGED meta
       ELSE \/ \E m \in Launches :
                 /\ Live(m) /\ name[m] = name[l]
                 /\ meta' = [meta EXCEPT ![l] = IdentityOf(m)]
                 /\ Goto(l, IF NonceOf(m) = l THEN "rollback" ELSE "unlink")
            \/ Goto(l, "unlink") /\ UNCHANGED meta
  /\ UNCHANGED <<hostVars, storeVars, sealed>>

\* Its guarded kill.  The controller goes on whatever came of it.
RollbackKill(l) ==
  /\ lpc[l] = "rollback"
  /\ \E outcome \in {"ack", "error"} :
       Send([op |-> "kill", of |-> meta[l]], Guarded(meta[l]) = {}, outcome)
  /\ Goto(l, "unlink")
  /\ CommandFrame
  /\ UNCHANGED <<storeVars, meta, sealed>>

\* `fail_pending_record` unlinks the record in whatever state it is, or fails
\* and is ignored; the launch is reported as failed.
FailRecord(l) ==
  /\ lpc[l] = "unlink"
  /\ Unlink(l) \/ UNCHANGED record
  /\ Goto(l, "failed")
  /\ UNCHANGED <<hostVars, expired, seen, listing, meta, sealed>>

\* The controller is killed, or its machine goes down, between two steps.
ControllerCrashes(l) ==
  /\ InFlight(l)
  /\ Goto(l, "crashed")
  /\ UNCHANGED <<hostVars, storeVars, meta, sealed>>

-----------------------------------------------------------------------------
(* The bootstrap: wait_then_exec.                                          *)

\* The exec puts the agent in the pane, and a command runtime's workload behind
\* it; an exec that fails leaves the exited pane on screen.
Exec(l) ==
  \/ /\ pane' = [pane EXCEPT ![l] = "agent"]
     /\ workload' = [workload EXCEPT ![l] = IF kind[l] = "direct" THEN "none"
                                                                  ELSE "running"]
  \/ pane' = [pane EXCEPT ![l] = "dead"] /\ UNCHANGED workload

\* Mutant of ExecAgent: the wait's exit status is not looked at.
ExecAgentUnreleased(l) ==
  /\ pane[l] \in {"waiting", "woken"}
  /\ Exec(l)
  /\ UNCHANGED <<name, kind, terminal, tampered, nextId, second, late, restarted>>
  /\ UNCHANGED <<storeVars, launchVars>>

\* The wait returned 0: exec the runtime and agent.
ExecAgent(l) ==
  /\ pane[l] = "woken"
  /\ Exec(l)
  /\ UNCHANGED <<name, kind, terminal, tampered, nextId, second, late, restarted>>
  /\ UNCHANGED <<storeVars, launchVars>>

\* Mutant of WaitFails: the wait has no timeout.
WaitFailsOnSignalOnly(l) ==
  /\ pane[l] = "woken"
  /\ pane' = [pane EXCEPT ![l] = "giveup"]
  /\ UNCHANGED <<name, kind, terminal, tampered, nextId, second, late, workload,
                 restarted, storeVars, launchVars>>

\* The wait timed out, or failed: it may do so just as the signal comes.
WaitFails(l) ==
  /\ pane[l] \in {"waiting", "woken"}
  /\ pane' = [pane EXCEPT ![l] = "giveup"]
  /\ UNCHANGED <<name, kind, terminal, tampered, nextId, second, late, workload,
                 restarted, storeVars, launchVars>>

\* `_release_cleanup_then_kill` reads its own pane's session, and goes on only
\* under its own nonce.  A failure leaves the exited pane on screen.
BootstrapLookup(l) ==
  /\ pane[l] = "giveup"
  /\ \/ NonceOf(l) = l /\ pane' = [pane EXCEPT ![l] = "cleaning"]
     \/ pane' = [pane EXCEPT ![l] = "dead"]
  /\ UNCHANGED <<name, kind, terminal, tampered, nextId, second, late, workload,
                 restarted, storeVars, launchVars>>

\* The guarded kill of that session.  A kill that fails or times out lets the
\* bootstrap exit non-zero under its session.
BootstrapKill(l) ==
  LET own == [IdentityOf(l) EXCEPT !.nonce = l]
  IN  /\ pane[l] = "cleaning"
      /\ \/ l \in Guarded(own) /\ EndSessions({l}) /\ UNCHANGED late
         \/ /\ pane' = [pane EXCEPT ![l] = "dead"]
            /\ late' \in {late, late \cup {[op |-> "kill", of |-> own]}}
            /\ UNCHANGED <<terminal, nextId>>
  /\ CommandFrame
  /\ UNCHANGED <<storeVars, launchVars>>

Controller(l) ==
  \/ CreatePendingRecord(l) \/ WritePendingRecord(l) \/ CreateSession(l)
  \/ QuerySession(l) \/ FinalizeRecord(l) \/ ReleaseBootstrap(l)
  \/ RollbackLookup(l) \/ RollbackKill(l) \/ FailRecord(l)

Bootstrap(l) == ExecAgent(l) \/ WaitFails(l) \/ BootstrapLookup(l) \/ BootstrapKill(l)

LaunchNext ==
  \E l \in Launches : Controller(l) \/ ControllerCrashes(l) \/ Bootstrap(l)

=============================================================================
