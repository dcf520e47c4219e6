------------------------------ MODULE KillPath ------------------------------
(***************************************************************************)
(* Removal of a managed session, shared by `uxon kill`, `kill-all` and the  *)
(* TUI (`kill_expected` and `finish_killed_session`): act on a captured     *)
(* identity, under the authority of its finalized record; kill only the     *)
(* session that still has that identity; and stop the workload and delete   *)
(* the record only once that very session is proven absent.                 *)
(***************************************************************************)
EXTENDS LaunchRecords

CONSTANT Killers   \* concurrent removals

VARIABLES
  kpc,         \* where each removal is
  target,      \* the session identity it has captured, or Unset
  teardown     \* what it prepared: no stop, a stop command, or a reason to skip

killVars == <<kpc, target, teardown>>

\* "removed": cleanup complete; "retained": the session is gone or unproven and
\* the record kept; "refused": nothing was done, or the session is still there.
KillStates == {"idle", "authority", "prove", "kill", "recheck", "finish",
               "record", "resolve", "stop", "delete",
               "removed", "retained", "refused", "interrupted"}

Reported == {"removed", "retained", "refused", "interrupted"}

KillTypeOK ==
  /\ kpc \in [Killers -> KillStates]
  /\ target \in [Killers -> Identities \cup {Unset}]
  /\ teardown \in [Killers -> {"none", "stop", "skip"}]

KillInit ==
  /\ kpc = [k \in Killers |-> "idle"]
  /\ target = [k \in Killers |-> Unset]
  /\ teardown = [k \in Killers |-> "none"]

At(k, state) == kpc[k] = state

To(k, state) == kpc' = [kpc EXCEPT ![k] = state]

-----------------------------------------------------------------------------

\* A removal is asked for a session some listing showed.
Request(k) ==
  /\ At(k, "idle")
  /\ \E r \in Rows : target' = [target EXCEPT ![k] = r]
  /\ To(k, "authority")
  /\ UNCHANGED <<hostVars, storeVars, teardown>>

\* `prepare_runtime_teardown`.  A runtime that is gone or has changed since the
\* launch, or a stop command that cannot be rendered, is skipped.
Preparations(l) ==
  CASE kind[l] = "direct"      -> {"none"}
    [] kind[l] = "unstoppable" -> {"none", "skip"}
    [] kind[l] = "command"     -> {"stop", "skip"}

\* `_target_for_identity`: no verified record, no removal.
TakeAuthority(k) ==
  /\ At(k, "authority")
  /\ \/ /\ Verified(target[k])
        /\ \E t \in Preparations(target[k].nonce) :
             teardown' = [teardown EXCEPT ![k] = t]
        /\ To(k, "prove")
     \/ To(k, "refused") /\ UNCHANGED teardown
  /\ UNCHANGED <<hostVars, storeVars, target>>

\* `exact_identity_exists` before the kill.
ProveBeforeKill(k) ==
  /\ At(k, "prove")
  /\ \E answer \in ExactIdentity(target[k]) :
       To(k, CASE answer = "present" -> "kill"
               [] answer = "absent"  -> "finish"
               [] answer = "unknown" -> "refused")
  /\ UNCHANGED <<hostVars, storeVars, target, teardown>>

\* `conditional_kill`.  Its answer only words the report: an acknowledgement can
\* be lost, so what counts is the proof that follows.
ConditionalKill(k) ==
  /\ At(k, "kill")
  /\ \E outcome \in {"ack", "error"} :
       Send([op |-> "kill", of |-> target[k]], Guarded(target[k]) = {}, outcome)
  /\ To(k, "recheck")
  /\ UNCHANGED <<name, kind, tampered, second, workload, restarted, storeVars,
                 target, teardown>>

\* `exact_identity_exists` after the kill.
ProveAfterKill(k) ==
  /\ At(k, "recheck")
  /\ \E answer \in ExactIdentity(target[k]) :
       To(k, IF answer = "absent" THEN "finish" ELSE "refused")
  /\ UNCHANGED <<hostVars, storeVars, target, teardown>>

\* `finish_killed_session` proves it once more: the diagnostics handoff reaches
\* it without the two proofs above.
ProveBeforeCleanup(k) ==
  /\ At(k, "finish")
  /\ \E answer \in ExactIdentity(target[k]) :
       To(k, IF answer = "absent" THEN "record" ELSE "retained")
  /\ UNCHANGED <<hostVars, storeVars, target, teardown>>

\* Mutant of RereadRecord: a missing record passes for a finished removal, whatever
\* the runtime.
RereadRecordLeniently(k) ==
  /\ At(k, "record")
  /\ \/ /\ Verified(target[k])
        /\ To(k, CASE teardown[k] = "none" -> "delete"
                   [] teardown[k] = "stop" -> "resolve"
                   [] teardown[k] = "skip" -> "retained")
     \/ IsAbsent(target[k]) /\ To(k, "removed")
     \/ To(k, "retained")
  /\ UNCHANGED <<hostVars, storeVars, target, teardown>>

\* It reads the record again.  For a direct runtime a record that is gone means
\* another client has finished; otherwise it must be readable and the one captured.
RereadRecord(k) ==
  /\ At(k, "record")
  /\ \/ /\ Verified(target[k])
        /\ To(k, CASE teardown[k] = "none" -> "delete"
                   [] teardown[k] = "stop" -> "resolve"
                   [] teardown[k] = "skip" -> "retained")
     \/ /\ IsAbsent(target[k])
        /\ kind[target[k].nonce] = "direct"
        /\ To(k, "removed")
     \/ To(k, "retained")
  /\ UNCHANGED <<hostVars, storeVars, target, teardown>>

\* `run_runtime_teardown` resolves the resource's identity anew and goes on only
\* if it is the one the launch recorded; it may also not resolve.
ResolveRuntime(k) ==
  /\ At(k, "resolve")
  /\ \/ target[k].nonce \notin restarted /\ To(k, "stop")
     \/ To(k, "retained")
  /\ UNCHANGED <<hostVars, storeVars, target, teardown>>

\* Mutant of StopWorkload: the record is deleted whatever came of the stop.
StopWorkloadBestEffort(k) ==
  /\ At(k, "stop")
  /\ workload' \in {workload, [workload EXCEPT ![target[k].nonce] = "none"]}
  /\ To(k, "delete")
  /\ UNCHANGED <<name, kind, terminal, pane, tampered, nextId, second, late,
                 restarted, storeVars, target, teardown>>

\* The stop command ends the workload under this nonce's pidfile; one that fails
\* or times out may have done so too.
StopWorkload(k) ==
  /\ At(k, "stop")
  /\ \/ /\ workload' = [workload EXCEPT ![target[k].nonce] = "none"]
        /\ To(k, "delete") \/ To(k, "retained")
     \/ To(k, "retained") /\ UNCHANGED workload
  /\ UNCHANGED <<name, kind, terminal, pane, tampered, nextId, second, late,
                 restarted, storeVars, target, teardown>>

\* `delete_verified_record`: a record another client has deleted is done with.
DeleteRecord(k) ==
  /\ At(k, "delete")
  /\ \/ /\ Verified(target[k]) \/ IsAbsent(target[k])
        /\ Unlink(target[k].nonce)
        /\ To(k, "removed")
     \/ To(k, "retained") /\ UNCHANGED record
  /\ UNCHANGED <<hostVars, expired, seen, listing, target, teardown>>

\* The client is interrupted: whatever it had not done yet is not done.
Interrupted(k) ==
  /\ kpc[k] \notin Reported \cup {"idle"}
  /\ To(k, "interrupted")
  /\ UNCHANGED <<hostVars, storeVars, target, teardown>>

Removal(k) ==
  \/ TakeAuthority(k) \/ ProveBeforeKill(k) \/ ConditionalKill(k)
  \/ ProveAfterKill(k) \/ ProveBeforeCleanup(k) \/ RereadRecord(k)
  \/ ResolveRuntime(k) \/ StopWorkload(k) \/ DeleteRecord(k)

KillNext ==
  \E k \in Killers : Request(k) \/ Removal(k) \/ Interrupted(k)

=============================================================================
