-------------------------- MODULE SessionLifecycle --------------------------
(***************************************************************************)
(* The life of managed sessions: launches, removals and enumerations run    *)
(* concurrently, each a process of its own that shares nothing with the     *)
(* others but the tmux server and the record store.                         *)
(***************************************************************************)
EXTENDS ManagedLaunch, KillPath

vars == <<hostVars, storeVars, launchVars, killVars>>

Init == HostInit /\ StoreInit /\ LaunchInit /\ KillInit

HostStep == HostNext /\ UNCHANGED <<storeVars, launchVars, killVars>>

LaunchStep == LaunchNext /\ UNCHANGED killVars

KillStep == KillNext /\ UNCHANGED launchVars

ListStep ==
  /\ \E g \in Listers : ListSessions(g) \/ ListFails(g) \/ Collect(g)
  /\ UNCHANGED <<hostVars, launchVars, killVars>>

ExpireStep ==
  /\ \E l \in Launches : Expires(l, InFlight(l))
  /\ UNCHANGED <<hostVars, launchVars, killVars>>

Next == HostStep \/ LaunchStep \/ KillStep \/ ListStep \/ ExpireStep

Spec == Init /\ [][Next]_vars

\* Every client that started goes on until it ends or is killed, every wait has
\* a timeout, enumerations keep being asked for and succeed again and again, and
\* time passes.
Fairness ==
  /\ \A l \in Launches :
       /\ WF_vars(Controller(l) /\ UNCHANGED killVars)
       /\ WF_vars(Bootstrap(l) /\ UNCHANGED killVars)
       /\ SF_vars(Expires(l, InFlight(l)) /\ UNCHANGED <<hostVars, launchVars, killVars>>)
  /\ \A k \in Killers : WF_vars(Removal(k) /\ UNCHANGED launchVars)
  /\ \A g \in Listers :
       /\ WF_vars(ListSessions(g) /\ UNCHANGED <<hostVars, launchVars, killVars>>)
       /\ SF_vars(Collect(g) /\ UNCHANGED <<hostVars, launchVars, killVars>>)

FairSpec == Spec /\ Fairness

-----------------------------------------------------------------------------
(* Properties.                                                             *)

TypeOK == HostTypeOK /\ StoreTypeOK /\ LaunchTypeOK /\ KillTypeOK

(* No agent runs, and no workload behind it, unless the launch's record had  *)
(* been finalized first: the bootstrap execs only after the release, and the *)
(* release, however late it arrives, is sent only over a finalized record.   *)
DurableBeforeExec ==
  \A l \in Launches :
    pane[l] \in {"woken", "agent"} \/ workload[l] = "running" => l \in sealed

(* What makes it inductive: a pane belongs to a session, a client past its    *)
(* lookup holds an identity, and a release is of a finalized launch's own     *)
(* identity, be it about to be sent or under way.                             *)
PaneHasSession == \A l \in Launches : pane[l] # "none" => Live(l)

IdentityKnown ==
  /\ \A l \in Launches :
       lpc[l] \in {"finalize", "release", "rollback"} => meta[l] \in Identities
  /\ \A k \in Killers : kpc[k] # "idle" => target[k] \in Identities

ReleaseIsSealed ==
  /\ \A l \in Launches : lpc[l] = "release" => l \in sealed /\ meta[l].nonce = l
  /\ \A c \in late : c.op = "release" => c.of.nonce \in sealed

DurableInv ==
  TypeOK /\ PaneHasSession /\ IdentityKnown /\ ReleaseIsSealed /\ DurableBeforeExec

(* A session ends only by its own doing or by a client that meant it: no     *)
(* rollback, removal or late command of one launch ends another's session,   *)
(* whatever names, ids and creation seconds they share.                      *)
OnlyOwnSessionEnds ==
  [][\A m \in Launches :
       Live(m) /\ ~Live(m)' =>
         /\ \A l \in Launches : lpc'[l] # lpc[l] => l = m
         /\ \A k \in Killers : kpc'[k] # kpc[k] => target[k].nonce = m
         /\ \A c \in late \ late' : c.op = "kill" /\ c.of.nonce = m]_vars

(* Workload teardown and record cleanup begin only once the captured session *)
(* is gone, and it stays gone: a lost or late kill never passes for one.     *)
CleanupAfterTerminal ==
  \A k \in Killers :
    kpc[k] \in {"record", "resolve", "stop", "delete", "removed"} =>
      ~Live(target[k].nonce)

(* What makes the last two inductive: a launch creates at most one session, so *)
(* one that is gone is gone for good; a removal's target has been created, and *)
(* is one launch's beyond the authority check; and every kill, about to be     *)
(* sent or under way, carries a launch's own nonce.                            *)
CreateOf(l) == [op |-> "create", nonce |-> l]

Uncreated == {"idle", "write", "create"}

Spent(l) == lpc[l] \notin Uncreated /\ CreateOf(l) \notin late

CreatedOnce ==
  \A l \in Launches :
    /\ Live(l) => Spent(l)
    /\ CreateOf(l) \in late => lpc[l] \notin Uncreated

TargetIsSpent ==
  \A k \in Killers :
    kpc[k] # "idle" /\ target[k].nonce \in Launches =>
      LET l == target[k].nonce
      IN  /\ Spent(l)
          /\ Live(l) => terminal[l] = [id |-> target[k].id, created |-> target[k].created]

KillIsOwned ==
  /\ \A l \in Launches : lpc[l] = "rollback" => meta[l].nonce = l
  /\ \A k \in Killers :
       kpc[k] \notin {"idle", "authority", "refused", "interrupted"} =>
         target[k].nonce \in Launches
  /\ \A c \in late : c.op = "kill" => c.of.nonce \in Launches

OwnershipInv ==
  DurableInv /\ CreatedOnce /\ TargetIsSpent /\ KillIsOwned /\ CleanupAfterTerminal

(* A running agent keeps the record that is the authority over it, against   *)
(* removals, enumerations and collection, until its own launch is undone or  *)
(* its marker overwritten.                                                   *)
RunningAgentKeepsRecord ==
  \A l \in Launches :
    pane[l] = "agent" /\ lpc[l] # "failed" /\ l \notin tampered =>
      record[l] = Finalized(IdentityOf(l))

(* A workload that outlives its terminal can still be reaped: its record     *)
(* stays until a removal has stopped it or its retention has passed.         *)
OrphanKeepsRecord ==
  \A l \in Launches :
    /\ kind[l] = "command" /\ workload[l] = "running" /\ ~Live(l)
    /\ lpc[l] # "failed" /\ l \notin expired
    => record[l].status = "finalized"

(* A removal that reports success has left nothing: no session, no record,   *)
(* and no workload that it had the means to stop.                            *)
ReportedRemovalIsComplete ==
  \A k \in Killers :
    kpc[k] = "removed" =>
      LET l == target[k].nonce
      IN  /\ ~Live(l)
          /\ record[l] = Absent
          /\ kind[l] = "command" => workload[l] = "none"

(* What makes the last three inductive.  The records of launches: a record is  *)
(* finalized exactly while it is a sealed launch's own, it is declared before   *)
(* anything else is done, a torn one was never declared, and its retention      *)
(* passes only once the launch ended.                                          *)
RecordPast(l) ==
  /\ lpc[l] = "idle" => record[l] = Absent
  /\ lpc[l] = "write" => record[l] = Torn
  /\ record[l].status = "absent" => record[l] = Absent
  /\ record[l].status = "torn" =>
       /\ record[l] = Torn /\ l \notin sealed
       /\ lpc[l] \in {"write", "unlink"} \cup Ended
  /\ record[l].status = "pending" => l \notin sealed
  /\ record[l].status = "finalized" => l \in sealed
  /\ l \in expired => lpc[l] \in Ended
  /\ l \in sealed => Spent(l) /\ lpc[l] \notin {"query", "finalize"}

RecordHistory == \A l \in Launches : RecordPast(l)

(* What a controller has read under its own nonce is its own session, as long *)
(* as that lives.                                                             *)
MetaIsOwn ==
  \A l \in Launches :
    meta[l] # Unset /\ meta[l].nonce = l =>
      /\ Spent(l)
      /\ Live(l) => terminal[l] = [id |-> meta[l].id, created |-> meta[l].created]

(* A listing under way has seen every live session whose record it may take   *)
(* for stale, unless the session's marker was overwritten.                    *)
ListedIsSeen ==
  \A g \in listing, l \in sealed \ tampered :
    l \in expired /\ Live(l) => l \in seen[g]

(* The record of a session that lives is its own; that of a workload that may *)
(* still be reaped is there until its retention has passed.                   *)
LiveKeepsRecord ==
  \A l \in sealed : lpc[l] # "failed" =>
    /\ Live(l) /\ l \notin tampered => record[l] = Finalized(IdentityOf(l))
    /\ l \notin expired /\ (Live(l) \/ (kind[l] = "command" /\ workload[l] = "running"))
         => record[l].status = "finalized"

(* A removal of a command runtime's session has prepared a stop or will not    *)
(* clean up, has stopped the workload before it deletes the record, and has    *)
(* deleted it when it is reported.                                            *)
RemovalProgress ==
  \A k \in Killers :
    LET l == target[k].nonce
    IN  /\ kpc[k] \in {"prove", "kill", "recheck", "finish", "record"} =>
             (kind[l] = "command" => teardown[k] # "none")
        /\ kpc[k] \in {"delete", "removed"} =>
             (kind[l] = "command" => workload[l] = "none")
        /\ kpc[k] = "removed" => record[l] = Absent

RecordInv ==
  /\ OwnershipInv /\ RecordHistory /\ MetaIsOwn /\ ListedIsSeen
  /\ LiveKeepsRecord /\ RemovalProgress

(* docs/explain/architecture.md says that after an ambiguous release failure *)
(* uxon kills the exact new session and removes its pending record.  The     *)
(* kill's own failure is ignored and the record removed all the same, so the *)
(* agent may be left running with no record, and no managed kill may end it. *)
FailedReleaseLeavesNoAgent ==
  \A l \in Launches :
    lpc[l] = "failed" /\ l \in sealed /\ record[l] = Absent => pane[l] # "agent"

(* The bootstrap never blocks its pane for good: it execs, or gives up and   *)
(* removes its session or exits on screen.                                   *)
PaneDecides ==
  \A l \in Launches :
    pane[l] \in {"waiting", "woken", "giveup", "cleaning"}
      ~> pane[l] \in {"none", "agent", "dead"}

(* Whatever crashes, and whichever kill is lost, the record of a session     *)
(* that is gone is eventually removed, if it was written at all: the file of *)
(* a controller that is killed between opening it and writing it is passed   *)
(* over by every collection, although the configuration reference says that  *)
(* pending records expire.                                                   *)
StaleRecordReclaimed ==
  \A l \in Launches :
    (record[l] \notin {Absent, Torn} /\ ~Live(l) /\ ~InFlight(l))
      ~> (record[l] = Absent \/ Live(l))

-----------------------------------------------------------------------------
(* The lifecycle implements the promise.                                    *)

Phase(l) ==
  CASE record[l].status = "pending"   -> "declared"
    [] record[l].status = "finalized" -> "sealed"
    [] record[l].status \in {"absent", "torn"} ->
         IF l \in sealed THEN "closed"
         ELSE IF lpc[l] \in {"idle", "write"} THEN "fresh" ELSE "void"

Authority == INSTANCE SessionAuthority WITH
  phase    <- [l \in Launches |-> Phase(l)],
  running  <- {l \in Launches : pane[l] = "agent"},
  disowned <- {l \in Launches : lpc[l] = "failed"} \cup tampered

(* Every step of the lifecycle is one of the promise, or leaves it alone.    *)
ImplementsAuthority == Authority!Spec

=============================================================================
