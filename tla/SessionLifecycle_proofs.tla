----------------------- MODULE SessionLifecycle_proofs -----------------------
(***************************************************************************)
(* The session lifecycle, for any number of launches, removals and         *)
(* enumerations, in three invariants, each over the ones before it: that no *)
(* agent runs before its launch record is durable; that sessions are ended, *)
(* and cleaned up after, only by those who own them; and that a running     *)
(* agent keeps its record and a removal that reports success has left       *)
(* nothing behind - with all of which the lifecycle implements the promise  *)
(* of SessionAuthority.                                                     *)
(***************************************************************************)
EXTENDS SessionLifecycle, TLAPS

\* The server's part of the invariant: what a command may change.
ServerOK ==
  /\ terminal \in [Launches -> [id : Nat, created : Nat] \cup {Unset}]
  /\ pane \in [Launches -> PaneStates]
  /\ nextId \in Nat
  /\ PaneHasSession
  /\ \A l \in Launches : pane[l] \in {"woken", "agent"} => l \in sealed

\* The rest of what a command sent to the server may change.
LateOK ==
  /\ late \subseteq Commands
  /\ \A c \in late : c.op = "release" => c.of.nonce \in sealed

-----------------------------------------------------------------------------
(* A session's identity is well formed.                                     *)
LEMMA IdentityOfLive ==
  ASSUME HostTypeOK, NEW l \in Launches, Live(l)
  PROVE  IdentityOf(l) \in Identities
<1>1. terminal[l] \in [id : Nat, created : Nat]
  BY DEF HostTypeOK, Live
<1>2. NonceOf(l) \in Launches \cup {Foreign}
  BY DEF NonceOf
<1> QED
  BY <1>1, <1>2 DEF IdentityOf, Identities

(* Every listed row is one.                                                 *)
LEMMA RowsTyped ==
  ASSUME HostTypeOK
  PROVE  Rows \subseteq Identities
BY IdentityOfLive DEF Rows

(* A script guarded by an identity reaches only the session of the launch    *)
(* whose nonce it carries.                                                  *)
LEMMA GuardedIsOwn ==
  ASSUME HostAssumption, NEW e \in Identities, e.nonce \in Launches,
         NEW l \in Guarded(e)
  PROVE  l = e.nonce /\ l \in Launches /\ Live(l)
<1>1. l \in Launches /\ Live(l) /\ IdentityOf(l) = e
  BY DEF Guarded, IdentityHolds
<1>2. NonceOf(l) = e.nonce
  BY <1>1 DEF IdentityOf
<1> QED
  BY <1>1, <1>2 DEF NonceOf, HostAssumption

(* Ending sessions takes their panes with them and wakes no other.           *)
LEMMA EndSessionsOK ==
  ASSUME ServerOK, NEW S, EndSessions(S), sealed' = sealed
  PROVE  ServerOK'
<1>1. /\ terminal' \in [Launches -> [id : Nat, created : Nat] \cup {Unset}]
      /\ pane' \in [Launches -> PaneStates]
      /\ nextId' \in Nat
  BY DEF ServerOK, EndSessions, PaneStates
<1>2. PaneHasSession'
  BY DEF ServerOK, EndSessions, PaneHasSession, Live
<1>3. \A l \in Launches : pane'[l] \in {"woken", "agent"} => l \in sealed'
  BY DEF ServerOK, EndSessions
<1> QED
  BY <1>1, <1>2, <1>3 DEF ServerOK

(* A command keeps the server's part, a release because it is of a sealed    *)
(* launch's identity.                                                       *)
LEMMA EffectOK ==
  ASSUME HostAssumption, HostTypeOK, ServerOK, sealed \subseteq Launches,
         sealed' = sealed, NEW c \in Commands,
         c.op = "release" => c.of.nonce \in sealed, Effect(c)
  PROVE  ServerOK'
<1>1. CASE c.op = "create"
  <2>1. c.nonce \in Launches
    BY <1>1 DEF Commands
  <2>2. CreateEffect(c.nonce)
    BY <1>1 DEF Effect
  <2>3. CASE NameTaken(name[c.nonce])
    BY <2>2, <2>3 DEF CreateEffect, ServerOK, PaneHasSession, Live
  <2>4. CASE ~NameTaken(name[c.nonce])
    <3> DEFINE fresh == [id |-> nextId, created |-> second]
    <3>1. fresh \in [id : Nat, created : Nat] /\ fresh # Unset
      BY DEF HostTypeOK, HostAssumption
    <3>2. /\ terminal' = [terminal EXCEPT ![c.nonce] = fresh]
          /\ pane' = [pane EXCEPT ![c.nonce] = "waiting"]
          /\ nextId' = nextId + 1
      BY <2>2, <2>4 DEF CreateEffect
    <3> HIDE DEF fresh
    <3> QED
      BY <2>1, <3>1, <3>2 DEF ServerOK, PaneHasSession, Live, PaneStates
  <2> QED
    BY <2>3, <2>4
<1>2. CASE c.op = "release"
  <2>1. c.of \in Identities /\ c.of.nonce \in sealed /\ c.of.nonce \in Launches
    BY <1>2 DEF Commands
  <2>2. ReleaseEffect(c.of)
    BY <1>2 DEF Effect
  <2>3. \A l \in Guarded(c.of) : l \in sealed
    BY <2>1, GuardedIsOwn
  <2> QED
    BY <2>2, <2>3 DEF ReleaseEffect, ServerOK, PaneHasSession, Live, PaneStates
<1>3. CASE c.op = "kill"
  BY <1>3, EndSessionsOK DEF Effect, KillEffect
<1> QED
  BY <1>1, <1>2, <1>3 DEF Commands

(* So does sending one, whatever its client learns.                          *)
LEMMA SendOK ==
  ASSUME HostAssumption, HostTypeOK, ServerOK, LateOK, sealed \subseteq Launches,
         sealed' = sealed, NEW c \in Commands,
         c.op = "release" => c.of.nonce \in sealed,
         NEW refused, NEW outcome, Send(c, refused, outcome)
  PROVE  ServerOK' /\ LateOK'
<1>1. CASE Effect(c) /\ UNCHANGED late
  BY <1>1, EffectOK DEF LateOK
<1>2. CASE UNCHANGED <<terminal, pane, nextId, late>>
  BY <1>2 DEF ServerOK, LateOK, PaneHasSession, Live
<1>3. CASE late' = late \cup {c} /\ UNCHANGED <<terminal, pane, nextId>>
  BY <1>3 DEF ServerOK, LateOK, PaneHasSession, Live
<1> QED
  BY <1>1, <1>2, <1>3 DEF Send

-----------------------------------------------------------------------------
(* The invariant, cut along what the actions change.                         *)
ControllerOK ==
  \A l \in Launches :
    /\ lpc[l] \in {"finalize", "release", "rollback"} => meta[l] \in Identities
    /\ lpc[l] = "release" => l \in sealed /\ meta[l].nonce = l

RemovalOK == \A k \in Killers : kpc[k] # "idle" => target[k] \in Identities

WorkloadOK ==
  \A l \in Launches : workload[l] = "running" => l \in sealed

(* DurableInv, by its parts.                                                 *)
LEMMA DurableInvParts ==
  ASSUME DurableInv
  PROVE  TypeOK /\ ServerOK /\ LateOK /\ ControllerOK /\ RemovalOK /\ WorkloadOK
BY DEF DurableInv, TypeOK, HostTypeOK, ServerOK, LateOK, ControllerOK,
       RemovalOK, WorkloadOK, IdentityKnown, ReleaseIsSealed, DurableBeforeExec

(* The same of the next state.                                              *)
LEMMA DurableInvNext ==
  ASSUME TypeOK', ServerOK', LateOK', ControllerOK', RemovalOK', WorkloadOK'
  PROVE  DurableInv'
BY DEF DurableInv, TypeOK, HostTypeOK, ServerOK, LateOK, ControllerOK,
       RemovalOK, WorkloadOK, IdentityKnown, ReleaseIsSealed, DurableBeforeExec

-----------------------------------------------------------------------------
(* Initially nothing has happened.                                          *)
LEMMA DurableInvInit ==
  ASSUME HostAssumption, Init
  PROVE  DurableInv
<1>1. TypeOK
  BY DEF Init, HostInit, StoreInit, LaunchInit, KillInit, HostAssumption, TypeOK,
         HostTypeOK, StoreTypeOK, LaunchTypeOK, KillTypeOK, PaneStates, Absent,
         RecordShape, LaunchStates, KillStates
<1>2. PaneHasSession /\ IdentityKnown /\ ReleaseIsSealed /\ DurableBeforeExec
  BY DEF Init, HostInit, LaunchInit, KillInit, PaneHasSession, IdentityKnown,
         ReleaseIsSealed, DurableBeforeExec
<1> QED
  BY <1>1, <1>2 DEF DurableInv

(* What the host does by itself.                                             *)
LEMMA HostStepOK ==
  ASSUME HostAssumption, DurableInv, HostStep
  PROVE  DurableInv'
<1> USE HostAssumption, DurableInvParts
<1>1. /\ HostTypeOK /\ ServerOK /\ LateOK /\ WorkloadOK /\ sealed \subseteq Launches
      /\ StoreTypeOK /\ LaunchTypeOK /\ KillTypeOK
  BY DEF TypeOK, LaunchTypeOK
<1>2. UNCHANGED <<storeVars, launchVars, killVars>>
  BY DEF HostStep
<1>3. UNCHANGED <<record, expired, seen, listing, lpc, meta, sealed, kpc, target,
                  teardown>>
  BY <1>2 DEF storeVars, launchVars, killVars
<1>4. /\ (StoreTypeOK /\ LaunchTypeOK /\ KillTypeOK)'
      /\ (ControllerOK /\ RemovalOK)'
  BY <1>1, <1>3 DEF StoreTypeOK, LaunchTypeOK, KillTypeOK, ControllerOK, RemovalOK
<1>5. ASSUME ServerOK', LateOK', WorkloadOK',
             name' \in [Launches -> Names], kind' \in [Launches -> Kinds],
             tampered' \in SUBSET MayTamper, second' \in 0..MaxSecond,
             workload' \in [Launches -> {"none", "running"}],
             restarted' \in SUBSET Launches
      PROVE  DurableInv'
  BY <1>4, <1>5, DurableInvNext DEF TypeOK, HostTypeOK, ServerOK, LateOK
<1>6. ASSUME NEW c \in late, LateCommand(c)  PROVE DurableInv'
  <2>1. c \in Commands /\ Effect(c) /\ (c.op = "release" => c.of.nonce \in sealed)
    BY <1>1, <1>6 DEF LateOK, LateCommand
  <2>2. ServerOK'
    BY <1>1, <1>3, <2>1, EffectOK
  <2>3. LateOK' /\ WorkloadOK'
    BY <1>1, <1>3, <1>6 DEF LateOK, WorkloadOK, LateCommand
  <2> QED
    BY <1>1, <1>5, <1>6, <2>2, <2>3 DEF LateCommand, HostTypeOK
<1>7. ASSUME NEW l \in Launches, AgentExits(l)  PROVE DurableInv'
  <2>1. ServerOK'
    <3>1. CASE EndSessions({l})
      BY <1>1, <1>3, <3>1, EndSessionsOK
    <3>2. CASE pane' = [pane EXCEPT ![l] = "dead"] /\ UNCHANGED <<terminal, nextId>>
      BY <1>1, <1>3, <1>7, <3>2 DEF AgentExits, ServerOK, PaneHasSession, Live,
                                    PaneStates
    <3> QED
      BY <1>7, <3>1, <3>2 DEF AgentExits
  <2>2. /\ workload' \in {workload, [workload EXCEPT ![l] = "none"]}
        /\ UNCHANGED <<name, kind, tampered, second, late, restarted>>
    BY <1>7 DEF AgentExits
  <2>3. /\ LateOK' /\ WorkloadOK'
        /\ workload' \in [Launches -> {"none", "running"}]
    BY <1>1, <1>3, <2>2 DEF LateOK, WorkloadOK, HostTypeOK
  <2> QED
    BY <1>1, <1>5, <2>1, <2>2, <2>3 DEF HostTypeOK
<1>8. ASSUME NEW S, SessionsEnd(S)  PROVE DurableInv'
  <2>1. ServerOK'
    BY <1>1, <1>3, <1>8, EndSessionsOK DEF SessionsEnd
  <2>2. LateOK' /\ WorkloadOK'
    BY <1>1, <1>3, <1>8 DEF LateOK, WorkloadOK, SessionsEnd
  <2> QED
    BY <1>1, <1>5, <1>8, <2>1, <2>2 DEF SessionsEnd, HostTypeOK
<1>9. ASSUME NEW l \in Launches, Tamper(l)  PROVE DurableInv'
  <2>1. ServerOK' /\ LateOK' /\ WorkloadOK'
    BY <1>1, <1>3, <1>9 DEF Tamper, ServerOK, LateOK, WorkloadOK, PaneHasSession, Live
  <2> QED
    BY <1>1, <1>5, <1>9, <2>1 DEF Tamper, HostTypeOK
<1>10. ASSUME NEW l \in Launches, RuntimeRestarts(l)  PROVE DurableInv'
  <2>1. ServerOK' /\ LateOK' /\ WorkloadOK'
    BY <1>1, <1>3, <1>10 DEF RuntimeRestarts, ServerOK, LateOK, WorkloadOK,
                             PaneHasSession, Live, HostTypeOK
  <2> QED
    BY <1>1, <1>5, <1>10, <2>1 DEF RuntimeRestarts, HostTypeOK
<1>11. ASSUME Tick  PROVE DurableInv'
  <2>1. ServerOK' /\ LateOK' /\ WorkloadOK'
    BY <1>1, <1>3, <1>11 DEF Tick, ServerOK, LateOK, WorkloadOK, PaneHasSession, Live
  <2>2. second' \in 0..MaxSecond
    BY <1>1, <1>11 DEF Tick, HostTypeOK, HostAssumption
  <2> QED
    BY <1>1, <1>5, <1>11, <2>1, <2>2 DEF Tick, HostTypeOK
<1> QED
  BY <1>6, <1>7, <1>8, <1>9, <1>10, <1>11 DEF HostStep, HostNext

-----------------------------------------------------------------------------
(* A controller's step that leaves the host and the store's listings alone.  *)
LEMMA ControllerBookkeeping ==
  ASSUME DurableInv, NEW l \in Launches,
         UNCHANGED <<hostVars, expired, seen, listing, killVars>>,
         record' \in [Launches -> RecordShape],
         sealed' \in {sealed, sealed \cup {l}},
         meta' \in [Launches -> Identities \cup {Unset}],
         \A m \in Launches \ {l} : meta'[m] = meta[m],
         NEW to \in LaunchStates, Goto(l, to),
         to \in {"finalize", "release", "rollback"} => meta'[l] \in Identities,
         to = "release" => l \in sealed' /\ meta'[l].nonce = l
  PROVE  DurableInv'
<1>1. UNCHANGED <<name, kind, terminal, pane, tampered, nextId, second, late,
                  workload, restarted, kpc, target, teardown>>
  BY DEF hostVars, killVars
<1>2. /\ HostTypeOK /\ StoreTypeOK /\ LaunchTypeOK /\ KillTypeOK
      /\ ServerOK /\ LateOK /\ ControllerOK /\ RemovalOK /\ WorkloadOK
  BY DurableInvParts DEF TypeOK
<1>3. TypeOK'
  <2>1. HostTypeOK' /\ KillTypeOK'
    BY <1>1, <1>2 DEF HostTypeOK, KillTypeOK
  <2>2. StoreTypeOK'
    BY <1>2 DEF StoreTypeOK
  <2>3. LaunchTypeOK'
    BY <1>2 DEF LaunchTypeOK, Goto
  <2> QED
    BY <2>1, <2>2, <2>3 DEF TypeOK
<1>4. ServerOK' /\ LateOK' /\ RemovalOK' /\ WorkloadOK'
  BY <1>1, <1>2 DEF ServerOK, LateOK, RemovalOK, WorkloadOK, PaneHasSession, Live
<1>5. ControllerOK'
  BY <1>2 DEF ControllerOK, Goto, LaunchTypeOK
<1> QED
  BY <1>3, <1>4, <1>5, DurableInvNext

(* A controller's command to the server.                                     *)
LEMMA ControllerCommand ==
  ASSUME HostAssumption, DurableInv, NEW l \in Launches, NEW c \in Commands,
         c.op = "release" => c.of.nonce \in sealed,
         NEW refused, NEW outcome, Send(c, refused, outcome), CommandFrame,
         UNCHANGED <<storeVars, meta, sealed, killVars>>,
         NEW to \in LaunchStates \ {"finalize", "release", "rollback"}, Goto(l, to)
  PROVE  DurableInv'
<1>1. UNCHANGED <<name, kind, tampered, second, workload, restarted, record,
                  expired, seen, listing, meta, sealed, kpc, target, teardown>>
  BY DEF CommandFrame, storeVars, killVars
<1>2. /\ HostTypeOK /\ StoreTypeOK /\ LaunchTypeOK /\ KillTypeOK
      /\ ServerOK /\ LateOK /\ ControllerOK /\ RemovalOK /\ WorkloadOK
      /\ sealed \subseteq Launches
  BY DurableInvParts DEF TypeOK, LaunchTypeOK
<1>3. ServerOK' /\ LateOK'
  BY <1>1, <1>2, SendOK
<1>4. RemovalOK' /\ WorkloadOK' /\ ControllerOK'
  BY <1>1, <1>2 DEF RemovalOK, WorkloadOK, ControllerOK, Goto, LaunchTypeOK
<1>5. TypeOK'
  <2>1. HostTypeOK'
    BY <1>1, <1>2, <1>3 DEF HostTypeOK, ServerOK, LateOK
  <2>2. StoreTypeOK' /\ KillTypeOK' /\ LaunchTypeOK'
    BY <1>1, <1>2 DEF StoreTypeOK, KillTypeOK, LaunchTypeOK, Goto
  <2> QED
    BY <2>1, <2>2 DEF TypeOK
<1> QED
  BY <1>3, <1>4, <1>5, DurableInvNext

(* The controller's steps.                                                   *)
LEMMA ControllerStepOK ==
  ASSUME HostAssumption, DurableInv, NEW l \in Launches,
         Controller(l) \/ ControllerCrashes(l), UNCHANGED killVars
  PROVE  DurableInv'
<1>1. /\ HostTypeOK /\ StoreTypeOK /\ LaunchTypeOK /\ ControllerOK
      /\ Rows \subseteq Identities
  BY DurableInvParts, RowsTyped DEF TypeOK
<1>2. /\ record \in [Launches -> RecordShape]
      /\ meta \in [Launches -> Identities \cup {Unset}]
      /\ lpc \in [Launches -> LaunchStates]
  BY <1>1 DEF StoreTypeOK, LaunchTypeOK
<1>3. CASE CreatePendingRecord(l) \/ WritePendingRecord(l)
  <2>1. PICK to \in {"write", "create", "unlink"} : Goto(l, to)
    BY <1>3 DEF CreatePendingRecord, WritePendingRecord, Unlink, Torn, Pending
  <2>2. /\ UNCHANGED <<hostVars, expired, seen, listing, meta, sealed>>
        /\ record' \in [Launches -> RecordShape]
    BY <1>2, <1>3 DEF CreatePendingRecord, WritePendingRecord, Unlink, Torn, Pending, Absent,
         RecordShape
  <2> QED
    BY <1>2, <2>1, <2>2, ControllerBookkeeping DEF LaunchStates
<1>4. CASE CreateSession(l)
  <2> DEFINE c == [op |-> "create", nonce |-> l]
  <2>1. PICK outcome \in {"ack", "error"} :
          /\ Send(c, NameTaken(name[l]), outcome)
          /\ Goto(l, IF outcome = "ack" THEN "query" ELSE "lookup")
    BY <1>4 DEF CreateSession
  <2>2. c \in Commands /\ c.op # "release"
    BY DEF Commands
  <2>3. CommandFrame /\ UNCHANGED <<storeVars, meta, sealed>>
    BY <1>4 DEF CreateSession
  <2> HIDE DEF c
  <2> QED
    BY <2>1, <2>2, <2>3, ControllerCommand DEF LaunchStates
<1>5. CASE QuerySession(l)
  <2>1. UNCHANGED <<hostVars, expired, seen, listing, record, sealed>>
    BY <1>5 DEF QuerySession, storeVars
  <2>2. CASE Goto(l, "lookup") /\ UNCHANGED meta
    BY <1>2, <2>1, <2>2, ControllerBookkeeping DEF LaunchStates
  <2>3. ASSUME NEW m \in Launches, Live(m),
               meta' = [meta EXCEPT ![l] = IdentityOf(m)], Goto(l, "finalize")
        PROVE  DurableInv'
    <3>1. IdentityOf(m) \in Identities
      BY <1>1, <2>3, IdentityOfLive
    <3>2. /\ meta' \in [Launches -> Identities \cup {Unset}]
          /\ meta'[l] \in Identities
          /\ \A x \in Launches \ {l} : meta'[x] = meta[x]
      BY <1>2, <2>3, <3>1
    <3> QED
      BY <1>2, <2>1, <2>3, <3>2, ControllerBookkeeping DEF LaunchStates
  <2> QED
    BY <1>5, <2>2, <2>3 DEF QuerySession
<1>6. CASE FinalizeRecord(l)
  <2>1. UNCHANGED <<hostVars, expired, seen, listing, meta>>
    BY <1>6 DEF FinalizeRecord
  <2>2. meta[l] \in Identities
    BY <1>1, <1>6 DEF FinalizeRecord, ControllerOK
  <2>3. CASE Goto(l, "lookup") /\ UNCHANGED <<record, sealed>>
    BY <1>2, <2>1, <2>3, ControllerBookkeeping DEF LaunchStates
  <2>4. CASE /\ meta[l].nonce = l
             /\ record' = [record EXCEPT ![l] = Finalized(meta[l])]
             /\ sealed' = sealed \cup {l}
             /\ Goto(l, "release") \/ Goto(l, "lookup")
    <3>1. Finalized(meta[l]) \in RecordShape
      BY <2>2 DEF Finalized, Identities, RecordShape
    <3>2. record' \in [Launches -> RecordShape]
      BY <1>2, <2>4, <3>1
    <3>3. PICK to \in {"release", "lookup"} : Goto(l, to)
      BY <2>4
    <3> QED
      BY <1>2, <2>1, <2>2, <2>4, <3>2, <3>3, ControllerBookkeeping DEF LaunchStates
  <2> QED
    BY <1>6, <2>3, <2>4 DEF FinalizeRecord
<1>7. CASE ReleaseBootstrap(l)
  <2> DEFINE c == [op |-> "release", of |-> meta[l]]
  <2>1. PICK outcome \in {"ack", "error"} :
          /\ Send(c, Guarded(meta[l]) = {}, outcome)
          /\ Goto(l, IF outcome = "ack" THEN "done" ELSE "lookup")
    BY <1>7 DEF ReleaseBootstrap
  <2>2. c \in Commands /\ c.of.nonce \in sealed
    BY <1>1, <1>7 DEF ReleaseBootstrap, ControllerOK, Commands
  <2>3. CommandFrame /\ UNCHANGED <<storeVars, meta, sealed>>
    BY <1>7 DEF ReleaseBootstrap
  <2> HIDE DEF c
  <2> QED
    BY <2>1, <2>2, <2>3, ControllerCommand DEF LaunchStates
<1>8. CASE RollbackLookup(l)
  <2>1. UNCHANGED <<hostVars, expired, seen, listing, record, sealed>>
    BY <1>8 DEF RollbackLookup, storeVars
  <2>2. CASE meta[l] # Unset
    <3>1. UNCHANGED meta /\ meta[l] \in Identities
      BY <1>2, <1>8, <2>2 DEF RollbackLookup
    <3>2. PICK to \in {"rollback", "unlink"} : Goto(l, to)
      BY <1>8, <2>2 DEF RollbackLookup
    <3> QED
      BY <1>2, <2>1, <3>1, <3>2, ControllerBookkeeping DEF LaunchStates
  <2>3. CASE Goto(l, "unlink") /\ UNCHANGED meta
    BY <1>2, <2>1, <2>3, ControllerBookkeeping DEF LaunchStates
  <2>4. ASSUME NEW m \in Launches, Live(m),
               meta' = [meta EXCEPT ![l] = IdentityOf(m)],
               Goto(l, IF NonceOf(m) = l THEN "rollback" ELSE "unlink")
        PROVE  DurableInv'
    <3>1. IdentityOf(m) \in Identities
      BY <1>1, <2>4, IdentityOfLive
    <3>2. /\ meta' \in [Launches -> Identities \cup {Unset}]
          /\ meta'[l] \in Identities
          /\ \A x \in Launches \ {l} : meta'[x] = meta[x]
      BY <1>2, <2>4, <3>1
    <3>3. PICK to \in {"rollback", "unlink"} : Goto(l, to)
      BY <2>4
    <3> QED
      BY <1>2, <2>1, <3>2, <3>3, ControllerBookkeeping DEF LaunchStates
  <2> QED
    BY <1>8, <2>2, <2>3, <2>4 DEF RollbackLookup
<1>9. CASE RollbackKill(l)
  <2> DEFINE c == [op |-> "kill", of |-> meta[l]]
  <2>1. PICK outcome \in {"ack", "error"} : Send(c, Guarded(meta[l]) = {}, outcome)
    BY <1>9 DEF RollbackKill
  <2>2. c \in Commands /\ c.op # "release"
    BY <1>1, <1>9 DEF RollbackKill, ControllerOK, Commands
  <2>3. Goto(l, "unlink") /\ CommandFrame /\ UNCHANGED <<storeVars, meta, sealed>>
    BY <1>9 DEF RollbackKill
  <2> HIDE DEF c
  <2> QED
    BY <2>1, <2>2, <2>3, ControllerCommand DEF LaunchStates
<1>10. CASE FailRecord(l)
  <2>1. /\ Goto(l, "failed")
        /\ UNCHANGED <<hostVars, expired, seen, listing, meta, sealed>>
        /\ record' \in [Launches -> RecordShape]
    BY <1>2, <1>10 DEF FailRecord, Unlink, Absent, RecordShape
  <2> QED
    BY <1>2, <2>1, ControllerBookkeeping DEF LaunchStates
<1>11. CASE ControllerCrashes(l)
  BY <1>2, <1>11, ControllerBookkeeping DEF ControllerCrashes, storeVars, LaunchStates
<1> QED
  BY <1>3, <1>4, <1>5, <1>6, <1>7, <1>8, <1>9, <1>10, <1>11 DEF Controller

-----------------------------------------------------------------------------
(* A step of the bootstrap, from what it does to the host.                   *)
LEMMA BootstrapParts ==
  ASSUME DurableInv, ServerOK', LateOK', WorkloadOK',
         workload' \in [Launches -> {"none", "running"}],
         UNCHANGED <<name, kind, tampered, second, restarted>>,
         UNCHANGED <<storeVars, launchVars, killVars>>
  PROVE  DurableInv'
<1>1. UNCHANGED <<record, expired, seen, listing, lpc, meta, sealed, kpc, target,
                  teardown>>
  BY DEF storeVars, launchVars, killVars
<1>2. HostTypeOK /\ StoreTypeOK /\ LaunchTypeOK /\ KillTypeOK /\ ControllerOK /\ RemovalOK
  BY DurableInvParts DEF TypeOK
<1>3. HostTypeOK'
  BY <1>2 DEF HostTypeOK, ServerOK, LateOK
<1>4. (StoreTypeOK /\ LaunchTypeOK /\ KillTypeOK /\ ControllerOK /\ RemovalOK)'
  BY <1>1, <1>2 DEF StoreTypeOK, LaunchTypeOK, KillTypeOK, ControllerOK, RemovalOK
<1> QED
  BY <1>3, <1>4, DurableInvNext DEF TypeOK

(* The bootstrap's steps: it execs only when woken, and was woken sealed.     *)
LEMMA BootstrapStepOK ==
  ASSUME HostAssumption, DurableInv, NEW l \in Launches, Bootstrap(l),
         UNCHANGED killVars
  PROVE  DurableInv'
<1>1. /\ HostTypeOK /\ ServerOK /\ LateOK /\ WorkloadOK
      /\ workload \in [Launches -> {"none", "running"}]
      /\ pane \in [Launches -> PaneStates]
  BY DurableInvParts DEF TypeOK, HostTypeOK
<1>2. /\ UNCHANGED <<name, kind, tampered, second, restarted>>
      /\ UNCHANGED <<storeVars, launchVars>>
      /\ UNCHANGED sealed
  BY DEF Bootstrap, ExecAgent, WaitFails, BootstrapLookup, BootstrapKill,
         CommandFrame, launchVars, storeVars
<1>3. CASE ExecAgent(l)
  <2>1. UNCHANGED <<terminal, nextId, late>> /\ pane[l] = "woken" /\ Exec(l)
    BY <1>3 DEF ExecAgent
  <2>2. l \in sealed /\ Live(l)
    BY <1>1, <2>1 DEF ServerOK, PaneHasSession
  <2>3. ServerOK' /\ LateOK'
    BY <1>1, <1>2, <2>1, <2>2 DEF Exec, ServerOK, LateOK, PaneHasSession, Live,
                                  PaneStates
  <2>4. WorkloadOK' /\ workload' \in [Launches -> {"none", "running"}]
    BY <1>1, <1>2, <2>1, <2>2 DEF Exec, WorkloadOK
  <2> QED
    BY <1>2, <2>3, <2>4, BootstrapParts
<1>4. CASE WaitFails(l) \/ BootstrapLookup(l)
  <2>1. /\ UNCHANGED <<terminal, nextId, late, workload>> /\ pane[l] # "none"
        /\ \E to \in {"giveup", "cleaning", "dead"} : pane' = [pane EXCEPT ![l] = to]
    BY <1>4 DEF WaitFails, BootstrapLookup
  <2>2. ServerOK' /\ LateOK' /\ WorkloadOK'
    BY <1>1, <1>2, <2>1 DEF ServerOK, LateOK, WorkloadOK, PaneHasSession, Live,
                            PaneStates
  <2> QED
    BY <1>1, <1>2, <2>1, <2>2, BootstrapParts
<1>5. CASE BootstrapKill(l)
  <2> DEFINE own == [IdentityOf(l) EXCEPT !.nonce = l]
             c == [op |-> "kill", of |-> own]
  <2>1. pane[l] = "cleaning" /\ UNCHANGED workload
    BY <1>5 DEF BootstrapKill, CommandFrame
  <2>2. Live(l)
    BY <1>1, <2>1 DEF ServerOK, PaneHasSession
  <2>3. c \in Commands /\ c.op # "release"
    BY <1>1, <2>2, IdentityOfLive DEF Identities, Commands
  <2>4. WorkloadOK'
    BY <1>1, <1>2, <2>1 DEF WorkloadOK
  <2>5. CASE EndSessions({l}) /\ UNCHANGED late
    BY <1>1, <1>2, <2>1, <2>4, <2>5, EndSessionsOK, BootstrapParts DEF LateOK
  <2>6. CASE /\ pane' = [pane EXCEPT ![l] = "dead"]
             /\ late' \in {late, late \cup {c}}
             /\ UNCHANGED <<terminal, nextId>>
    <3> HIDE DEF c
    <3>1. ServerOK' /\ LateOK'
      BY <1>1, <1>2, <2>1, <2>2, <2>3, <2>6 DEF ServerOK, LateOK, PaneHasSession,
                                                Live, PaneStates
    <3> QED
      BY <1>1, <1>2, <2>1, <2>4, <3>1, BootstrapParts
  <2> QED
    BY <1>5, <2>5, <2>6 DEF BootstrapKill
<1> QED
  BY <1>3, <1>4, <1>5 DEF Bootstrap

-----------------------------------------------------------------------------
(* A removal's step that leaves the server and the launches alone.            *)
LEMMA RemovalParts ==
  ASSUME DurableInv, NEW k \in Killers, NEW to \in KillStates, To(k, to),
         KillTypeOK', RemovalOK',
         UNCHANGED <<name, kind, terminal, pane, tampered, nextId, second, late,
                     restarted, expired, seen, listing, launchVars>>,
         record' \in [Launches -> RecordShape],
         workload' \in [Launches -> {"none", "running"}],
         \A l \in Launches : workload'[l] = "running" => workload[l] = "running"
  PROVE  DurableInv'
<1>1. UNCHANGED <<lpc, meta, sealed>>
  BY DEF launchVars
<1>2. /\ HostTypeOK /\ StoreTypeOK /\ LaunchTypeOK
      /\ ServerOK /\ LateOK /\ ControllerOK /\ WorkloadOK
  BY DurableInvParts DEF TypeOK
<1>3. HostTypeOK' /\ StoreTypeOK' /\ LaunchTypeOK'
  BY <1>1, <1>2 DEF HostTypeOK, StoreTypeOK, LaunchTypeOK
<1>4. ServerOK' /\ LateOK' /\ ControllerOK' /\ WorkloadOK'
  BY <1>1, <1>2 DEF ServerOK, LateOK, ControllerOK, WorkloadOK, PaneHasSession, Live
<1> QED
  BY <1>3, <1>4, DurableInvNext DEF TypeOK

(* A removal's steps.                                                        *)
LEMMA KillStepOK ==
  ASSUME HostAssumption, DurableInv, KillStep
  PROVE  DurableInv'
<1>1. /\ HostTypeOK /\ StoreTypeOK /\ LaunchTypeOK /\ KillTypeOK /\ RemovalOK
      /\ ServerOK /\ LateOK /\ WorkloadOK /\ ControllerOK
      /\ Rows \subseteq Identities
  BY DurableInvParts, RowsTyped DEF TypeOK
<1>2. /\ kpc \in [Killers -> KillStates]
      /\ target \in [Killers -> Identities \cup {Unset}]
      /\ record \in [Launches -> RecordShape]
      /\ workload \in [Launches -> {"none", "running"}]
      /\ UNCHANGED <<launchVars, lpc, meta, sealed>>
  BY <1>1 DEF KillTypeOK, StoreTypeOK, HostTypeOK, KillStep, launchVars
<1>3. PICK k \in Killers : Request(k) \/ Removal(k) \/ Interrupted(k)
  BY DEF KillStep, KillNext
<1>4. ASSUME NEW to \in KillStates, To(k, to), At(k, "idle") => to = "idle",
             UNCHANGED target, teardown' \in [Killers -> {"none", "stop", "skip"}],
             UNCHANGED <<hostVars, storeVars>>
      PROVE  DurableInv'
  <2>1. UNCHANGED <<name, kind, terminal, pane, tampered, nextId, second, late,
                    workload, restarted, record, expired, seen, listing>>
    BY <1>4 DEF hostVars, storeVars
  <2>2. KillTypeOK' /\ RemovalOK'
    BY <1>1, <1>2, <1>4 DEF KillTypeOK, RemovalOK, To, At
  <2> QED
    BY <1>2, <1>4, <2>1, <2>2, RemovalParts
<1>5. CASE Request(k)
  <2>1. PICK r \in Rows : target' = [target EXCEPT ![k] = r]
    BY <1>5 DEF Request
  <2>2. /\ To(k, "authority") /\ "authority" \in KillStates /\ UNCHANGED teardown
        /\ UNCHANGED <<hostVars, storeVars>>
    BY <1>5 DEF Request, KillStates
  <2>3. KillTypeOK' /\ RemovalOK'
    BY <1>1, <1>2, <2>1, <2>2 DEF KillTypeOK, RemovalOK, To
  <2>4. UNCHANGED <<name, kind, terminal, pane, tampered, nextId, second, late,
                    workload, restarted, record, expired, seen, listing>>
    BY <2>2 DEF hostVars, storeVars
  <2> QED
    BY <1>2, <2>2, <2>3, <2>4, RemovalParts
<1>6. CASE TakeAuthority(k)
  <2>1. \A l \in Launches : Preparations(l) \subseteq {"none", "stop", "skip"}
    BY <1>1 DEF Preparations, HostTypeOK, HostAssumption, RuntimeKinds
  <2>2. teardown' \in [Killers -> {"none", "stop", "skip"}]
    BY <1>1, <1>6, <2>1 DEF TakeAuthority, Verified, KillTypeOK
  <2>3. /\ UNCHANGED <<hostVars, storeVars>> /\ UNCHANGED target
        /\ kpc[k] # "idle"
        /\ \E to \in {"prove", "refused"} : To(k, to)
    BY <1>6 DEF TakeAuthority, At
  <2> QED
    BY <1>4, <2>2, <2>3 DEF KillStates, At
<1>7. CASE ProveBeforeKill(k) \/ ProveAfterKill(k) \/ ProveBeforeCleanup(k)
  <2>1. /\ UNCHANGED <<hostVars, storeVars>> /\ UNCHANGED <<target, teardown>>
        /\ kpc[k] # "idle"
        /\ \E to \in {"kill", "finish", "refused", "record", "retained"} : To(k, to)
    BY <1>7 DEF ProveBeforeKill, ProveAfterKill, ProveBeforeCleanup, At, ExactIdentity
  <2> QED
    BY <1>1, <1>4, <2>1 DEF KillStates, At, KillTypeOK
<1>8. CASE RereadRecord(k)
  <2>1. /\ UNCHANGED <<hostVars, storeVars>> /\ UNCHANGED <<target, teardown>>
        /\ kpc[k] # "idle"
        /\ \E to \in {"delete", "resolve", "removed", "retained"} : To(k, to)
    BY <1>1, <1>8 DEF RereadRecord, At, KillTypeOK
  <2> QED
    BY <1>1, <1>4, <2>1 DEF KillStates, At, KillTypeOK
<1>9. CASE ResolveRuntime(k) \/ Interrupted(k)
  <2>1. /\ UNCHANGED <<hostVars, storeVars>> /\ UNCHANGED <<target, teardown>>
        /\ kpc[k] # "idle"
        /\ \E to \in {"stop", "retained", "interrupted"} : To(k, to)
    BY <1>9 DEF ResolveRuntime, Interrupted, At
  <2> QED
    BY <1>1, <1>4, <2>1 DEF KillStates, At, KillTypeOK
<1>10. CASE ConditionalKill(k)
  <2> DEFINE c == [op |-> "kill", of |-> target[k]]
  <2>1. PICK outcome \in {"ack", "error"} : Send(c, Guarded(target[k]) = {}, outcome)
    BY <1>10 DEF ConditionalKill
  <2>2. /\ kpc[k] = "kill" /\ To(k, "recheck")
        /\ UNCHANGED <<name, kind, tampered, second, workload, restarted, storeVars,
                       target, teardown>>
    BY <1>10 DEF ConditionalKill, At
  <2>3. c \in Commands /\ c.op # "release"
    BY <1>1, <2>2 DEF RemovalOK, Commands
  <2>4. UNCHANGED <<record, expired, seen, listing>>
    BY <2>2 DEF storeVars
  <2> HIDE DEF c
  <2>5. ServerOK' /\ LateOK'
    BY <1>1, <1>2, <2>1, <2>3, SendOK DEF LaunchTypeOK
  <2>6. WorkloadOK' /\ ControllerOK' /\ RemovalOK'
    BY <1>1, <1>2, <2>2 DEF WorkloadOK, ControllerOK, RemovalOK, To
  <2>7. HostTypeOK' /\ StoreTypeOK' /\ LaunchTypeOK'
    BY <1>1, <1>2, <2>2, <2>4, <2>5 DEF HostTypeOK, StoreTypeOK, LaunchTypeOK,
                                        ServerOK, LateOK
  <2>8. KillTypeOK'
    BY <1>1, <2>2 DEF KillTypeOK, To, KillStates
  <2> QED
    BY <2>5, <2>6, <2>7, <2>8, DurableInvNext DEF TypeOK
<1>11. CASE StopWorkload(k)
  <2>1. /\ kpc[k] # "idle" /\ UNCHANGED <<target, teardown>>
        /\ UNCHANGED <<name, kind, terminal, pane, tampered, nextId, second, late,
                       restarted, record, expired, seen, listing>>
        /\ workload' \in {workload, [workload EXCEPT ![target[k].nonce] = "none"]}
    BY <1>11 DEF StopWorkload, At, storeVars
  <2>2. PICK to \in {"delete", "retained"} : To(k, to)
    BY <1>11 DEF StopWorkload
  <2>3. /\ workload' \in [Launches -> {"none", "running"}]
        /\ \A l \in Launches : workload'[l] = "running" => workload[l] = "running"
    BY <1>2, <2>1
  <2>4. KillTypeOK' /\ RemovalOK'
    BY <1>1, <2>1, <2>2 DEF KillTypeOK, RemovalOK, To, KillStates
  <2> QED
    BY <1>2, <2>1, <2>2, <2>3, <2>4, RemovalParts DEF KillStates
<1>12. CASE DeleteRecord(k)
  <2>1. /\ kpc[k] # "idle"
        /\ UNCHANGED <<hostVars, expired, seen, listing, target, teardown>>
        /\ record' \in [Launches -> RecordShape]
    BY <1>2, <1>12 DEF DeleteRecord, At, Unlink, Absent, RecordShape
  <2>2. PICK to \in {"removed", "retained"} : To(k, to)
    BY <1>12 DEF DeleteRecord
  <2>3. UNCHANGED <<name, kind, terminal, pane, tampered, nextId, second, late,
                    workload, restarted>>
    BY <2>1 DEF hostVars
  <2>4. KillTypeOK' /\ RemovalOK'
    BY <1>1, <2>1, <2>2 DEF KillTypeOK, RemovalOK, To, KillStates
  <2> QED
    BY <1>2, <2>1, <2>2, <2>3, <2>4, RemovalParts DEF KillStates
<1> QED
  BY <1>3, <1>5, <1>6, <1>7, <1>8, <1>9, <1>10, <1>11, <1>12 DEF Removal

-----------------------------------------------------------------------------
(* Enumerations, and the passing of retention, touch the store alone.         *)
LEMMA StoreStepOK ==
  ASSUME DurableInv, StoreTypeOK', UNCHANGED <<hostVars, launchVars, killVars>>
  PROVE  DurableInv'
<1>1. UNCHANGED <<name, kind, terminal, pane, tampered, nextId, second, late,
                  workload, restarted, lpc, meta, sealed, kpc, target, teardown>>
  BY DEF hostVars, launchVars, killVars
<1>2. /\ HostTypeOK /\ LaunchTypeOK /\ KillTypeOK
      /\ ServerOK /\ LateOK /\ ControllerOK /\ RemovalOK /\ WorkloadOK
  BY DurableInvParts DEF TypeOK
<1>3. (HostTypeOK /\ LaunchTypeOK /\ KillTypeOK)'
  BY <1>1, <1>2 DEF HostTypeOK, LaunchTypeOK, KillTypeOK
<1>4. (ServerOK /\ LateOK /\ ControllerOK /\ RemovalOK /\ WorkloadOK)'
  BY <1>1, <1>2 DEF ServerOK, LateOK, ControllerOK, RemovalOK, WorkloadOK,
                    PaneHasSession, Live
<1> QED
  BY <1>3, <1>4, DurableInvNext DEF TypeOK

(* The steps of listers and of the clock that ages records.                  *)
LEMMA ListStepOK ==
  ASSUME DurableInv, ListStep \/ ExpireStep
  PROVE  DurableInv'
<1>1. StoreTypeOK /\ HostTypeOK /\ UNCHANGED <<hostVars, launchVars, killVars>>
  BY DurableInvParts DEF TypeOK, ListStep, ExpireStep
<1>2. \A r \in Rows : r.nonce \in Launches \cup {Foreign}
  BY <1>1, RowsTyped DEF Identities
<1>3. ASSUME NEW g \in Listers, ListSessions(g)  PROVE StoreTypeOK'
  BY <1>1, <1>2, <1>3 DEF ListSessions, StoreTypeOK
<1>4. ASSUME NEW g \in Listers, ListFails(g)  PROVE StoreTypeOK'
  BY <1>1, <1>4 DEF ListFails, StoreTypeOK
<1>5. ASSUME NEW g \in Listers, Collect(g)  PROVE StoreTypeOK'
  BY <1>1, <1>5 DEF Collect, StoreTypeOK, Absent, RecordShape
<1>6. ASSUME NEW l \in Launches, Expires(l, InFlight(l))  PROVE StoreTypeOK'
  BY <1>1, <1>6 DEF Expires, StoreTypeOK
<1>7. StoreTypeOK'
  BY <1>3, <1>4, <1>5, <1>6 DEF ListStep, ExpireStep
<1> QED
  BY <1>1, <1>7, StoreStepOK

-----------------------------------------------------------------------------
(* Every step keeps the invariant.                                           *)
LEMMA DurableInvStep ==
  ASSUME HostAssumption, DurableInv, [Next]_vars
  PROVE  DurableInv'
<1>1. CASE HostStep
  BY <1>1, HostStepOK
<1>2. CASE LaunchStep
  BY <1>2, ControllerStepOK, BootstrapStepOK DEF LaunchStep, LaunchNext
<1>3. CASE KillStep
  BY <1>3, KillStepOK
<1>4. CASE ListStep \/ ExpireStep
  BY <1>4, ListStepOK
<1>5. CASE UNCHANGED vars
  <2>1. StoreTypeOK'
    BY <1>5, DurableInvParts DEF vars, storeVars, TypeOK, StoreTypeOK
  <2> QED
    BY <1>5, <2>1, StoreStepOK DEF vars
<1> QED
  BY <1>1, <1>2, <1>3, <1>4, <1>5 DEF Next

(* The invariant holds throughout.                                           *)
THEOREM DurableInvariant == Spec => []DurableInv
<1>1. Init => DurableInv
  BY HostAssumption, DurableInvInit
<1>2. DurableInv /\ [Next]_vars => DurableInv'
  BY HostAssumption, DurableInvStep
<1> QED
  BY <1>1, <1>2, PTL DEF Spec

(* Every variable keeps its type.                                            *)
THEOREM TypeCorrect == Spec => []TypeOK
<1>1. DurableInv => TypeOK
  BY DEF DurableInv
<1> QED
  BY <1>1, DurableInvariant, PTL

(* No agent and no workload ever runs for a launch whose record was not       *)
(* finalized first, whatever crashes, times out or arrives late.             *)
THEOREM ExecIsDurable == Spec => []DurableBeforeExec
<1>1. DurableInv => DurableBeforeExec
  BY DEF DurableInv
<1> QED
  BY <1>1, DurableInvariant, PTL

-----------------------------------------------------------------------------
(* Ownership: the second invariant, over the first one's types, and the two   *)
(* properties it carries.                                                    *)

\* What every step does to a session: it may end it, but never moves it, and
\* creates it only when its launch's one creation is spent on it.
TerminalStep ==
  \A l \in Launches :
    /\ Spent(l) => Spent(l)' /\ (Live(l)' => Live(l) /\ terminal'[l] = terminal[l])
    /\ Live(l)' => Spent(l)'
    /\ CreateOf(l) \in late' => lpc'[l] \notin Uncreated

-----------------------------------------------------------------------------
(* Commands and what they do to sessions.                                   *)

(* Only a creation brings a session about, and only its own launch's.        *)
LEMMA EffectCreates ==
  ASSUME HostTypeOK, NEW c \in Commands, Effect(c), NEW l \in Launches, Live(l)'
  PROVE  c = CreateOf(l) \/ (Live(l) /\ terminal'[l] = terminal[l])
<1>1. CASE c.op = "create"
  <2>1. CreateEffect(c.nonce)
    BY <1>1 DEF Effect
  <2>2. c.nonce \in Launches /\ c = CreateOf(c.nonce)
    BY <1>1 DEF Commands, CreateOf
  <2>3. CASE l # c.nonce
    BY <2>1, <2>2, <2>3 DEF CreateEffect, HostTypeOK, Live
  <2> QED
    BY <2>2, <2>3
<1>2. CASE c.op = "release"
  BY <1>2 DEF Effect, ReleaseEffect, Live
<1>3. CASE c.op = "kill"
  BY <1>3 DEF Effect, KillEffect, EndSessions, Live
<1> QED
  BY <1>1, <1>2, <1>3 DEF Commands

(* Only a kill ends one, and only the session of the nonce it carries.        *)
LEMMA EffectEnds ==
  ASSUME HostAssumption, HostTypeOK, NEW c \in Commands, Effect(c),
         c.op = "kill" => c.of.nonce \in Launches,
         NEW m \in Launches, Live(m), ~Live(m)'
  PROVE  c.op = "kill" /\ c.of.nonce = m
<1>1. CASE c.op = "create"
  <2>1. CreateEffect(c.nonce)
    BY <1>1 DEF Effect
  <2>2. [id |-> nextId, created |-> second] # Unset
    BY DEF HostTypeOK, HostAssumption
  <2> QED
    BY <2>1, <2>2 DEF CreateEffect, HostTypeOK, Live
<1>2. CASE c.op = "release"
  BY <1>2 DEF Effect, ReleaseEffect, Live
<1>3. CASE c.op = "kill"
  <2>1. c.of \in Identities /\ EndSessions(Guarded(c.of))
    BY <1>3 DEF Effect, KillEffect, Commands
  <2>2. m \in Guarded(c.of)
    BY <2>1 DEF EndSessions, Live
  <2> QED
    BY <1>3, <2>1, <2>2, GuardedIsOwn
<1> QED
  BY <1>1, <1>2, <1>3 DEF Commands

(* A client's command runs now, or may run later, but not both.               *)
LEMMA SendParts ==
  ASSUME NEW c, NEW refused, NEW outcome, Send(c, refused, outcome)
  PROVE  \/ Effect(c) /\ late' = late
         \/ late' \in {late, late \cup {c}} /\ terminal' = terminal
BY DEF Send

(* Ending sessions brings none about.                                        *)
LEMMA EndSessionsCreatesNone ==
  ASSUME NEW S, EndSessions(S), NEW l \in Launches, Live(l)'
  PROVE  Live(l) /\ terminal'[l] = terminal[l]
BY DEF EndSessions, Live

-----------------------------------------------------------------------------
(* A step that creates nothing, and sends no creation, is a TerminalStep.     *)
LEMMA QuietStep ==
  ASSUME CreatedOnce,
         \A l \in Launches : Live(l)' => Live(l) /\ terminal'[l] = terminal[l],
         \A c \in late' : c.op = "create" => c \in late,
         \A l \in Launches : lpc'[l] \in Uncreated =>
                                lpc[l] \in Uncreated
  PROVE  TerminalStep
<1>1. \A l \in Launches : CreateOf(l).op = "create" /\ CreateOf(l)' = CreateOf(l)
  BY DEF CreateOf
<1> QED
  BY <1>1 DEF TerminalStep, CreatedOnce, Uncreated, Spent

(* The host's own steps.                                                     *)
LEMMA HostTerminalStep ==
  ASSUME HostAssumption, DurableInv, CreatedOnce, HostStep
  PROVE  TerminalStep
<1>1. HostTypeOK
  BY DEF DurableInv, TypeOK
<1>2. UNCHANGED lpc
  BY DEF HostStep, launchVars
<1>3. ASSUME UNCHANGED late,
             \A l \in Launches : Live(l)' => Live(l) /\ terminal'[l] = terminal[l]
      PROVE  TerminalStep
  BY <1>2, <1>3, QuietStep
<1>4. ASSUME NEW c \in late, LateCommand(c)  PROVE TerminalStep
  <2>1. Effect(c) /\ late' = late \ {c} /\ c \in Commands
    BY <1>1, <1>4 DEF LateCommand, HostTypeOK
  <2>2. ASSUME NEW l \in Launches, c = CreateOf(l)
        PROVE  ~Spent(l) /\ Spent(l)'
    BY <1>2, <2>1, <2>2 DEF CreatedOnce, Uncreated, Spent, CreateOf
  <2>3. \A l \in Launches : CreateOf(l)' = CreateOf(l)
    BY DEF CreateOf
  <2>4. ASSUME NEW l \in Launches  PROVE Spent(l) => Spent(l)'
    BY <1>2, <2>1, <2>3 DEF Spent, Uncreated
  <2>5. ASSUME NEW l \in Launches, Live(l)'
        PROVE  c = CreateOf(l) \/ (Live(l) /\ terminal'[l] = terminal[l])
    BY <1>1, <2>1, <2>5, EffectCreates
  <2>6. \A l \in Launches : CreateOf(l) \in late' => lpc'[l] \notin Uncreated
    BY <1>2, <2>1, <2>3 DEF CreatedOnce, Uncreated
  <2> QED
    BY <2>2, <2>4, <2>5, <2>6 DEF TerminalStep, CreatedOnce, Uncreated
<1>5. ASSUME NEW l \in Launches, AgentExits(l)  PROVE TerminalStep
  BY <1>3, <1>5, EndSessionsCreatesNone DEF AgentExits, Live
<1>6. ASSUME NEW S, SessionsEnd(S)  PROVE TerminalStep
  BY <1>3, <1>6, EndSessionsCreatesNone DEF SessionsEnd
<1>7. ASSUME NEW l \in Launches, Tamper(l) \/ RuntimeRestarts(l)  PROVE TerminalStep
  BY <1>3, <1>7 DEF Tamper, RuntimeRestarts, Live
<1>8. ASSUME Tick  PROVE TerminalStep
  BY <1>3, <1>8 DEF Tick, Live
<1> QED
  BY <1>4, <1>5, <1>6, <1>7, <1>8 DEF HostStep, HostNext

(* A launch's.  Its creation is spent as it is sent, run or not.              *)
LEMMA LaunchTerminalStep ==
  ASSUME HostAssumption, DurableInv, CreatedOnce, LaunchStep
  PROVE  TerminalStep
<1>1. /\ HostTypeOK /\ LaunchTypeOK
      /\ \A l \in Launches : CreateOf(l) \in Commands /\ CreateOf(l).op = "create"
      /\ \A l \in Launches : CreateOf(l)' = CreateOf(l)
  BY DEF DurableInv, TypeOK, CreateOf, Commands
<1>2. PICK l \in Launches : Controller(l) \/ ControllerCrashes(l) \/ Bootstrap(l)
  BY DEF LaunchStep, LaunchNext
<1>3. CASE CreateSession(l)
  <2>1. PICK outcome \in {"ack", "error"} :
          /\ Send(CreateOf(l), NameTaken(name[l]), outcome)
          /\ Goto(l, IF outcome = "ack" THEN "query" ELSE "lookup")
    BY <1>3 DEF CreateSession, CreateOf
  <2>2. /\ lpc[l] = "create" /\ lpc'[l] \notin Uncreated
        /\ \A m \in Launches \ {l} : lpc'[m] = lpc[m]
    BY <1>1, <1>3, <2>1 DEF CreateSession, Goto, LaunchTypeOK, Uncreated
  <2>3. ~Live(l) /\ CreateOf(l) \notin late
    BY <2>2 DEF CreatedOnce, Uncreated, Spent
  <2>4. \A m \in Launches \ {l} : CreateOf(m) # CreateOf(l)
    BY DEF CreateOf
  <2>5. CASE Effect(CreateOf(l)) /\ late' = late
    <3>1. \A m \in Launches \ {l} : Live(m)' => Live(m) /\ terminal'[m] = terminal[m]
      BY <1>1, <2>4, <2>5, EffectCreates
    <3>2. \A m \in Launches \ {l} : Spent(m) => Spent(m)'
      BY <1>1, <2>2, <2>5 DEF Spent, Uncreated
    <3>3. ~Spent(l) /\ Spent(l)'
      BY <1>1, <2>2, <2>3, <2>5 DEF Spent, Uncreated
    <3> QED
      BY <1>1, <2>2, <2>3, <2>5, <3>1, <3>2, <3>3 DEF TerminalStep, CreatedOnce, Uncreated
  <2>6. CASE late' \in {late, late \cup {CreateOf(l)}} /\ terminal' = terminal
    <3>1. \A m \in Launches \ {l} : Spent(m) => Spent(m)'
      BY <1>1, <2>2, <2>4, <2>6 DEF Spent, Uncreated
    <3>2. ~Spent(l) /\ ~Live(l)'
      BY <2>2, <2>3, <2>6 DEF Spent, Uncreated, Live
    <3> QED
      BY <1>1, <2>2, <2>4, <2>6, <3>1, <3>2 DEF TerminalStep, CreatedOnce, Uncreated, Live
  <2> QED
    BY <2>1, <2>5, <2>6, SendParts
<1>4. CASE ReleaseBootstrap(l) \/ RollbackKill(l)
  <2>1. PICK c, refused, outcome :
          /\ Send(c, refused, outcome) /\ c.op \in {"release", "kill"}
          /\ c = [op |-> c.op, of |-> meta[l]]
    BY <1>4 DEF ReleaseBootstrap, RollbackKill
  <2>2. c \in Commands
    BY <1>4, <2>1 DEF DurableInv, IdentityKnown, ReleaseBootstrap, RollbackKill, Commands
  <2>3. \A m \in Launches : lpc'[m] \in Uncreated =>
                              lpc[m] \in Uncreated
    BY <1>1, <1>4 DEF ReleaseBootstrap, RollbackKill, Goto, LaunchTypeOK, Uncreated
  <2>4. \A m \in Launches : Live(m)' => Live(m) /\ terminal'[m] = terminal[m]
    BY <1>1, <2>1, <2>2, SendParts, EffectCreates DEF Live
  <2>5. \A d \in late' : d.op = "create" => d \in late
    BY <2>1, SendParts
  <2> QED
    BY <2>3, <2>4, <2>5, QuietStep
<1>5. CASE \/ CreatePendingRecord(l) \/ WritePendingRecord(l) \/ QuerySession(l) \/ FinalizeRecord(l)
           \/ RollbackLookup(l) \/ FailRecord(l) \/ ControllerCrashes(l)
  <2>1. UNCHANGED <<terminal, late>>
    BY <1>5 DEF CreatePendingRecord, WritePendingRecord, Unlink, Torn, Pending, QuerySession,
         FinalizeRecord, RollbackLookup, FailRecord, ControllerCrashes, hostVars
  <2>2. /\ lpc[l] \in Uncreated
           \/ \E to \in LaunchStates \ Uncreated : Goto(l, to)
        /\ lpc[l] \in Uncreated => \E to \in LaunchStates : Goto(l, to)
    BY <1>1, <1>5 DEF CreatePendingRecord, WritePendingRecord, Unlink, Torn, Pending,
         QuerySession, FinalizeRecord, RollbackLookup, FailRecord, ControllerCrashes,
         LaunchStates, LaunchTypeOK, Uncreated
  <2>3. \A m \in Launches : lpc'[m] \in Uncreated =>
                              lpc[m] \in Uncreated
    BY <1>1, <2>2 DEF Goto, LaunchTypeOK
  <2> QED
    BY <2>1, <2>3, QuietStep DEF Live
<1>6. CASE Bootstrap(l)
  <2>1. UNCHANGED lpc
    BY <1>6 DEF Bootstrap, ExecAgent, WaitFails, BootstrapLookup, BootstrapKill,
                launchVars
  <2>2. \A m \in Launches : Live(m)' => Live(m) /\ terminal'[m] = terminal[m]
    BY <1>6, EndSessionsCreatesNone
       DEF Bootstrap, ExecAgent, WaitFails, BootstrapLookup, BootstrapKill, Live
  <2>3. \A d \in late' : d.op = "create" => d \in late
    BY <1>6 DEF Bootstrap, ExecAgent, WaitFails, BootstrapLookup, BootstrapKill
  <2> QED
    BY <2>1, <2>2, <2>3, QuietStep
<1> QED
  BY <1>2, <1>3, <1>4, <1>5, <1>6 DEF Controller

(* A removal's.                                                              *)
LEMMA KillTerminalStep ==
  ASSUME HostAssumption, DurableInv, CreatedOnce, KillStep
  PROVE  TerminalStep
<1>1. HostTypeOK /\ UNCHANGED lpc
  BY DEF DurableInv, TypeOK, KillStep, launchVars
<1>2. PICK k \in Killers : Request(k) \/ Removal(k) \/ Interrupted(k)
  BY DEF KillStep, KillNext
<1>3. CASE ConditionalKill(k)
  <2> DEFINE c == [op |-> "kill", of |-> target[k]]
  <2>1. PICK outcome : Send(c, Guarded(target[k]) = {}, outcome)
    BY <1>3 DEF ConditionalKill
  <2>2. c \in Commands
    BY <1>3 DEF DurableInv, IdentityKnown, ConditionalKill, At, Commands
  <2>3. c.op = "kill"
    OBVIOUS
  <2> HIDE DEF c
  <2>4. \A m \in Launches : Live(m)' => Live(m) /\ terminal'[m] = terminal[m]
    <3>1. \A m \in Launches : c # CreateOf(m)
      BY <2>3 DEF CreateOf
    <3> QED
      BY <1>1, <2>1, <2>2, <3>1, SendParts, EffectCreates DEF Live
  <2>5. \A d \in late' : d.op = "create" => d \in late
    BY <2>1, <2>3, SendParts
  <2> QED
    BY <1>1, <2>4, <2>5, QuietStep
<1>4. CASE ~ConditionalKill(k)
  <2>1. UNCHANGED <<terminal, late>>
    BY <1>2, <1>4 DEF Request, Removal, TakeAuthority, ProveBeforeKill, ProveAfterKill,
         ProveBeforeCleanup, RereadRecord, ResolveRuntime, StopWorkload, DeleteRecord,
         Interrupted, hostVars
  <2> QED
    BY <1>1, <2>1, QuietStep DEF Live
<1> QED
  BY <1>3, <1>4

(* And every step's.                                                         *)
LEMMA EveryTerminalStep ==
  ASSUME HostAssumption, DurableInv, CreatedOnce, [Next]_vars
  PROVE  TerminalStep
<1>1. CASE HostStep
  BY <1>1, HostTerminalStep
<1>2. CASE LaunchStep
  BY <1>2, LaunchTerminalStep
<1>3. CASE KillStep
  BY <1>3, KillTerminalStep
<1>4. CASE ListStep \/ ExpireStep \/ UNCHANGED vars
  <2>1. UNCHANGED <<terminal, late, lpc>>
    BY <1>4 DEF ListStep, ExpireStep, vars, hostVars, launchVars
  <2> QED
    BY <2>1, QuietStep DEF Live
<1> QED
  BY <1>1, <1>2, <1>3, <1>4 DEF Next

-----------------------------------------------------------------------------
(* The removals' part of the invariant.                                      *)

(* Proven absent, a captured session of a launch is gone.                     *)
LEMMA AbsentIsGone ==
  ASSUME HostAssumption, HostTypeOK, NEW e \in Identities, e.nonce \in Launches,
         "absent" \in ExactIdentity(e),
         Live(e.nonce) => terminal[e.nonce] = [id |-> e.id, created |-> e.created]
  PROVE  ~Live(e.nonce)
<1> SUFFICES ASSUME Live(e.nonce) PROVE FALSE
  OBVIOUS
<1> DEFINE r == IdentityOf(e.nonce)
<1>1. r \in Rows /\ r.id = e.id /\ r.created = e.created
  BY DEF Rows, IdentityOf
<1>2. CASE r.nonce = e.nonce
  <2>1. r = e
    BY <1>1, <1>2 DEF IdentityOf, Identities
  <2> QED
    BY <1>1, <2>1 DEF ExactIdentity
<1>3. CASE r.nonce # e.nonce
  BY <1>1, <1>3 DEF ExactIdentity
<1> QED
  BY <1>2, <1>3

(* A removal's target is a launch's own, and spent, as soon as it is captured. *)
LEMMA TargetStep ==
  ASSUME HostAssumption, DurableInv, CreatedOnce, TargetIsSpent, TerminalStep,
         NEW k \in Killers, UNCHANGED target, kpc[k] # "idle",
         target[k].nonce \in Launches
  PROVE  /\ Spent(target[k].nonce)'
         /\ Live(target[k].nonce)' =>
              /\ Live(target[k].nonce)
              /\ terminal'[target[k].nonce] = [id |-> target[k].id,
                                               created |-> target[k].created]
BY DEF TerminalStep, TargetIsSpent, Spent, Uncreated, Live

(* Steps that are not removals' leave removals where they are.                *)
LEMMA OtherSteps ==
  ASSUME HostAssumption, OwnershipInv, TerminalStep, UNCHANGED killVars
  PROVE  TargetIsSpent' /\ CleanupAfterTerminal'
<1>1. UNCHANGED <<kpc, target>> /\ DurableInv /\ CreatedOnce /\ TargetIsSpent
  BY DEF killVars, OwnershipInv
<1>2. TargetIsSpent'
  BY <1>1, TargetStep DEF TargetIsSpent, Spent, Uncreated
<1>3. CleanupAfterTerminal'
  BY <1>1, TargetStep DEF CleanupAfterTerminal, OwnershipInv, KillIsOwned
<1> QED
  BY <1>2, <1>3

(* A removal's step keeps its part: it reaches cleanup only by a proof.        *)
LEMMA RemovalSteps ==
  ASSUME HostAssumption, OwnershipInv, TerminalStep, KillStep
  PROVE  /\ TargetIsSpent' /\ CleanupAfterTerminal'
         /\ \A k \in Killers :
              kpc'[k] \notin {"idle", "authority", "refused", "interrupted"} =>
                target'[k].nonce \in Launches
<1>1. /\ DurableInv /\ CreatedOnce /\ TargetIsSpent /\ KillIsOwned
      /\ CleanupAfterTerminal /\ HostTypeOK /\ KillTypeOK /\ IdentityKnown
  BY DEF OwnershipInv, DurableInv, TypeOK
<1>2. PICK k \in Killers : Request(k) \/ Removal(k) \/ Interrupted(k)
  BY DEF KillStep, KillNext
<1>3. CASE Request(k)
  <2>1. PICK l \in Launches : Live(l) /\ target' = [target EXCEPT ![k] = IdentityOf(l)]
    BY <1>3 DEF Request, Rows
  <2>2. /\ kpc' = [kpc EXCEPT ![k] = "authority"] /\ kpc[k] = "idle"
        /\ UNCHANGED <<terminal, late, lpc>>
    BY <1>3 DEF Request, At, To, hostVars, KillStep, launchVars
  <2>3. target'[k].nonce \in Launches =>
          /\ target'[k].nonce = l /\ Spent(l)'
          /\ terminal'[l] = [id |-> target'[k].id, created |-> target'[k].created]
    <3>1. target'[k] = IdentityOf(l)
      BY <1>1, <2>1 DEF KillTypeOK
    <3>2. IdentityOf(l).nonce \in Launches => IdentityOf(l).nonce = l
      BY DEF IdentityOf, NonceOf, HostAssumption
    <3>3. terminal[l] = [id |-> IdentityOf(l).id, created |-> IdentityOf(l).created]
      BY <1>1, <2>1 DEF IdentityOf, HostTypeOK, Live
    <3>4. Spent(l)'
      BY <1>1, <2>1, <2>2 DEF CreatedOnce, Uncreated, TerminalStep
    <3> QED
      BY <2>2, <3>1, <3>2, <3>3, <3>4
  <2>4. \A j \in Killers \ {k} : kpc'[j] = kpc[j] /\ target'[j] = target[j]
    BY <1>1, <2>1, <2>2 DEF KillTypeOK
  <2>5. kpc'[k] = "authority"
    BY <1>1, <2>2 DEF KillTypeOK
  <2>6. TargetIsSpent'
    <3>1. ASSUME NEW j \in Killers, kpc'[j] # "idle",
                 NEW m \in Launches, m = target'[j].nonce
          PROVE  /\ lpc'[m] \notin Uncreated /\ CreateOf(m) \notin late'
                 /\ terminal'[m] # Unset =>
                      terminal'[m] = [id |-> target'[j].id,
                                      created |-> target'[j].created]
      <4>1. CASE j = k
        BY <2>2, <2>3, <3>1, <4>1 DEF Spent, Uncreated, CreateOf
      <4>2. CASE j # k
        <5>1. kpc[j] # "idle" /\ target[j].nonce = m /\ target'[j] = target[j]
          BY <2>4, <3>1, <4>2
        <5> QED
          BY <1>1, <2>2, <5>1 DEF TargetIsSpent, Spent, Uncreated, Live
      <4> QED
        BY <4>1, <4>2
    <3> QED
      BY <3>1 DEF TargetIsSpent, Spent, Uncreated, Live, CreateOf
  <2>7. CleanupAfterTerminal'
    BY <1>1, <2>2, <2>4, <2>5 DEF CleanupAfterTerminal, Live
  <2> QED
    BY <1>1, <2>4, <2>5, <2>6, <2>7 DEF KillIsOwned
<1>4. CASE Removal(k) \/ Interrupted(k)
  <2>1. /\ UNCHANGED target /\ kpc[k] # "idle"
        /\ \E to \in KillStates \ {"idle"} : To(k, to)
    BY <1>1, <1>4 DEF Removal, TakeAuthority, ProveBeforeKill, ConditionalKill,
         ProveAfterKill, ProveBeforeCleanup, RereadRecord, ResolveRuntime, StopWorkload,
         DeleteRecord, Interrupted, At, KillStates, KillTypeOK, ExactIdentity
  <2>2. PICK to \in KillStates \ {"idle"} : kpc' = [kpc EXCEPT ![k] = to]
    BY <2>1 DEF To
  <2>3. kpc'[k] = to /\ \A j \in Killers \ {k} : kpc'[j] = kpc[j]
    BY <1>1, <2>2 DEF KillTypeOK
  <2>4. TargetIsSpent'
    BY <1>1, <2>1, <2>3, TargetStep DEF TargetIsSpent, Spent, Uncreated
  <2>5. to \notin {"authority", "refused", "interrupted"} => target[k].nonce \in Launches
    <3>1. CASE TakeAuthority(k)
      BY <1>1, <2>3, <3>1 DEF TakeAuthority, Verified, To, KillTypeOK
    <3>2. CASE Interrupted(k)
      BY <1>1, <2>3, <3>2 DEF Interrupted, To, KillTypeOK
    <3>3. CASE ~TakeAuthority(k) /\ ~Interrupted(k)
      <4>1. kpc[k] \notin {"idle", "authority", "refused", "interrupted"}
        BY <1>4, <3>3 DEF Removal, ProveBeforeKill, ConditionalKill,
             ProveAfterKill, ProveBeforeCleanup, RereadRecord, ResolveRuntime,
             StopWorkload, DeleteRecord, At
      <4> QED
        BY <1>1, <4>1 DEF KillIsOwned
    <3> QED
      BY <3>1, <3>2, <3>3
  <2>6. to \in {"record", "resolve", "stop", "delete", "removed"} =>
          ~Live(target[k].nonce) /\ target[k].nonce \in Launches
    <3> SUFFICES ASSUME to \in {"record", "resolve", "stop", "delete", "removed"}
                 PROVE  ~Live(target[k].nonce) /\ target[k].nonce \in Launches
      OBVIOUS
    <3>1. target[k].nonce \in Launches
      BY <2>5
    <3>2. CASE ProveBeforeCleanup(k)
      <4>1. "absent" \in ExactIdentity(target[k])
        BY <1>1, <2>3, <3>2 DEF ProveBeforeCleanup, To, KillTypeOK
      <4>2. target[k] \in Identities
        BY <1>1, <2>1 DEF IdentityKnown
      <4>3. Live(target[k].nonce) =>
              terminal[target[k].nonce] = [id |-> target[k].id,
                                           created |-> target[k].created]
        BY <1>1, <2>1, <3>1 DEF TargetIsSpent
      <4> QED
        BY <1>1, <3>1, <4>1, <4>2, <4>3, AbsentIsGone
    <3>3. CASE ~ProveBeforeCleanup(k)
      <4>1. ASSUME ProveBeforeKill(k)  PROVE FALSE
        <5>1. \E state \in {"kill", "finish", "refused"} : To(k, state)
          BY <4>1 DEF ProveBeforeKill, ExactIdentity
        <5> QED
          BY <1>1, <2>3, <5>1 DEF To, KillTypeOK
      <4>2. kpc[k] \in {"record", "resolve", "stop", "delete"}
        BY <1>1, <1>4, <2>3, <3>3, <4>1 DEF Removal, TakeAuthority, ConditionalKill,
             ProveAfterKill, RereadRecord, ResolveRuntime, StopWorkload, DeleteRecord,
             Interrupted, At, To, KillTypeOK
      <4> QED
        BY <1>1, <3>1, <4>2 DEF CleanupAfterTerminal
    <3> QED
      BY <3>2, <3>3
  <2>7. CleanupAfterTerminal'
    <3>1. ASSUME NEW j \in Killers,
                 kpc'[j] \in {"record", "resolve", "stop", "delete", "removed"}
          PROVE  ~Live(target[j].nonce)'
      <4>1. ~Live(target[j].nonce) /\ target[j].nonce \in Launches /\ kpc[j] # "idle"
        BY <1>1, <2>1, <2>3, <2>6, <3>1 DEF CleanupAfterTerminal, KillIsOwned
      <4> QED
        BY <1>1, <2>1, <4>1, TargetStep
    <3> QED
      BY <2>1, <3>1 DEF CleanupAfterTerminal, Live
  <2> QED
    BY <1>1, <2>1, <2>3, <2>4, <2>5, <2>7 DEF KillIsOwned
<1> QED
  BY <1>2, <1>3, <1>4

-----------------------------------------------------------------------------
(* The kills' part.                                                          *)

RollbackIsOwn == \A l \in Launches : lpc[l] = "rollback" => meta[l].nonce = l

LateKillIsOwned == \A c \in late : c.op = "kill" => c.of.nonce \in Launches

(* A launch rolls back its own session only: it looked at the nonce first.    *)
LEMMA LaunchKillsOwn ==
  ASSUME DurableInv, RollbackIsOwn, LateKillIsOwned, LaunchStep
  PROVE  RollbackIsOwn' /\ LateKillIsOwned'
<1>1. HostTypeOK /\ LaunchTypeOK /\ IdentityKnown
  BY DEF DurableInv, TypeOK
<1>2. PICK l \in Launches : Controller(l) \/ ControllerCrashes(l) \/ Bootstrap(l)
  BY DEF LaunchStep, LaunchNext
<1>3. ASSUME NEW to \in LaunchStates \ {"rollback"}, Goto(l, to),
             \A m \in Launches \ {l} : meta'[m] = meta[m]
      PROVE  RollbackIsOwn'
  BY <1>1, <1>3 DEF Goto, LaunchTypeOK, RollbackIsOwn
<1>4. CASE CreatePendingRecord(l) \/ WritePendingRecord(l) \/ FinalizeRecord(l) \/ FailRecord(l)
           \/ ControllerCrashes(l)
  <2>1. /\ UNCHANGED <<late, meta>>
        /\ \E to \in LaunchStates \ {"rollback"} : Goto(l, to)
    BY <1>4 DEF CreatePendingRecord, WritePendingRecord, Unlink, Torn, Pending, FinalizeRecord,
         FailRecord, ControllerCrashes, hostVars, LaunchStates
  <2> QED
    BY <1>3, <2>1 DEF LateKillIsOwned
<1>5. CASE QuerySession(l)
  <2>1. /\ UNCHANGED late /\ \A m \in Launches \ {l} : meta'[m] = meta[m]
        /\ \E to \in LaunchStates \ {"rollback"} : Goto(l, to)
    BY <1>1, <1>5 DEF QuerySession, hostVars, LaunchStates, LaunchTypeOK
  <2> QED
    BY <1>3, <2>1 DEF LateKillIsOwned
<1>6. CASE CreateSession(l)
  <2>1. PICK outcome \in {"ack", "error"} :
          /\ Send([op |-> "create", nonce |-> l], NameTaken(name[l]), outcome)
          /\ Goto(l, IF outcome = "ack" THEN "query" ELSE "lookup")
    BY <1>6 DEF CreateSession
  <2>2. UNCHANGED meta /\ \E to \in LaunchStates \ {"rollback"} : Goto(l, to)
    BY <1>6, <2>1 DEF CreateSession, LaunchStates
  <2>3. LateKillIsOwned'
    BY <2>1, SendParts DEF LateKillIsOwned
  <2> QED
    BY <1>3, <2>2, <2>3
<1>7. CASE ReleaseBootstrap(l)
  <2>1. PICK outcome \in {"ack", "error"} :
          /\ Send([op |-> "release", of |-> meta[l]], Guarded(meta[l]) = {}, outcome)
          /\ Goto(l, IF outcome = "ack" THEN "done" ELSE "lookup")
    BY <1>7 DEF ReleaseBootstrap
  <2>2. UNCHANGED meta /\ \E to \in LaunchStates \ {"rollback"} : Goto(l, to)
    BY <1>7, <2>1 DEF ReleaseBootstrap, LaunchStates
  <2>3. LateKillIsOwned'
    BY <2>1, SendParts DEF LateKillIsOwned
  <2> QED
    BY <1>3, <2>2, <2>3
<1>8. CASE RollbackLookup(l)
  <2>1. UNCHANGED late /\ \A m \in Launches \ {l} : meta'[m] = meta[m] /\ lpc'[m] = lpc[m]
    BY <1>1, <1>8 DEF RollbackLookup, hostVars, LaunchTypeOK, Goto
  <2>2. lpc'[l] = "rollback" => meta'[l].nonce = l
    BY <1>1, <1>8 DEF RollbackLookup, Goto, LaunchTypeOK, IdentityOf
  <2> QED
    BY <2>1, <2>2 DEF RollbackIsOwn, LateKillIsOwned
<1>9. CASE RollbackKill(l)
  <2>1. PICK refused, outcome : Send([op |-> "kill", of |-> meta[l]], refused, outcome)
    BY <1>9 DEF RollbackKill
  <2>2. meta[l].nonce = l /\ UNCHANGED meta /\ Goto(l, "unlink")
    BY <1>9 DEF RollbackKill, RollbackIsOwn
  <2>3. LateKillIsOwned'
    BY <2>1, <2>2, SendParts DEF LateKillIsOwned
  <2> QED
    BY <1>3, <2>2, <2>3 DEF LaunchStates
<1>10. CASE Bootstrap(l)
  <2>1. UNCHANGED <<lpc, meta>>
    BY <1>10 DEF Bootstrap, ExecAgent, WaitFails, BootstrapLookup, BootstrapKill,
                 launchVars
  <2> DEFINE own == [IdentityOf(l) EXCEPT !.nonce = l]
  <2>2. own.nonce = l
    BY DEF IdentityOf
  <2> HIDE DEF own
  <2>3. late' \subseteq late \cup {[op |-> "kill", of |-> own]}
    <3>1. CASE BootstrapKill(l)
      BY <3>1 DEF BootstrapKill, own
    <3>2. CASE ~BootstrapKill(l)
      BY <1>10, <3>2 DEF Bootstrap, ExecAgent, WaitFails, BootstrapLookup
    <3> QED
      BY <3>1, <3>2
  <2>4. LateKillIsOwned'
    BY <2>2, <2>3 DEF LateKillIsOwned
  <2> QED
    BY <2>1, <2>4 DEF RollbackIsOwn
<1> QED
  BY <1>2, <1>4, <1>5, <1>6, <1>7, <1>8, <1>9, <1>10 DEF Controller

(* Every step keeps the second invariant.                                    *)
LEMMA OwnershipInvStep ==
  ASSUME HostAssumption, OwnershipInv, [Next]_vars
  PROVE  OwnershipInv'
<1>1. /\ DurableInv /\ CreatedOnce /\ RollbackIsOwn /\ LateKillIsOwned
      /\ KillIsOwned /\ HostTypeOK
  BY DEF OwnershipInv, KillIsOwned, RollbackIsOwn, LateKillIsOwned, DurableInv, TypeOK
<1>2. DurableInv' /\ TerminalStep
  BY <1>1, DurableInvStep, EveryTerminalStep
<1>3. CreatedOnce'
  BY <1>2 DEF TerminalStep, CreatedOnce, Uncreated, CreateOf
<1>4. CASE KillStep
  <2>1. RollbackIsOwn'
    BY <1>1, <1>4 DEF KillStep, launchVars, RollbackIsOwn
  <2>2. LateKillIsOwned'
    <3>1. PICK k \in Killers : Request(k) \/ Removal(k) \/ Interrupted(k)
      BY <1>4 DEF KillStep, KillNext
    <3>2. CASE ConditionalKill(k)
      <4>1. PICK refused, outcome :
              Send([op |-> "kill", of |-> target[k]], refused, outcome)
        BY <3>2 DEF ConditionalKill
      <4>2. target[k].nonce \in Launches
        BY <1>1, <3>2 DEF ConditionalKill, At, KillIsOwned
      <4> QED
        BY <1>1, <4>1, <4>2, SendParts DEF LateKillIsOwned
    <3>3. CASE ~ConditionalKill(k)
      <4>1. UNCHANGED late
        BY <3>1, <3>3 DEF Request, Removal, TakeAuthority, ProveBeforeKill,
             ProveAfterKill, ProveBeforeCleanup, RereadRecord, ResolveRuntime,
             StopWorkload, DeleteRecord, Interrupted, hostVars
      <4> QED
        BY <1>1, <4>1 DEF LateKillIsOwned
    <3> QED
      BY <3>2, <3>3
  <2> QED
    BY <1>2, <1>3, <1>4, <2>1, <2>2, RemovalSteps
       DEF OwnershipInv, KillIsOwned, RollbackIsOwn, LateKillIsOwned
<1>5. CASE UNCHANGED killVars /\ RollbackIsOwn' /\ LateKillIsOwned'
  <2>1. TargetIsSpent' /\ CleanupAfterTerminal'
    BY <1>2, <1>5, OtherSteps
  <2>2. UNCHANGED <<kpc, target>>
    BY <1>5 DEF killVars
  <2> QED
    BY <1>1, <1>2, <1>3, <1>5, <2>1, <2>2
       DEF OwnershipInv, KillIsOwned, RollbackIsOwn, LateKillIsOwned
<1>6. CASE LaunchStep
  BY <1>1, <1>5, <1>6, LaunchKillsOwn DEF LaunchStep
<1>7. CASE HostStep
  <2>1. UNCHANGED killVars /\ UNCHANGED <<lpc, meta>>
    BY <1>7 DEF HostStep, launchVars
  <2>2. late' \subseteq late
    BY <1>7 DEF HostStep, HostNext, LateCommand, AgentExits, Tamper, RuntimeRestarts,
                SessionsEnd, Tick
  <2> QED
    BY <1>1, <1>5, <2>1, <2>2 DEF RollbackIsOwn, LateKillIsOwned
<1>8. CASE ListStep \/ ExpireStep \/ UNCHANGED vars
  <2>1. UNCHANGED killVars /\ UNCHANGED <<lpc, meta, late>>
    BY <1>8 DEF ListStep, ExpireStep, vars, hostVars, launchVars
  <2> QED
    BY <1>1, <1>5, <2>1 DEF RollbackIsOwn, LateKillIsOwned
<1> QED
  BY <1>4, <1>6, <1>7, <1>8 DEF Next

(* The second invariant holds throughout.                                    *)
THEOREM OwnershipInvariant == Spec => []OwnershipInv
<1>1. Init => OwnershipInv
  <2> SUFFICES ASSUME Init PROVE OwnershipInv
    OBVIOUS
  <2>1. DurableInv
    BY HostAssumption, DurableInvInit
  <2>2. CreatedOnce /\ TargetIsSpent /\ KillIsOwned /\ CleanupAfterTerminal
    BY DEF Init, HostInit, LaunchInit, KillInit, CreatedOnce, Uncreated, TargetIsSpent,
         KillIsOwned, CleanupAfterTerminal, Live
  <2> QED
    BY <2>1, <2>2 DEF OwnershipInv
<1>2. OwnershipInv /\ [Next]_vars => OwnershipInv'
  BY HostAssumption, OwnershipInvStep
<1> QED
  BY <1>1, <1>2, PTL DEF Spec

(* No removal stops a workload or touches a record before the session it was  *)
(* asked to remove is gone, and that session never comes back.                *)
THEOREM CleanupIsAfterTerminal == Spec => []CleanupAfterTerminal
<1>1. OwnershipInv => CleanupAfterTerminal
  BY DEF OwnershipInv
<1> QED
  BY <1>1, OwnershipInvariant, PTL

-----------------------------------------------------------------------------
(* Who ends a session.                                                       *)

\* A step ends a session only as its launch, its removal, or a late kill of it.
OwnEnd(m) ==
  /\ \A l \in Launches : lpc'[l] # lpc[l] => l = m
  /\ \A k \in Killers : kpc'[k] # kpc[k] => target[k].nonce = m
  /\ \A c \in late \ late' : c.op = "kill" /\ c.of.nonce = m

(* A command sent for a launch ends that launch's session or none.           *)
LEMMA SendEnds ==
  ASSUME HostAssumption, HostTypeOK, NEW c \in Commands, NEW refused, NEW outcome,
         Send(c, refused, outcome), c.op = "kill" => c.of.nonce \in Launches,
         NEW m \in Launches, Live(m), ~Live(m)'
  PROVE  c.op = "kill" /\ c.of.nonce = m /\ late' = late
<1>1. Effect(c) /\ late' = late
  BY SendParts DEF Live
<1> QED
  BY <1>1, EffectEnds

(* Every step that ends a session is such a step.                            *)
LEMMA EveryEndIsOwn ==
  ASSUME HostAssumption, OwnershipInv, Next,
         NEW m \in Launches, Live(m), ~Live(m)'
  PROVE  OwnEnd(m)
<1>1. /\ HostTypeOK /\ LaunchTypeOK /\ KillTypeOK /\ IdentityKnown
      /\ RollbackIsOwn /\ LateKillIsOwned /\ KillIsOwned
  BY DEF OwnershipInv, DurableInv, TypeOK, KillIsOwned, RollbackIsOwn, LateKillIsOwned
<1>2. terminal' # terminal
  BY DEF Live
<1>3. CASE HostStep
  <2>1. UNCHANGED <<lpc, kpc>>
    BY <1>3 DEF HostStep, launchVars, killVars
  <2>2. CASE UNCHANGED late
    BY <2>1, <2>2 DEF OwnEnd
  <2>3. ASSUME NEW c \in late, LateCommand(c)  PROVE OwnEnd(m)
    <3>1. Effect(c) /\ c \in Commands /\ late' = late \ {c}
      BY <1>1, <2>3 DEF LateCommand, HostTypeOK
    <3>2. c.op = "kill" /\ c.of.nonce = m
      BY <1>1, <3>1, EffectEnds DEF LateKillIsOwned
    <3> QED
      BY <2>1, <3>1, <3>2 DEF OwnEnd
  <2> QED
    BY <1>3, <2>2, <2>3 DEF HostStep, HostNext, AgentExits, Tamper, RuntimeRestarts,
                            SessionsEnd, Tick
<1>4. CASE LaunchStep
  <2>1. PICK l \in Launches : Controller(l) \/ ControllerCrashes(l) \/ Bootstrap(l)
    BY <1>4 DEF LaunchStep, LaunchNext
  <2>2. UNCHANGED kpc
    BY <1>4 DEF LaunchStep, killVars
  <2>3. CASE Bootstrap(l)
    <3>1. UNCHANGED lpc /\ late \subseteq late'
      BY <2>3 DEF Bootstrap, ExecAgent, WaitFails, BootstrapLookup, BootstrapKill,
                  launchVars
    <3> QED
      BY <2>2, <3>1 DEF OwnEnd
  <2>4. CASE CreateSession(l)
    <3>1. PICK outcome : Send([op |-> "create", nonce |-> l], NameTaken(name[l]), outcome)
      BY <2>4 DEF CreateSession
    <3>2. [op |-> "create", nonce |-> l] \in Commands
      BY DEF Commands
    <3> QED
      BY <1>1, <3>1, <3>2, SendEnds
  <2>5. CASE ReleaseBootstrap(l)
    <3>1. PICK outcome :
            Send([op |-> "release", of |-> meta[l]], Guarded(meta[l]) = {}, outcome)
      BY <2>5 DEF ReleaseBootstrap
    <3>2. [op |-> "release", of |-> meta[l]] \in Commands
      BY <1>1, <2>5 DEF ReleaseBootstrap, IdentityKnown, Commands
    <3> QED
      BY <1>1, <3>1, <3>2, SendEnds
  <2>6. CASE RollbackKill(l)
    <3>1. PICK outcome :
            Send([op |-> "kill", of |-> meta[l]], Guarded(meta[l]) = {}, outcome)
      BY <2>6 DEF RollbackKill
    <3>2. [op |-> "kill", of |-> meta[l]] \in Commands /\ meta[l].nonce = l
      BY <1>1, <2>6 DEF RollbackKill, IdentityKnown, RollbackIsOwn, Commands
    <3>3. l = m /\ late' = late
      BY <1>1, <3>1, <3>2, SendEnds
    <3>4. \A j \in Launches \ {l} : lpc'[j] = lpc[j]
      BY <1>1, <2>6 DEF RollbackKill, Goto, LaunchTypeOK
    <3> QED
      BY <2>2, <3>3, <3>4 DEF OwnEnd
  <2> QED
    BY <1>2, <2>1, <2>3, <2>4, <2>5, <2>6
       DEF Controller, CreatePendingRecord, WritePendingRecord, Unlink, Torn, Pending,
            QuerySession, FinalizeRecord, RollbackLookup, FailRecord, ControllerCrashes,
            hostVars
<1>5. CASE KillStep
  <2>1. PICK k \in Killers : Request(k) \/ Removal(k) \/ Interrupted(k)
    BY <1>5 DEF KillStep, KillNext
  <2>2. ConditionalKill(k)
    BY <1>2, <2>1 DEF Request, Removal, TakeAuthority, ProveBeforeKill, ProveAfterKill,
         ProveBeforeCleanup, RereadRecord, ResolveRuntime, StopWorkload, DeleteRecord,
         Interrupted, hostVars
  <2>3. PICK outcome :
          Send([op |-> "kill", of |-> target[k]], Guarded(target[k]) = {}, outcome)
    BY <2>2 DEF ConditionalKill
  <2>4. [op |-> "kill", of |-> target[k]] \in Commands /\ target[k].nonce \in Launches
    BY <1>1, <2>2 DEF ConditionalKill, At, IdentityKnown, KillIsOwned, Commands
  <2>5. target[k].nonce = m /\ late' = late
    BY <1>1, <2>3, <2>4, SendEnds
  <2>6. UNCHANGED lpc /\ \A j \in Killers \ {k} : kpc'[j] = kpc[j]
    BY <1>1, <1>5, <2>2 DEF ConditionalKill, To, KillTypeOK, KillStep, launchVars
  <2> QED
    BY <2>5, <2>6 DEF OwnEnd
<1>6. CASE ListStep \/ ExpireStep
  BY <1>2, <1>6 DEF ListStep, ExpireStep, hostVars
<1> QED
  BY <1>3, <1>4, <1>5, <1>6 DEF Next

(* No rollback, removal or late command of one launch ends another's session, *)
(* whatever names, ids and creation seconds they share.                       *)
THEOREM OnlyOwnersEnd == Spec => OnlyOwnSessionEnds
<1> DEFINE Ends ==
      \A m \in Launches :
        Live(m) /\ ~Live(m)' =>
          /\ \A l \in Launches : lpc'[l] # lpc[l] => l = m
          /\ \A k \in Killers : kpc'[k] # kpc[k] => target[k].nonce = m
          /\ \A c \in late \ late' : c.op = "kill" /\ c.of.nonce = m
<1>1. OwnershipInv /\ [Next]_vars => [Ends]_vars
  BY HostAssumption, EveryEndIsOwn DEF OwnEnd
<1> QED
  BY <1>1, OwnershipInvariant, PTL DEF Spec, OnlyOwnSessionEnds

-----------------------------------------------------------------------------
(* What the launch records are for: the third invariant.                      *)

\* The launches' part of the invariant.
LaunchPart == RecordHistory /\ MetaIsOwn /\ ListedIsSeen /\ LiveKeepsRecord

\* What no step does besides: a runtime kind is fixed, an overwritten marker
\* stays so, and a workload starts only behind a sealed launch's live session.
WorldStep ==
  /\ kind' = kind
  /\ tampered \subseteq tampered'
  /\ \A l \in Launches :
       workload'[l] = "running" => workload[l] = "running" \/ (l \in sealed /\ Live(l))

-----------------------------------------------------------------------------
(* Every step is such a step.                                               *)
LEMMA EveryWorldStep ==
  ASSUME DurableInv, [Next]_vars
  PROVE  WorldStep
<1>1. /\ HostTypeOK /\ PaneHasSession
      /\ \A l \in Launches : pane[l] = "woken" => l \in sealed /\ Live(l)
  BY DEF DurableInv, TypeOK, DurableBeforeExec, PaneHasSession
<1>2. workload \in [Launches -> {"none", "running"}]
  BY <1>1 DEF HostTypeOK
<1>3. CASE HostStep
  <2>1. ASSUME NEW c \in late, LateCommand(c)  PROVE WorldStep
    BY <2>1 DEF LateCommand, WorldStep
  <2>2. ASSUME NEW l \in Launches, AgentExits(l)  PROVE WorldStep
    BY <1>2, <2>2 DEF AgentExits, WorldStep
  <2>3. ASSUME NEW S, SessionsEnd(S)  PROVE WorldStep
    BY <2>3 DEF SessionsEnd, WorldStep
  <2>4. ASSUME NEW l \in Launches, Tamper(l)  PROVE WorldStep
    BY <2>4 DEF Tamper, WorldStep
  <2>5. ASSUME NEW l \in Launches, RuntimeRestarts(l)  PROVE WorldStep
    BY <1>2, <2>5 DEF RuntimeRestarts, WorldStep
  <2>6. ASSUME Tick  PROVE WorldStep
    BY <2>6 DEF Tick, WorldStep
  <2> QED
    BY <1>3, <2>1, <2>2, <2>3, <2>4, <2>5, <2>6 DEF HostStep, HostNext
<1>4. CASE LaunchStep
  <2>1. PICK l \in Launches : Controller(l) \/ ControllerCrashes(l) \/ Bootstrap(l)
    BY <1>4 DEF LaunchStep, LaunchNext
  <2>2. CASE Controller(l) \/ ControllerCrashes(l)
    <3>1. UNCHANGED <<kind, tampered, workload>>
      BY <2>2 DEF Controller, ControllerCrashes, CreatePendingRecord, WritePendingRecord,
           Unlink, Torn, Pending, CreateSession, QuerySession, FinalizeRecord,
           ReleaseBootstrap, RollbackLookup, RollbackKill, FailRecord, CommandFrame, hostVars
    <3> QED
      BY <3>1 DEF WorldStep
  <2>3. CASE ExecAgent(l)
    BY <1>1, <1>2, <2>3 DEF ExecAgent, Exec, WorldStep
  <2>4. CASE WaitFails(l) \/ BootstrapLookup(l) \/ BootstrapKill(l)
    <3>1. UNCHANGED <<kind, tampered, workload>>
      BY <2>4 DEF WaitFails, BootstrapLookup, BootstrapKill, CommandFrame
    <3> QED
      BY <3>1 DEF WorldStep
  <2> QED
    BY <2>1, <2>2, <2>3, <2>4 DEF Bootstrap
<1>5. CASE KillStep
  <2>1. PICK k \in Killers : Request(k) \/ Removal(k) \/ Interrupted(k)
    BY <1>5 DEF KillStep, KillNext
  <2>2. CASE StopWorkload(k)
    BY <1>2, <2>2 DEF StopWorkload, WorldStep
  <2>3. CASE ~StopWorkload(k)
    <3>1. UNCHANGED <<kind, tampered, workload>>
      BY <2>1, <2>3 DEF Request, Removal, TakeAuthority, ProveBeforeKill, ProveAfterKill,
           ProveBeforeCleanup, RereadRecord, ResolveRuntime, ConditionalKill, DeleteRecord,
           Interrupted, hostVars
    <3> QED
      BY <3>1 DEF WorldStep
  <2> QED
    BY <2>2, <2>3
<1>6. CASE ListStep \/ ExpireStep \/ UNCHANGED vars
  <2>1. UNCHANGED <<kind, tampered, workload>>
    BY <1>6 DEF ListStep, ExpireStep, vars, hostVars
  <2> QED
    BY <2>1 DEF WorldStep
<1> QED
  BY <1>3, <1>4, <1>5, <1>6 DEF Next

-----------------------------------------------------------------------------
(* A session that lives on is the one it was, under the marker it had.        *)
LEMMA LivesOn ==
  ASSUME TerminalStep, WorldStep, RecordHistory, NEW l \in sealed, l \in Launches, Live(l)'
  PROVE  /\ Live(l) /\ Spent(l)' /\ terminal'[l] = terminal[l]
         /\ l \notin tampered' => l \notin tampered /\ IdentityOf(l)' = IdentityOf(l)
<1>1. Spent(l)
  BY DEF RecordHistory, RecordPast
<1>2. Live(l) /\ Spent(l)' /\ terminal'[l] = terminal[l]
  BY <1>1 DEF TerminalStep
<1> QED
  BY <1>2 DEF WorldStep, IdentityOf, NonceOf

(* Steps that leave records, listings and what controllers have read alone.   *)
LEMMA QuietRecords ==
  ASSUME RecordInv, TerminalStep, WorldStep,
         UNCHANGED <<record, expired, seen, listing, meta, sealed>>,
         \A l \in Launches : lpc'[l] # lpc[l] =>
           /\ lpc[l] \notin Ended /\ lpc[l] # "idle" /\ lpc'[l] \notin {"idle", "write"}
           /\ lpc'[l] \in {"query", "finalize"} => lpc[l] \in {"create", "query"}
           /\ lpc[l] \in {"write", "unlink"} => lpc'[l] \in Ended
  PROVE  LaunchPart'
<1>1. /\ RecordHistory /\ MetaIsOwn /\ ListedIsSeen /\ LiveKeepsRecord
      /\ sealed \subseteq Launches /\ listing \subseteq Listers
  BY DEF RecordInv, OwnershipInv, DurableInv, TypeOK, LaunchTypeOK, StoreTypeOK
<1>2. RecordHistory'
  <2>1. ASSUME NEW l \in sealed  PROVE Spent(l)' /\ lpc'[l] \notin {"query", "finalize"}
    <3>1. l \in Launches /\ Spent(l) /\ lpc[l] \notin {"query", "finalize", "create"}
      BY <1>1 DEF RecordHistory, RecordPast, Spent, Uncreated
    <3> QED
      BY <3>1 DEF TerminalStep
  <2> QED
    BY <1>1, <2>1 DEF RecordHistory, RecordPast, Spent, Uncreated
<1>3. MetaIsOwn'
  BY <1>1 DEF MetaIsOwn, TerminalStep, Spent, Uncreated
<1>4. ListedIsSeen'
  BY <1>1, LivesOn DEF ListedIsSeen, WorldStep
<1>5. LiveKeepsRecord'
  <2> SUFFICES ASSUME NEW l \in sealed, lpc'[l] # "failed"
               PROVE  /\ Live(l)' /\ l \notin tampered' => record[l] = Finalized(IdentityOf(l)')
                      /\ l \notin expired
                         /\ (Live(l)' \/ (kind'[l] = "command" /\ workload'[l] = "running"))
                         => record[l].status = "finalized"
    BY DEF LiveKeepsRecord, Finalized
  <2>1. l \in Launches /\ lpc[l] # "failed"
    BY <1>1 DEF Ended
  <2>2. Live(l)' /\ l \notin tampered' => record[l] = Finalized(IdentityOf(l)')
    BY <1>1, <2>1, LivesOn DEF LiveKeepsRecord
  <2>3. l \notin expired /\ Live(l)' => record[l].status = "finalized"
    BY <1>1, <2>1, LivesOn DEF LiveKeepsRecord
  <2>4. l \notin expired /\ kind'[l] = "command" /\ workload'[l] = "running"
          => record[l].status = "finalized"
    BY <1>1, <2>1 DEF LiveKeepsRecord, WorldStep
  <2> QED
    BY <2>2, <2>3, <2>4
<1> QED
  BY <1>2, <1>3, <1>4, <1>5 DEF LaunchPart

-----------------------------------------------------------------------------
(* A controller's bookkeeping keeps the launches' part: each of its steps only *)
(* touches its own launch.                                                    *)
LEMMA BookkeepingRecords ==
  ASSUME HostAssumption, RecordInv, NEW l \in Launches,
         \/ CreatePendingRecord(l) \/ WritePendingRecord(l) \/ QuerySession(l) \/ FinalizeRecord(l)
         \/ RollbackLookup(l) \/ FailRecord(l)
  PROVE  LaunchPart'
<1>1. /\ RecordHistory /\ MetaIsOwn /\ ListedIsSeen /\ LiveKeepsRecord /\ CreatedOnce
      /\ IdentityKnown /\ HostTypeOK /\ StoreTypeOK /\ LaunchTypeOK
  BY DEF RecordInv, OwnershipInv, DurableInv, TypeOK
<1>2. /\ UNCHANGED <<name, kind, terminal, tampered, late, workload, expired, seen, listing>>
      /\ \A m \in Launches : Live(m)' = Live(m) /\ IdentityOf(m)' = IdentityOf(m)
                             /\ CreateOf(m)' = CreateOf(m)
  BY DEF CreatePendingRecord, WritePendingRecord, Unlink, Torn, Pending, QuerySession,
       FinalizeRecord, RollbackLookup, FailRecord, hostVars, storeVars, Live, IdentityOf,
       NonceOf, CreateOf
<1>3. /\ \A m \in Launches \ {l} :
           lpc'[m] = lpc[m] /\ meta'[m] = meta[m] /\ record'[m] = record[m]
      /\ sealed' \in {sealed, sealed \cup {l}}
      /\ lpc'[l] \notin {"idle", "done", "crashed"}
      /\ sealed \subseteq Launches
  BY <1>1 DEF CreatePendingRecord, WritePendingRecord, Unlink, Torn, Pending, QuerySession,
       FinalizeRecord, RollbackLookup, FailRecord, hostVars, storeVars, Goto, LaunchTypeOK,
       StoreTypeOK
\* The identity a controller reads under its own nonce is its session's.
<1>4. ASSUME meta'[l] # Unset, meta'[l].nonce = l
      PROVE  Spent(l)' /\ (Live(l) => terminal[l] = [id      |-> meta'[l].id,
                                                   created |-> meta'[l].created])
  <2>1. CASE meta'[l] = meta[l]
    <3>1. Spent(l) /\ (Live(l) => terminal[l] = [id |-> meta[l].id, created |-> meta[l].created])
      BY <1>1, <1>4, <2>1 DEF MetaIsOwn
    <3>2. lpc'[l] \notin Uncreated
      BY <1>1, <3>1 DEF Spent, Uncreated, CreatePendingRecord, WritePendingRecord, Unlink,
           Torn, Pending, QuerySession, FinalizeRecord, RollbackLookup, FailRecord, Goto,
           LaunchTypeOK
    <3> QED
      BY <1>2, <1>3, <2>1, <3>1, <3>2 DEF Spent, Uncreated
  <2>2. ASSUME NEW m \in Launches, Live(m), meta' = [meta EXCEPT ![l] = IdentityOf(m)],
               lpc'[l] \notin Uncreated
        PROVE  Spent(l)' /\ terminal[l] = [id |-> meta'[l].id, created |-> meta'[l].created]
    <3>1. meta'[l] = IdentityOf(m)
      BY <1>1, <2>2 DEF LaunchTypeOK
    <3>2. NonceOf(m) = l
      BY <1>4, <3>1 DEF IdentityOf
    <3>3. m = l
      BY <3>2 DEF NonceOf, HostAssumption
    <3>4. Spent(l) /\ terminal[l] \in [id : Nat, created : Nat]
      BY <1>1, <2>2, <3>3 DEF CreatedOnce, Uncreated, HostTypeOK, Live
    <3>5. Spent(l)'
      BY <1>2, <2>2, <3>4 DEF Spent, Uncreated
    <3> QED
      BY <3>1, <3>3, <3>4, <3>5 DEF IdentityOf
  <2>3. CASE QuerySession(l)
    BY <1>1, <2>1, <2>2, <2>3 DEF QuerySession, Goto, LaunchTypeOK, Uncreated
  <2>4. CASE RollbackLookup(l)
    BY <1>1, <2>1, <2>2, <2>4 DEF RollbackLookup, Goto, LaunchTypeOK, Uncreated
  <2>5. CASE CreatePendingRecord(l) \/ WritePendingRecord(l) \/ FinalizeRecord(l) \/ FailRecord(l)
    BY <2>1, <2>5 DEF CreatePendingRecord, WritePendingRecord, Unlink, Torn, Pending,
         FinalizeRecord, FailRecord
  <2> QED
    BY <2>3, <2>4, <2>5
<1>5. MetaIsOwn'
  BY <1>1, <1>2, <1>3, <1>4 DEF MetaIsOwn, Spent, Uncreated
\* A record is finalized with the identity of its own session.
<1>6. CASE l \in sealed' /\ l \notin sealed
  <2>1. /\ FinalizeRecord(l) /\ meta[l].nonce = l /\ record' = [record EXCEPT ![l] = Finalized(meta[l])]
        /\ lpc[l] = "finalize" /\ lpc'[l] \in {"release", "lookup"}
        /\ meta'[l] = meta[l] /\ meta[l] \in Identities
    BY <1>1, <1>6 DEF CreatePendingRecord, WritePendingRecord, Unlink, Torn, Pending,
         QuerySession, FinalizeRecord, RollbackLookup, FailRecord, Goto, LaunchTypeOK,
         IdentityKnown
  <2>2. meta[l] # Unset
    BY <2>1 DEF HostAssumption, Identities
  <2>3. Spent(l)' /\ (Live(l) => terminal[l] = [id |-> meta[l].id, created |-> meta[l].created])
    BY <1>4, <2>1, <2>2
  <2>4. record'[l] = Finalized(meta[l])
    BY <1>1, <2>1 DEF StoreTypeOK
  <2>5. Live(l) /\ l \notin tampered => record'[l] = Finalized(IdentityOf(l))
    BY <2>3, <2>4 DEF Finalized, IdentityOf
  <2>6. RecordHistory'
    <3>1. ASSUME NEW m \in Launches \ {l}
          PROVE  (m \in sealed' => m \in sealed) /\ (Spent(m) => Spent(m)')
      BY <1>2, <1>3 DEF Spent, Uncreated
    <3>2. lpc[l] \notin Ended /\ record'[l].status = "finalized"
      BY <2>1, <2>4 DEF Ended, Finalized
    <3> QED
      BY <1>1, <1>2, <1>3, <1>6, <2>1, <2>3, <3>1, <3>2 DEF RecordHistory, RecordPast
  <2>7. ListedIsSeen'
    <3>1. l \notin expired
      BY <1>1, <2>1 DEF RecordHistory, RecordPast, Ended
    <3>2. sealed' \subseteq sealed \cup {l}
      BY <1>3
    <3> QED
      BY <1>1, <1>2, <1>3, <3>1, <3>2 DEF ListedIsSeen
  <2>8. \A m \in sealed' : m # l => m \in sealed /\ m \in Launches
    BY <1>1, <1>3 DEF LaunchTypeOK
  <2>9. LiveKeepsRecord'
    BY <1>1, <1>2, <1>3, <2>4, <2>5, <2>8 DEF LiveKeepsRecord, Finalized
  <2> QED
    BY <1>5, <2>6, <2>7, <2>9 DEF LaunchPart
<1>7. CASE sealed' = sealed
  <2> DEFINE Facts ==
        /\ lpc'[l] = "create" => lpc[l] = "write" /\ record'[l] = Pending
        /\ lpc'[l] = "write" => lpc[l] = "idle" /\ record'[l] = Torn
        /\ lpc'[l] \in {"query", "finalize"} => lpc[l] = "query"
        /\ lpc[l] \notin Ended
        /\ lpc[l] = "idle" => lpc'[l] \in {"write", "unlink"}
        /\ lpc[l] = "idle" /\ lpc'[l] = "unlink" => record'[l] = Absent
        /\ lpc[l] = "write" => lpc'[l] \in {"create", "unlink"}
        /\ lpc[l] = "write" => record'[l] \in {Torn, Pending, Absent}
        /\ lpc[l] \notin {"idle", "write"} => record'[l] \in {record[l], Absent}
        /\ record'[l] # record[l] => lpc[l] \in {"idle", "write"} \/ lpc'[l] = "failed"
        /\ lpc[l] = "unlink" => lpc'[l] = "failed"
  <2>1. Facts
    <3>1. CASE CreatePendingRecord(l)
      BY <1>1, <3>1 DEF CreatePendingRecord, Goto, LaunchTypeOK, StoreTypeOK, RecordHistory,
           RecordPast, Ended
    <3>2. CASE WritePendingRecord(l)
      BY <1>1, <3>2 DEF WritePendingRecord, Unlink, Goto, LaunchTypeOK, StoreTypeOK,
           RecordHistory, RecordPast, Ended
    <3>3. CASE QuerySession(l) \/ RollbackLookup(l)
      <4>1. /\ record' = record /\ lpc[l] \in {"query", "lookup"}
            /\ \E to \in LaunchStates : Goto(l, to)
            /\ lpc'[l] \notin {"create", "write"}
            /\ lpc'[l] \in {"query", "finalize"} => lpc[l] = "query"
        BY <1>1, <3>3 DEF QuerySession, RollbackLookup, storeVars, Goto, LaunchTypeOK, LaunchStates
      <4> QED
        BY <4>1 DEF Ended
    <3>4. CASE FinalizeRecord(l)
      <4>1. /\ record' = record /\ lpc[l] = "finalize" /\ lpc'[l] \in {"release", "lookup"}
        BY <1>1, <1>7, <3>4 DEF FinalizeRecord, Goto, LaunchTypeOK, StoreTypeOK, RecordHistory,
             RecordPast
      <4> QED
        BY <4>1 DEF Ended
    <3>5. CASE FailRecord(l)
      BY <1>1, <3>5 DEF FailRecord, Unlink, Goto, LaunchTypeOK, StoreTypeOK, Ended
    <3> QED
      BY <3>1, <3>2, <3>3, <3>4, <3>5
  <2>2. l \in sealed => lpc[l] \notin {"idle", "write"} /\ Spent(l)'
    BY <1>1, <1>2, <1>3, <2>1 DEF RecordHistory, RecordPast, Spent, Uncreated
  <2>3. RecordHistory'
    <3>1. ASSUME NEW m \in Launches \ {l}  PROVE Spent(m) => Spent(m)'
      BY <1>2, <1>3 DEF Spent
    <3>2. Absent.status = "absent" /\ Torn.status = "torn" /\ Pending.status = "pending"
      BY DEF Absent, Torn, Pending
    <3>3. \A m \in Launches \ {l} : RecordPast(m)'
      BY <1>1, <1>2, <1>3, <1>7, <3>1 DEF RecordHistory, RecordPast
    <3>4. RecordPast(l)'
      <4>1. RecordPast(l)
        BY <1>1 DEF RecordHistory, RecordPast
      <4>2. /\ UNCHANGED expired /\ sealed' = sealed /\ lpc'[l] \notin {"idle", "done", "crashed"}
            /\ l \notin expired
        BY <1>2, <1>3, <1>7, <2>1, <4>1 DEF RecordPast
      <4>3. CASE lpc[l] \in {"idle", "write"}
        BY <2>1, <2>2, <3>2, <4>1, <4>2, <4>3 DEF RecordPast, Torn, Pending, Absent
      <4>4. CASE lpc[l] \notin {"idle", "write"}
        BY <2>1, <2>2, <3>2, <4>1, <4>2, <4>4 DEF RecordPast, Ended
      <4> QED
        BY <4>3, <4>4
    <3> QED
      BY <3>3, <3>4 DEF RecordHistory, RecordPast
  <2>4. ListedIsSeen'
    BY <1>1, <1>2, <1>3, <1>7 DEF ListedIsSeen
  <2>5. LiveKeepsRecord'
    BY <1>1, <1>2, <1>3, <1>7, <2>1, <2>2 DEF LiveKeepsRecord, Finalized, Ended, LaunchTypeOK
  <2> QED
    BY <1>5, <2>3, <2>4, <2>5 DEF LaunchPart
<1> QED
  BY <1>3, <1>6, <1>7

(* An enumeration collects no record of a session it has seen, and no record   *)
(* whose retention has not passed.                                            *)
LEMMA ListingRecords ==
  ASSUME RecordInv, ListStep \/ ExpireStep
  PROVE  LaunchPart'
<1>1. /\ RecordHistory /\ MetaIsOwn /\ ListedIsSeen /\ LiveKeepsRecord
      /\ HostTypeOK /\ StoreTypeOK /\ LaunchTypeOK
  BY DEF RecordInv, OwnershipInv, DurableInv, TypeOK
<1>2. /\ UNCHANGED <<name, kind, terminal, pane, tampered, late, workload, lpc, meta, sealed>>
      /\ \A l \in Launches : Live(l)' = Live(l) /\ IdentityOf(l)' = IdentityOf(l)
                             /\ Spent(l)' = Spent(l)
      /\ sealed \subseteq Launches
  BY <1>1 DEF ListStep, ExpireStep, hostVars, launchVars, Live, IdentityOf, NonceOf, Spent,
       Uncreated, CreateOf, LaunchTypeOK
<1>3. MetaIsOwn'
  BY <1>1, <1>2 DEF MetaIsOwn
<1>4. ASSUME NEW g \in Listers, ListSessions(g)  PROVE LaunchPart'
  <2>1. /\ UNCHANGED <<record, expired>> /\ listing' = listing \cup {g}
        /\ \A h \in listing : h # g => seen'[h] = seen[h]
        /\ seen'[g] = {r.nonce : r \in Rows}
    BY <1>1, <1>4 DEF ListSessions, StoreTypeOK
  <2>2. ASSUME NEW l \in Launches \ tampered, Live(l)  PROVE l \in seen'[g]
    <3>1. IdentityOf(l) \in Rows /\ IdentityOf(l).nonce = l
      BY <2>2 DEF Rows, IdentityOf, NonceOf
    <3> QED
      BY <2>1, <3>1
  <2>3. ListedIsSeen'
    BY <1>1, <1>2, <2>1, <2>2 DEF ListedIsSeen
  <2> QED
    BY <1>1, <1>2, <1>3, <2>1, <2>3 DEF LaunchPart, RecordHistory, RecordPast, LiveKeepsRecord, Finalized
<1>5. ASSUME NEW g \in Listers, ListFails(g)  PROVE LaunchPart'
  <2>1. /\ UNCHANGED <<record, expired>> /\ listing' = listing \ {g}
        /\ \A h \in listing' : seen'[h] = seen[h]
    BY <1>1, <1>5 DEF ListFails, StoreTypeOK
  <2> QED
    BY <1>1, <1>2, <1>3, <2>1
       DEF LaunchPart, ListedIsSeen, RecordHistory, RecordPast, LiveKeepsRecord, Finalized
<1>6. ASSUME NEW g \in Listers, Collect(g)  PROVE LaunchPart'
  <2>1. /\ UNCHANGED expired /\ listing' = listing \ {g} /\ g \in listing
        /\ \A h \in listing' : seen'[h] = seen[h]
        /\ \A l \in Launches : record'[l] = record[l] \/ record'[l] = Absent
        /\ \A l \in Launches : l \notin expired \/ l \in seen[g] => record'[l] = record[l]
        /\ \A l \in Launches : record[l] = Torn => record'[l] = record[l]
    BY <1>1, <1>6 DEF Collect, Collectable, StoreTypeOK
  <2>2. RecordHistory'
    BY <1>1, <1>2, <2>1 DEF RecordHistory, RecordPast, Absent
  <2>3. ListedIsSeen'
    BY <1>1, <1>2, <2>1 DEF ListedIsSeen
  <2>4. \A l \in sealed \ tampered : Live(l) => record'[l] = record[l]
    BY <1>1, <1>2, <2>1 DEF ListedIsSeen
  <2>5. LiveKeepsRecord'
    BY <1>1, <1>2, <2>1, <2>4 DEF LiveKeepsRecord, Finalized
  <2> QED
    BY <1>3, <2>2, <2>3, <2>5 DEF LaunchPart
<1>7. ASSUME NEW l \in Launches, Expires(l, InFlight(l))  PROVE LaunchPart'
  <2>1. /\ UNCHANGED record /\ listing' = {} /\ expired' = expired \cup {l}
        /\ lpc[l] \in Ended
    BY <1>1, <1>7 DEF Expires, InFlight, RecordHistory, RecordPast
  <2> QED
    BY <1>1, <1>2, <1>3, <2>1
       DEF LaunchPart, ListedIsSeen, RecordHistory, RecordPast, LiveKeepsRecord, Finalized
<1> QED
  BY <1>4, <1>5, <1>6, <1>7 DEF ListStep, ExpireStep

(* A removal deletes only a record whose session, and workload, are gone.      *)
LEMMA DeletionRecords ==
  ASSUME RecordInv, KillStep, NEW k \in Killers, DeleteRecord(k)
  PROVE  LaunchPart'
<1> DEFINE t == target[k].nonce
<1>1. /\ RecordHistory /\ MetaIsOwn /\ ListedIsSeen /\ LiveKeepsRecord
      /\ HostTypeOK /\ StoreTypeOK /\ LaunchTypeOK
      /\ CleanupAfterTerminal /\ KillIsOwned /\ RemovalProgress
  BY DEF RecordInv, OwnershipInv, DurableInv, TypeOK
<1>2. /\ UNCHANGED <<name, kind, terminal, pane, tampered, late, workload, lpc, meta, sealed>>
      /\ UNCHANGED <<expired, seen, listing>>
      /\ \A l \in Launches : Live(l)' = Live(l) /\ IdentityOf(l)' = IdentityOf(l)
                             /\ Spent(l)' = Spent(l)
      /\ sealed \subseteq Launches
  BY <1>1 DEF KillStep, DeleteRecord, hostVars, launchVars, Live, IdentityOf, NonceOf, Spent,
       Uncreated, CreateOf, LaunchTypeOK
<1>3. kpc[k] = "delete" /\ t \in Launches
  BY <1>1 DEF DeleteRecord, At, KillIsOwned
<1>4. ~Live(t) /\ (kind[t] = "command" => workload[t] = "none")
  BY <1>1, <1>3 DEF CleanupAfterTerminal, RemovalProgress
<1>5. /\ \A l \in Launches \ {t} : record'[l] = record[l]
      /\ record'[t] \in {record[t], Absent}
      /\ record[t] = Torn => record'[t] = record[t]
  BY <1>1, <1>3 DEF DeleteRecord, Unlink, StoreTypeOK, Verified, IsAbsent, Finalized, Torn,
       Absent
<1> HIDE DEF t
<1>6. RecordHistory'
  BY <1>1, <1>2, <1>3, <1>5 DEF RecordHistory, RecordPast, Absent
<1>7. MetaIsOwn' /\ ListedIsSeen'
  BY <1>1, <1>2 DEF MetaIsOwn, ListedIsSeen
<1>8. LiveKeepsRecord'
  BY <1>1, <1>2, <1>3, <1>4, <1>5 DEF LiveKeepsRecord, Finalized
<1> QED
  BY <1>6, <1>7, <1>8 DEF LaunchPart

(* Every step keeps the launches' part.                                       *)
LEMMA LaunchPartStep ==
  ASSUME HostAssumption, RecordInv, [Next]_vars
  PROVE  LaunchPart'
<1>1. /\ OwnershipInv /\ DurableInv /\ CreatedOnce /\ LaunchTypeOK
      /\ TerminalStep /\ WorldStep
  BY EveryTerminalStep, EveryWorldStep DEF RecordInv, OwnershipInv, DurableInv, TypeOK
<1>2. CASE HostStep \/ UNCHANGED vars
  <2>1. UNCHANGED <<record, expired, seen, listing, meta, sealed, lpc>>
    BY <1>2 DEF HostStep, vars, storeVars, launchVars
  <2> QED
    BY <1>1, <2>1, QuietRecords
<1>3. CASE LaunchStep
  <2>1. PICK l \in Launches : Controller(l) \/ ControllerCrashes(l) \/ Bootstrap(l)
    BY <1>3 DEF LaunchStep, LaunchNext
  <2>2. CASE \/ CreatePendingRecord(l) \/ WritePendingRecord(l) \/ QuerySession(l) \/ FinalizeRecord(l)
             \/ RollbackLookup(l) \/ FailRecord(l)
    BY <2>2, BookkeepingRecords
  <2>3. CASE CreateSession(l) \/ ReleaseBootstrap(l) \/ RollbackKill(l) \/ ControllerCrashes(l)
    <3>1. UNCHANGED <<record, expired, seen, listing, meta, sealed>>
      BY <2>3 DEF CreateSession, ReleaseBootstrap, RollbackKill, ControllerCrashes, storeVars
    <3>2. PICK to : Goto(l, to)
      BY <2>3 DEF CreateSession, ReleaseBootstrap, RollbackKill, ControllerCrashes
    <3>3. /\ lpc[l] \notin Ended /\ lpc[l] # "idle" /\ lpc'[l] \notin {"idle", "write"}
          /\ lpc'[l] \in {"query", "finalize"} => lpc[l] = "create"
          /\ lpc[l] \in {"write", "unlink"} => lpc'[l] \in Ended
      BY <1>1, <2>3 DEF CreateSession, ReleaseBootstrap, RollbackKill, ControllerCrashes,
           InFlight, Ended, Goto, LaunchTypeOK
    <3>4. \A m \in Launches : lpc'[m] # lpc[m] => m = l
      BY <1>1, <3>2 DEF Goto, LaunchTypeOK
    <3> QED
      BY <1>1, <3>1, <3>3, <3>4, QuietRecords
  <2>4. CASE Bootstrap(l)
    <3>1. UNCHANGED <<record, expired, seen, listing, meta, sealed, lpc>>
      BY <2>4 DEF Bootstrap, ExecAgent, WaitFails, BootstrapLookup, BootstrapKill,
           storeVars, launchVars
    <3> QED
      BY <1>1, <3>1, QuietRecords
  <2> QED
    BY <2>1, <2>2, <2>3, <2>4 DEF Controller
<1>4. CASE KillStep
  <2>1. PICK k \in Killers : Request(k) \/ Removal(k) \/ Interrupted(k)
    BY <1>4 DEF KillStep, KillNext
  <2>2. CASE DeleteRecord(k)
    BY <1>4, <2>2, DeletionRecords
  <2>3. CASE ~DeleteRecord(k)
    <3>1. UNCHANGED <<record, expired, seen, listing, meta, sealed, lpc>>
      BY <1>4, <2>1, <2>3 DEF Request, Removal, TakeAuthority, ProveBeforeKill,
           ConditionalKill, ProveAfterKill, ProveBeforeCleanup, RereadRecord, ResolveRuntime,
           StopWorkload, Interrupted, KillStep, storeVars, launchVars
    <3> QED
      BY <1>1, <3>1, QuietRecords
  <2> QED
    BY <2>2, <2>3
<1>5. CASE ListStep \/ ExpireStep
  BY <1>5, ListingRecords
<1> QED
  BY <1>2, <1>3, <1>4, <1>5 DEF Next

-----------------------------------------------------------------------------
(* A record that is gone, of a launch that has begun, stays gone.             *)
LEMMA AbsentStays ==
  ASSUME TypeOK, [Next]_vars, NEW l \in Launches, record[l] = Absent, Spent(l)
  PROVE  record'[l] = Absent
<1>1. record \in [Launches -> RecordShape] /\ lpc[l] \notin {"idle", "write"}
  BY DEF TypeOK, StoreTypeOK, Spent, Uncreated
<1>2. CASE LaunchStep
  <2>1. PICK m \in Launches : Controller(m) \/ ControllerCrashes(m) \/ Bootstrap(m)
    BY <1>2 DEF LaunchStep, LaunchNext
  <2>2. CASE CreatePendingRecord(m) \/ WritePendingRecord(m)
    BY <1>1, <2>2 DEF CreatePendingRecord, WritePendingRecord, Unlink, Torn, Pending
  <2>3. CASE FinalizeRecord(m)
    BY <1>1, <2>3 DEF FinalizeRecord, Absent
  <2>4. CASE FailRecord(m)
    BY <1>1, <2>4 DEF FailRecord, Unlink
  <2>5. CASE \/ CreateSession(m) \/ QuerySession(m) \/ ReleaseBootstrap(m) \/ RollbackLookup(m)
             \/ RollbackKill(m) \/ ControllerCrashes(m) \/ Bootstrap(m)
    BY <2>5 DEF CreateSession, QuerySession, ReleaseBootstrap, RollbackLookup, RollbackKill,
         ControllerCrashes, Bootstrap, ExecAgent, WaitFails, BootstrapLookup, BootstrapKill,
         storeVars
  <2> QED
    BY <2>1, <2>2, <2>3, <2>4, <2>5 DEF Controller
<1>3. CASE KillStep
  <2>1. PICK k \in Killers : Request(k) \/ Removal(k) \/ Interrupted(k)
    BY <1>3 DEF KillStep, KillNext
  <2>2. CASE DeleteRecord(k)
    BY <1>1, <2>2 DEF DeleteRecord, Unlink
  <2>3. CASE ~DeleteRecord(k)
    BY <2>1, <2>3 DEF Request, Removal, TakeAuthority, ProveBeforeKill, ConditionalKill,
         ProveAfterKill, ProveBeforeCleanup, RereadRecord, ResolveRuntime, StopWorkload,
         Interrupted, storeVars
  <2> QED
    BY <2>2, <2>3
<1>4. CASE ListStep \/ ExpireStep
  BY <1>4 DEF ListStep, ExpireStep, ListSessions, ListFails, Collect, Expires
<1>5. CASE HostStep \/ UNCHANGED vars
  BY <1>5 DEF HostStep, vars, storeVars
<1> QED
  BY <1>2, <1>3, <1>4, <1>5 DEF Next

\* One removal's part of RemovalProgress.
Progress(k) ==
  LET l == target[k].nonce
  IN  /\ kpc[k] \in {"prove", "kill", "recheck", "finish", "record"} =>
           (kind[l] = "command" => teardown[k] # "none")
      /\ kpc[k] \in {"delete", "removed"} => (kind[l] = "command" => workload[l] = "none")
      /\ kpc[k] = "removed" => record[l] = Absent

(* What a removal has achieved, no other step undoes.                         *)
LEMMA ProgressKept ==
  ASSUME HostAssumption, RecordInv, [Next]_vars, WorldStep, NEW k \in Killers, Progress(k),
         kpc'[k] = kpc[k], target'[k] = target[k], teardown'[k] = teardown[k]
  PROVE  Progress(k)'
<1> DEFINE l == target[k].nonce
<1>1. /\ TypeOK /\ TargetIsSpent /\ KillIsOwned /\ CleanupAfterTerminal
      /\ workload \in [Launches -> {"none", "running"}]
  BY DEF RecordInv, OwnershipInv, DurableInv, TypeOK, HostTypeOK
<1>2. DurableInv'
  BY DurableInvStep DEF RecordInv, OwnershipInv
<1>3. kpc[k] \in {"delete", "removed"} => l \in Launches /\ ~Live(l) /\ Spent(l)
  BY <1>1 DEF KillIsOwned, CleanupAfterTerminal, TargetIsSpent
<1>4. kpc[k] \in {"delete", "removed"} /\ kind[l] = "command" => workload'[l] = "none"
  <2>1. workload' \in [Launches -> {"none", "running"}]
    BY <1>2 DEF DurableInv, TypeOK, HostTypeOK
  <2> QED
    BY <1>1, <1>3, <2>1 DEF Progress, WorldStep
<1>5. kpc[k] = "removed" => record'[l] = Absent
  BY <1>1, <1>3, AbsentStays DEF Progress
<1> QED
  BY <1>4, <1>5 DEF Progress, WorldStep, Absent

(* A removal's own steps make the progress they should.                       *)
LEMMA ProgressMade ==
  ASSUME HostAssumption, RecordInv, KillStep, NEW k \in Killers,
         Request(k) \/ Removal(k) \/ Interrupted(k)
  PROVE  Progress(k)'
<1> DEFINE l == target[k].nonce
<1>1. /\ TypeOK /\ TargetIsSpent /\ KillIsOwned /\ RemovalProgress
      /\ workload \in [Launches -> {"none", "running"}]
      /\ kind \in [Launches -> Kinds] /\ Kinds \subseteq RuntimeKinds
      /\ record \in [Launches -> RecordShape]
      /\ kpc \in [Killers -> KillStates]
      /\ teardown \in [Killers -> {"none", "stop", "skip"}]
      /\ target \in [Killers -> Identities \cup {Unset}]
  BY DEF RecordInv, OwnershipInv, DurableInv, TypeOK, HostTypeOK, StoreTypeOK, KillTypeOK,
       HostAssumption
<1>2. CASE Request(k) \/ Interrupted(k)
  BY <1>1, <1>2 DEF Request, Interrupted, To, Progress
<1>3. CASE TakeAuthority(k)
  <2>1. CASE kpc'[k] = "refused"
    BY <2>1 DEF Progress
  <2>2. ASSUME Verified(target[k]), NEW t \in Preparations(l),
               teardown' = [teardown EXCEPT ![k] = t], To(k, "prove")
        PROVE  Progress(k)'
    <3>1. l \in Launches /\ kind[l] \in RuntimeKinds
      BY <1>1, <2>2 DEF Verified
    <3>2. kind[l] = "command" => t # "none"
      BY <2>2 DEF Preparations
    <3>3. /\ target' = target /\ kind' = kind
          /\ kpc'[k] = "prove" /\ teardown'[k] = t
      BY <1>1, <1>3, <2>2 DEF TakeAuthority, To, hostVars
    <3> QED
      BY <3>2, <3>3 DEF Progress
  <2> QED
    BY <1>1, <1>3, <2>1, <2>2 DEF TakeAuthority, To
<1>4. CASE ProveBeforeKill(k)
  <2>1. PICK to \in {"kill", "finish", "refused"} : To(k, to)
    BY <1>4 DEF ProveBeforeKill, ExactIdentity
  <2> QED
    BY <1>1, <1>4, <2>1 DEF ProveBeforeKill, At, To, RemovalProgress, Progress, hostVars
<1>5. CASE ConditionalKill(k)
  BY <1>1, <1>5 DEF ConditionalKill, At, To, RemovalProgress, Progress
<1>6. CASE ProveAfterKill(k)
  <2>1. PICK to \in {"finish", "refused"} : To(k, to)
    BY <1>6 DEF ProveAfterKill
  <2> QED
    BY <1>1, <1>6, <2>1 DEF ProveAfterKill, At, To, RemovalProgress, Progress, hostVars
<1>7. CASE ProveBeforeCleanup(k)
  <2>1. PICK to \in {"record", "retained"} : To(k, to)
    BY <1>7 DEF ProveBeforeCleanup
  <2> QED
    BY <1>1, <1>7, <2>1 DEF ProveBeforeCleanup, At, To, RemovalProgress, Progress, hostVars
<1>8. CASE RereadRecord(k)
  <2>1. /\ kpc[k] = "record" /\ UNCHANGED <<kind, workload, record, target, teardown>>
        /\ kind[l] = "command" => teardown[k] # "none"
    BY <1>1, <1>8 DEF RereadRecord, At, RemovalProgress, hostVars, storeVars
  <2>2. CASE teardown[k] = "none" /\ To(k, "delete")
    BY <1>1, <2>1, <2>2 DEF To, Progress
  <2>3. CASE To(k, "resolve") \/ To(k, "retained")
    BY <1>1, <2>3 DEF To, Progress
  <2>4. CASE IsAbsent(target[k]) /\ kind[l] = "direct" /\ To(k, "removed")
    BY <1>1, <2>1, <2>4 DEF IsAbsent, To, Progress, Absent
  <2> QED
    BY <1>1, <1>8, <2>2, <2>3, <2>4 DEF RereadRecord
<1>9. CASE ResolveRuntime(k)
  BY <1>1, <1>9 DEF ResolveRuntime, To, Progress
<1>10. CASE StopWorkload(k)
  <2>1. kpc[k] = "stop" /\ l \in Launches /\ target' = target
    BY <1>1, <1>10 DEF StopWorkload, At, KillIsOwned
  <2>2. CASE workload' = [workload EXCEPT ![l] = "none"] /\ To(k, "delete")
    BY <1>1, <2>1, <2>2 DEF To, Progress
  <2>3. CASE To(k, "retained")
    BY <1>1, <2>3 DEF To, Progress
  <2> QED
    BY <1>10, <2>2, <2>3 DEF StopWorkload
<1>11. CASE DeleteRecord(k)
  <2>1. /\ kpc[k] = "delete" /\ l \in Launches /\ UNCHANGED <<kind, workload, target, teardown>>
        /\ kind[l] = "command" => workload[l] = "none"
    BY <1>1, <1>11 DEF DeleteRecord, At, KillIsOwned, RemovalProgress, hostVars
  <2>2. CASE Unlink(l) /\ To(k, "removed")
    BY <1>1, <2>1, <2>2 DEF Unlink, To, Progress, Absent
  <2>3. CASE To(k, "retained")
    BY <1>1, <2>3 DEF To, Progress
  <2> QED
    BY <1>11, <2>2, <2>3 DEF DeleteRecord
<1> QED
  BY <1>2, <1>3, <1>4, <1>5, <1>6, <1>7, <1>8, <1>9, <1>10, <1>11 DEF Removal

(* Every step keeps the third invariant.                                      *)
LEMMA RecordInvStep ==
  ASSUME HostAssumption, RecordInv, [Next]_vars
  PROVE  RecordInv'
<1>1. OwnershipInv' /\ WorldStep
  BY OwnershipInvStep, EveryWorldStep DEF RecordInv, OwnershipInv
<1>2. LaunchPart'
  BY LaunchPartStep
<1>3. \A k \in Killers : Progress(k)
  BY DEF RecordInv, RemovalProgress, Progress
<1>4. ASSUME NEW k \in Killers  PROVE Progress(k)'
  <2>1. CASE kpc'[k] = kpc[k] /\ target'[k] = target[k] /\ teardown'[k] = teardown[k]
    BY <1>1, <1>3, <2>1, ProgressKept
  <2>2. CASE UNCHANGED killVars
    BY <2>1, <2>2 DEF killVars
  <2>3. CASE KillStep
    <3>1. PICK j \in Killers : Request(j) \/ Removal(j) \/ Interrupted(j)
      BY <2>3 DEF KillStep, KillNext
    <3>2. CASE j = k
      BY <2>3, <3>1, <3>2, ProgressMade
    <3>3. CASE j # k
      <4>1. KillTypeOK
        BY DEF RecordInv, OwnershipInv, DurableInv, TypeOK
      <4>2. kpc'[k] = kpc[k] /\ target'[k] = target[k] /\ teardown'[k] = teardown[k]
        BY <3>1, <3>3, <4>1 DEF Request, Removal, TakeAuthority, ProveBeforeKill,
           ConditionalKill, ProveAfterKill, ProveBeforeCleanup, RereadRecord, ResolveRuntime,
           StopWorkload, DeleteRecord, Interrupted, To, KillTypeOK, ExactIdentity
      <4> QED
        BY <2>1, <4>2
    <3> QED
      BY <3>2, <3>3
  <2> QED
    BY <2>2, <2>3 DEF Next, HostStep, LaunchStep, ListStep, ExpireStep, vars
<1>5. RemovalProgress'
  BY <1>4 DEF RemovalProgress, Progress
<1> QED
  BY <1>1, <1>2, <1>5 DEF RecordInv, LaunchPart

(* The third invariant holds throughout.                                      *)
THEOREM RecordInvariant == Spec => []RecordInv
<1>1. Init => RecordInv
  <2> SUFFICES ASSUME Init PROVE RecordInv
    OBVIOUS
  <2>1. DurableInv
    BY HostAssumption, DurableInvInit
  <2>2. CreatedOnce /\ TargetIsSpent /\ KillIsOwned /\ CleanupAfterTerminal
    BY DEF Init, HostInit, LaunchInit, KillInit, CreatedOnce, Uncreated, TargetIsSpent,
         KillIsOwned, CleanupAfterTerminal, Live
  <2>3. RecordHistory /\ MetaIsOwn /\ ListedIsSeen /\ LiveKeepsRecord /\ RemovalProgress
    BY DEF Init, StoreInit, LaunchInit, KillInit, RecordHistory, RecordPast, MetaIsOwn,
         ListedIsSeen, LiveKeepsRecord, RemovalProgress, Absent, Ended
  <2> QED
    BY <2>1, <2>2, <2>3 DEF RecordInv, OwnershipInv
<1>2. RecordInv /\ [Next]_vars => RecordInv'
  BY HostAssumption, RecordInvStep
<1> QED
  BY <1>1, <1>2, PTL DEF Spec

(* A running agent keeps the record that is the authority over it, whatever    *)
(* removals, enumerations and collections go on.                              *)
THEOREM AgentKeepsRecord == Spec => []RunningAgentKeepsRecord
<1>1. RecordInv => RunningAgentKeepsRecord
  BY DEF RecordInv, OwnershipInv, DurableInv, DurableBeforeExec, PaneHasSession,
         LiveKeepsRecord, RunningAgentKeepsRecord
<1> QED
  BY <1>1, RecordInvariant, PTL

(* A workload that outlives its terminal keeps the record it can be reaped by. *)
THEOREM OrphanRecordStays == Spec => []OrphanKeepsRecord
<1>1. RecordInv => OrphanKeepsRecord
  BY DEF RecordInv, OwnershipInv, DurableInv, DurableBeforeExec, LiveKeepsRecord,
         OrphanKeepsRecord
<1> QED
  BY <1>1, RecordInvariant, PTL

(* A removal that reports success has left no session, no record and no        *)
(* workload that it had the means to stop.                                    *)
THEOREM RemovalIsComplete == Spec => []ReportedRemovalIsComplete
<1>1. RecordInv => ReportedRemovalIsComplete
  BY DEF RecordInv, OwnershipInv, CleanupAfterTerminal, RemovalProgress,
         ReportedRemovalIsComplete
<1> QED
  BY <1>1, RecordInvariant, PTL

-----------------------------------------------------------------------------
(* The lifecycle implements the promise.                                     *)

\* What the promise sees of a launch's lifecycle.
Phases == [l \in Launches |-> Phase(l)]
Running == {l \in Launches : pane[l] = "agent"}
Disowned == {l \in Launches : lpc[l] = "failed"} \cup tampered

PhasesKept == \A l \in Launches : Phase(l)' = Phase(l)

(* A launch's phase follows from its record and its past.                     *)
LEMMA PhaseOf ==
  ASSUME NEW l \in Launches
  PROVE  /\ record[l].status = "pending" => Phase(l) = "declared"
         /\ record[l].status = "finalized" => Phase(l) = "sealed"
         /\ record[l].status \in {"absent", "torn"} =>
              Phase(l) = IF l \in sealed THEN "closed"
                         ELSE IF lpc[l] \in {"idle", "write"} THEN "fresh" ELSE "void"
         /\ record'[l].status = "pending" => Phase(l)' = "declared"
         /\ record'[l].status = "finalized" => Phase(l)' = "sealed"
         /\ record'[l].status \in {"absent", "torn"} =>
              Phase(l)' = IF l \in sealed' THEN "closed"
                          ELSE IF lpc'[l] \in {"idle", "write"} THEN "fresh" ELSE "void"
BY DEF Phase

(* It is left alone with them.                                               *)
LEMMA PhaseKept ==
  ASSUME NEW l \in Launches, record'[l] = record[l], l \in sealed' <=> l \in sealed,
         lpc'[l] \in {"idle", "write"} <=> lpc[l] \in {"idle", "write"}
  PROVE  Phase(l)' = Phase(l)
BY DEF Phase

(* A step that only ends agents is one of the promise.                        *)
LEMMA StopImplements ==
  ASSUME PhasesKept, Running' \subseteq Running, Disowned' = Disowned
  PROVE  Authority!Next
<1>1. PICK S \in SUBSET Launches : Running' = Running \ S
  <2>1. (Running \ Running') \in SUBSET Launches /\ Running' = Running \ (Running \ Running')
    BY DEF Running
  <2> QED
    BY <2>1
<1>2. Phases' = Phases
  BY DEF Phases, PhasesKept
<1>3. Authority!Stop(S)
  BY <1>1, <1>2 DEF Authority!Stop, Phases, Running, Disowned
<1> QED
  BY <1>1, <1>3 DEF Authority!Next

(* A launch that is given up, its declaration closed with it or not.          *)
LEMMA DisownImplements ==
  ASSUME NEW l \in Launches, Disowned' = Disowned \cup {l}, Running' = Running,
         \A m \in Launches \ {l} : Phase(m)' = Phase(m),
         \/ Phase(l)' = Phase(l)
         \/ Phase(l) = "declared" /\ Phase(l)' = "void"
         \/ Phase(l) = "sealed" /\ Phase(l)' = "closed"
  PROVE  Authority!Next
<1>1. \/ Phases' = Phases
      \/ /\ Phases[l] \in Authority!Open
         /\ Phases' = [Phases EXCEPT ![l] = Authority!Closing(@)]
  BY DEF Phases, Authority!Open, Authority!Closing
<1>2. Authority!Disown(l)
  BY <1>1 DEF Authority!Disown, Phases, Running, Disowned
<1> QED
  BY <1>2 DEF Authority!Next

(* A declaration that moves on by itself.                                    *)
LEMMA MoveImplements ==
  ASSUME NEW l \in Launches, Disowned' = Disowned, Running' = Running,
         \A m \in Launches \ {l} : Phase(m)' = Phase(m),
         \/ Phase(l) = "fresh" /\ Phase(l)' \in {"declared", "void"}
         \/ Phase(l) = "declared" /\ Phase(l)' = "sealed"
  PROVE  Authority!Next
<1>1. Phases' = [Phases EXCEPT ![l] = Phase(l)'] /\ Phases[l] = Phase(l)
  BY DEF Phases
<1>2. Authority!Declare(l) \/ Authority!Seal(l)
  BY <1>1 DEF Authority!Declare, Authority!Seal, Authority!Move, Phases, Running, Disowned
<1> QED
  BY <1>2 DEF Authority!Next

(* Declarations closed without touching that of a running agent.              *)
LEMMA CloseImplements ==
  ASSUME NEW S \in SUBSET Launches, Disowned' = Disowned, Running' = Running,
         \A l \in S : l \in Running => l \in Disowned,
         \A l \in S : \/ Phase(l) = "declared" /\ Phase(l)' = "void"
                      \/ Phase(l) = "sealed" /\ Phase(l)' = "closed",
         \A l \in Launches \ S : Phase(l)' = Phase(l)
  PROVE  Authority!Next
<1>1. /\ \A l \in S : Phases[l] \in Authority!Open
      /\ Phases' = [l \in Launches |-> IF l \in S THEN Authority!Closing(Phases[l])
                                                  ELSE Phases[l]]
  BY DEF Phases, Authority!Open, Authority!Closing
<1>2. Authority!Close(S)
  BY <1>1 DEF Authority!Close, Phases, Running, Disowned
<1> QED
  BY <1>2 DEF Authority!Next

(* An agent that starts under a sealed, or a disowned launch's closed,         *)
(* declaration.                                                              *)
LEMMA StartImplements ==
  ASSUME NEW l \in Launches, Disowned' = Disowned, PhasesKept, l \notin Running,
         Running' = Running \cup {l},
         Phase(l) = "sealed" \/ (Phase(l) = "closed" /\ l \in Disowned)
  PROVE  Authority!Next
<1>1. Phases' = Phases /\ Phases[l] = Phase(l)
  BY DEF Phases, PhasesKept
<1>2. Authority!Start(l)
  BY <1>1 DEF Authority!Start, Phases, Running, Disowned
<1> QED
  BY <1>2 DEF Authority!Next

(* A step that touches no record, and neither begins a launch nor gives one up. *)
LEMMA QuietPhases ==
  ASSUME UNCHANGED <<record, sealed>>,
         \A l \in Launches : lpc'[l] \in {"idle", "write"} <=> lpc[l] \in {"idle", "write"},
         \A l \in Launches : lpc'[l] = "failed" <=> lpc[l] = "failed"
  PROVE  PhasesKept /\ (tampered' = tampered => Disowned' = Disowned)
BY PhaseKept DEF PhasesKept, Disowned

(* A command starts no agent.                                                *)
LEMMA EffectStartsNone ==
  ASSUME HostTypeOK, NEW c, Effect(c)
  PROVE  Running' \subseteq Running
<1>1. CASE c.op = "create"
  BY <1>1 DEF Effect, CreateEffect, Running, HostTypeOK
<1>2. CASE c.op = "release"
  BY <1>2 DEF Effect, ReleaseEffect, Running, HostTypeOK
<1>3. CASE c.op = "kill"
  BY <1>3 DEF Effect, KillEffect, EndSessions, Running
<1> QED
  BY <1>1, <1>2, <1>3 DEF Effect

(* A command that is sent starts no agent and no workload.                  *)
LEMMA SendStartsNone ==
  ASSUME HostTypeOK, NEW c, NEW refused, NEW outcome, Send(c, refused, outcome)
  PROVE  Running' \subseteq Running
<1>1. Effect(c) \/ pane' = pane
  BY DEF Send
<1> QED
  BY <1>1, EffectStartsNone DEF Running

(* The host's steps.                                                         *)
LEMMA HostImplements ==
  ASSUME RecordInv, HostStep
  PROVE  Authority!Next
<1>1. HostTypeOK
  BY DEF RecordInv, OwnershipInv, DurableInv, TypeOK
<1>2. PhasesKept /\ (tampered' = tampered => Disowned' = Disowned)
  BY QuietPhases DEF HostStep, storeVars, launchVars
<1>3. ASSUME tampered' = tampered, Running' \subseteq Running  PROVE Authority!Next
  BY <1>2, <1>3, StopImplements
<1>4. ASSUME NEW c \in late, LateCommand(c)  PROVE Authority!Next
  BY <1>1, <1>3, <1>4, EffectStartsNone DEF LateCommand
<1>5. ASSUME NEW l \in Launches, AgentExits(l)  PROVE Authority!Next
  BY <1>1, <1>3, <1>5 DEF AgentExits, EndSessions, Running, HostTypeOK
<1>6. ASSUME NEW S, SessionsEnd(S)  PROVE Authority!Next
  BY <1>3, <1>6 DEF SessionsEnd, EndSessions, Running
<1>7. ASSUME NEW l \in Launches, RuntimeRestarts(l)  PROVE Authority!Next
  BY <1>3, <1>7 DEF RuntimeRestarts, Running
<1>8. CASE Tick
  BY <1>3, <1>8 DEF Tick, Running
<1>9. ASSUME NEW l \in Launches, Tamper(l)  PROVE Authority!Next
  <2>1. Disowned' = Disowned \cup {l} /\ Running' = Running
    BY <1>9 DEF Tamper, HostStep, launchVars, Disowned, Running
  <2> QED
    BY <1>2, <2>1, DisownImplements DEF PhasesKept
<1> QED
  BY <1>4, <1>5, <1>6, <1>7, <1>8, <1>9 DEF HostStep, HostNext

\* A step the promise allows, or does not see.
Allowed == Authority!Next \/ (PhasesKept /\ Running' = Running /\ Disowned' = Disowned)

(* A launch's steps.                                                         *)
LEMMA LaunchImplements ==
  ASSUME RecordInv, LaunchStep
  PROVE  Allowed
<1>1. /\ HostTypeOK /\ LaunchTypeOK /\ StoreTypeOK /\ RecordHistory /\ LiveKeepsRecord
      /\ DurableBeforeExec /\ PaneHasSession
  BY DEF RecordInv, OwnershipInv, DurableInv, TypeOK
<1>2. PICK l \in Launches : Controller(l) \/ ControllerCrashes(l) \/ Bootstrap(l)
  BY DEF LaunchStep, LaunchNext
<1>3. ASSUME NEW to \in LaunchStates \ {"idle", "write", "failed"}, Goto(l, to),
             lpc[l] \notin Ended \cup {"idle", "write"},
             UNCHANGED <<record, sealed, tampered>>, Running' \subseteq Running
      PROVE  Allowed
  <2>1. PhasesKept /\ Disowned' = Disowned
    BY <1>1, <1>3, QuietPhases DEF Goto, LaunchTypeOK, Ended
  <2> QED
    BY <1>3, <2>1, StopImplements DEF Allowed
<1>4. CASE CreateSession(l) \/ ReleaseBootstrap(l) \/ RollbackKill(l)
  <2>1. Running' \subseteq Running
    BY <1>1, <1>4, SendStartsNone DEF CreateSession, ReleaseBootstrap, RollbackKill
  <2>2. \E to \in LaunchStates \ {"idle", "write", "failed"} : Goto(l, to)
    BY <1>4 DEF CreateSession, ReleaseBootstrap, RollbackKill, LaunchStates
  <2>3. lpc[l] \notin Ended \cup {"idle", "write"} /\ UNCHANGED <<record, sealed, tampered>>
    BY <1>4 DEF CreateSession, ReleaseBootstrap, RollbackKill, CommandFrame, storeVars, Ended
  <2> QED
    BY <1>3, <2>1, <2>2, <2>3
<1>5. CASE \/ QuerySession(l) \/ RollbackLookup(l)
           \/ ControllerCrashes(l) /\ lpc[l] # "write"
  <2>1. \E to \in LaunchStates \ {"idle", "write", "failed"} : Goto(l, to)
    BY <1>5 DEF QuerySession, RollbackLookup, ControllerCrashes, LaunchStates
  <2>2. lpc[l] \notin Ended \cup {"idle", "write"} /\ UNCHANGED <<record, sealed, tampered, pane>>
    BY <1>5 DEF QuerySession, RollbackLookup, ControllerCrashes, InFlight, hostVars, storeVars,
         Ended
  <2> QED
    BY <1>3, <2>1, <2>2 DEF Running
<1>6. CASE CreatePendingRecord(l) \/ WritePendingRecord(l) \/ FinalizeRecord(l) \/ FailRecord(l)
  <2>1. /\ UNCHANGED <<pane, tampered>> /\ Running' = Running
        /\ \A m \in Launches \ {l} : record'[m] = record[m] /\ lpc'[m] = lpc[m]
        /\ \A m \in Launches \ {l} : m \in sealed' <=> m \in sealed
    BY <1>1, <1>6 DEF CreatePendingRecord, WritePendingRecord, Unlink, Torn, Pending,
         FinalizeRecord, FailRecord, Goto, hostVars, Running, StoreTypeOK, LaunchTypeOK
  <2>2. \A m \in Launches \ {l} : Phase(m)' = Phase(m)
    BY <2>1, PhaseKept
  <2>3. CASE CreatePendingRecord(l) \/ WritePendingRecord(l)
    <3>1. /\ record[l] \in {Absent, Torn} /\ lpc[l] \in {"idle", "write"}
          /\ l \notin sealed /\ sealed' = sealed
          /\ record'[l] \in {Torn, Pending, Absent} /\ lpc'[l] \notin {"idle", "failed"}
          /\ lpc'[l] = "write" => record'[l] = Torn
      BY <1>1, <2>3 DEF CreatePendingRecord, WritePendingRecord, Unlink, RecordHistory,
           RecordPast, Spent, Uncreated, Goto, StoreTypeOK, LaunchTypeOK
    <3>2. /\ Phase(l) = "fresh"
          /\ Phase(l)' \in {"declared", "void"} \/ Phase(l)' = Phase(l)
      BY <3>1, PhaseOf DEF Absent, Torn, Pending
    <3>3. Disowned' = Disowned
      BY <2>1, <3>1 DEF Disowned
    <3>4. CASE Phase(l)' = Phase(l)
      <4>1. PhasesKept
        BY <2>2, <3>4 DEF PhasesKept
      <4> QED
        BY <2>1, <3>3, <4>1 DEF Allowed
    <3> QED
      BY <2>1, <2>2, <3>2, <3>3, <3>4, MoveImplements DEF Allowed
  <2>4. CASE FinalizeRecord(l)
    <3>1. lpc[l] = "finalize" /\ lpc'[l] \in {"release", "lookup"}
      BY <1>1, <2>4 DEF FinalizeRecord, Goto, LaunchTypeOK
    <3>2. Disowned' = Disowned
      BY <2>1, <3>1 DEF Disowned
    <3>3. CASE UNCHANGED <<record, sealed>>
      <4>1. PhasesKept
        BY <2>2, <3>1, <3>3, PhaseKept DEF PhasesKept
      <4> QED
        BY <2>1, <3>2, <4>1 DEF Allowed
    <3>4. CASE /\ record[l].status = "pending" /\ record' = [record EXCEPT ![l] = Finalized(meta[l])]
      <4>1. record'[l].status = "finalized"
        BY <1>1, <3>4 DEF Finalized, StoreTypeOK
      <4>2. Phase(l) = "declared" /\ Phase(l)' = "sealed"
        BY <3>4, <4>1, PhaseOf
      <4> QED
        BY <2>1, <2>2, <3>2, <4>2, MoveImplements DEF Allowed
    <3> QED
      BY <2>4, <3>3, <3>4 DEF FinalizeRecord
  <2>5. CASE FailRecord(l)
    <3>1. /\ lpc[l] = "unlink" /\ lpc'[l] = "failed" /\ sealed' = sealed
          /\ record'[l] = Absent \/ record'[l] = record[l]
          /\ record[l].status \in {"absent", "torn", "pending", "finalized"}
      BY <1>1, <2>5 DEF FailRecord, Unlink, Goto, StoreTypeOK, LaunchTypeOK, RecordShape
    <3>2. Disowned' = Disowned \cup {l}
      BY <2>1, <3>1 DEF Disowned
    <3>3. \/ Phase(l)' = Phase(l)
          \/ Phase(l) = "declared" /\ Phase(l)' = "void"
          \/ Phase(l) = "sealed" /\ Phase(l)' = "closed"
      BY <1>1, <3>1, PhaseOf DEF RecordHistory, RecordPast, Absent, Torn
    <3> QED
      BY <2>1, <2>2, <3>2, <3>3, DisownImplements DEF Allowed
  <2> QED
    BY <1>6, <2>3, <2>4, <2>5
<1>7. CASE Bootstrap(l)
  <2>1. UNCHANGED <<record, sealed, tampered, lpc>>
    BY <1>7 DEF Bootstrap, ExecAgent, WaitFails, BootstrapLookup, BootstrapKill,
         CommandFrame, storeVars, launchVars
  <2>2. PhasesKept /\ Disowned' = Disowned
    BY <2>1, QuietPhases
  <2>3. CASE Running' \subseteq Running
    BY <2>2, <2>3, StopImplements DEF Allowed
  <2>4. CASE WaitFails(l) \/ BootstrapLookup(l) \/ BootstrapKill(l)
    <3>1. Running' \subseteq Running
      BY <1>1, <2>4 DEF WaitFails, BootstrapLookup, BootstrapKill, EndSessions, Running,
           HostTypeOK
    <3> QED
      BY <2>3, <3>1
  <2>5. CASE ExecAgent(l)
    <3>1. pane[l] = "woken" /\ (pane' = [pane EXCEPT ![l] = "agent"]
                                \/ pane' = [pane EXCEPT ![l] = "dead"])
      BY <2>5 DEF ExecAgent, Exec
    <3>2. CASE pane' = [pane EXCEPT ![l] = "dead"]
      BY <1>1, <2>3, <3>2 DEF Running, HostTypeOK
    <3>3. CASE pane' = [pane EXCEPT ![l] = "agent"]
      <4>1. l \notin Running /\ Running' = Running \cup {l}
        BY <1>1, <3>1, <3>3 DEF Running, HostTypeOK
      <4>2. l \in sealed /\ Live(l)
        BY <1>1, <3>1 DEF DurableBeforeExec, PaneHasSession
      <4>3. l \in Disowned \/ record[l].status = "finalized"
        <5>1. l \notin Disowned => lpc[l] # "failed" /\ l \notin tampered
          BY DEF Disowned
        <5>2. l \notin Disowned => record[l] = Finalized(IdentityOf(l))
          BY <1>1, <4>2, <5>1 DEF LiveKeepsRecord
        <5> QED
          BY <5>2 DEF Finalized
      <4>4. record[l].status \in {"absent", "finalized"}
        BY <1>1, <4>2 DEF RecordHistory, RecordPast, StoreTypeOK, RecordShape, Torn
      <4>5. Phase(l) = "sealed" \/ (Phase(l) = "closed" /\ l \in Disowned)
        BY <4>2, <4>3, <4>4, PhaseOf
      <4> QED
        BY <2>2, <4>1, <4>5, StartImplements DEF Allowed
    <3> QED
      BY <3>1, <3>2, <3>3
  <2> QED
    BY <1>7, <2>4, <2>5 DEF Bootstrap
<1>8. CASE ControllerCrashes(l) /\ lpc[l] = "write"
  <2>1. /\ UNCHANGED <<record, sealed, tampered, pane>> /\ lpc' = [lpc EXCEPT ![l] = "crashed"]
        /\ record[l] = Torn /\ l \notin sealed
    BY <1>1, <1>8 DEF ControllerCrashes, Goto, RecordHistory, RecordPast, Torn, hostVars,
         storeVars
  <2>2. lpc'[l] = "crashed" /\ \A m \in Launches \ {l} : lpc'[m] = lpc[m]
    BY <1>1, <2>1 DEF LaunchTypeOK
  <2>3. Phase(l) = "fresh" /\ Phase(l)' = "void"
    BY <1>8, <2>1, <2>2, PhaseOf DEF Torn
  <2>4. \A m \in Launches \ {l} : Phase(m)' = Phase(m)
    BY <2>1, <2>2, PhaseKept
  <2>5. Disowned' = Disowned /\ Running' = Running
    BY <1>8, <2>1, <2>2 DEF Disowned, Running
  <2> QED
    BY <2>3, <2>4, <2>5, MoveImplements DEF Allowed
<1> QED
  BY <1>2, <1>4, <1>5, <1>6, <1>7, <1>8 DEF Controller

(* A removal's steps: it deletes no record of a session that lives.           *)
LEMMA RemovalImplements ==
  ASSUME RecordInv, KillStep
  PROVE  Allowed
<1>1. /\ HostTypeOK /\ StoreTypeOK /\ RecordHistory /\ PaneHasSession /\ KillIsOwned
      /\ CleanupAfterTerminal
  BY DEF RecordInv, OwnershipInv, DurableInv, TypeOK
<1>2. PICK k \in Killers : Request(k) \/ Removal(k) \/ Interrupted(k)
  BY DEF KillStep, KillNext
<1>3. UNCHANGED <<lpc, sealed, tampered>> /\ Disowned' = Disowned
  BY <1>2 DEF KillStep, launchVars, Request, Removal, TakeAuthority, ProveBeforeKill,
     ConditionalKill, ProveAfterKill, ProveBeforeCleanup, RereadRecord, ResolveRuntime,
     StopWorkload, DeleteRecord, Interrupted, hostVars, Disowned
<1>4. ASSUME UNCHANGED record, Running' \subseteq Running  PROVE Allowed
  <2>1. PhasesKept
    BY <1>3, <1>4, QuietPhases
  <2> QED
    BY <1>3, <1>4, <2>1, StopImplements DEF Allowed
<1>5. CASE ConditionalKill(k)
  <2>1. Running' \subseteq Running
    BY <1>1, <1>5, SendStartsNone DEF ConditionalKill
  <2> QED
    BY <1>4, <1>5, <2>1 DEF ConditionalKill, storeVars
<1>6. CASE DeleteRecord(k)
  <2>1. PICK l \in Launches : l = target[k].nonce /\ ~Live(l)
    BY <1>1, <1>6 DEF DeleteRecord, At, KillIsOwned, CleanupAfterTerminal
  <2>2. l \notin Running /\ Running' = Running
    BY <1>1, <1>6, <2>1 DEF PaneHasSession, DeleteRecord, hostVars, Running
  <2>3. CASE record' = record
    BY <1>4, <2>2, <2>3
  <2>4. CASE record' # record
    <3>1. Verified(target[k]) \/ IsAbsent(target[k])
      BY <1>6, <2>4 DEF DeleteRecord
    <3>2. record' = [record EXCEPT ![l] = Absent]
      BY <1>6, <2>1, <2>4 DEF DeleteRecord, Unlink
    <3>3. record[l].status = "finalized" /\ record'[l].status = "absent"
      BY <1>1, <2>1, <2>4, <3>1, <3>2 DEF Verified, IsAbsent, Finalized, Absent, StoreTypeOK
    <3>4. Phase(l) = "sealed" /\ Phase(l)' = "closed"
      BY <1>1, <1>3, <2>1, <3>3, PhaseOf DEF RecordHistory, RecordPast
    <3>5. \A m \in Launches \ {l} : Phase(m)' = Phase(m)
      <4>1. \A m \in Launches \ {l} : record'[m] = record[m]
        BY <1>1, <3>2 DEF StoreTypeOK
      <4> QED
        BY <1>3, <4>1, PhaseKept
    <3>6. PICK S \in SUBSET Launches : S = {l}
      OBVIOUS
    <3> QED
      BY <1>3, <2>2, <3>4, <3>5, <3>6, CloseImplements DEF Allowed
  <2> QED
    BY <2>3, <2>4
<1>7. CASE ~ConditionalKill(k) /\ ~DeleteRecord(k)
  <2>1. UNCHANGED <<record, pane>>
    BY <1>2, <1>7 DEF Request, Removal, TakeAuthority, ProveBeforeKill, ProveAfterKill,
       ProveBeforeCleanup, RereadRecord, ResolveRuntime, StopWorkload, Interrupted,
       hostVars, storeVars
  <2> QED
    BY <1>4, <2>1 DEF Running
<1> QED
  BY <1>5, <1>6, <1>7

(* An enumeration's: what it collects belongs to no running agent.            *)
LEMMA ListingImplements ==
  ASSUME RecordInv, ListStep \/ ExpireStep
  PROVE  Allowed
<1>1. /\ StoreTypeOK /\ RecordHistory /\ PaneHasSession /\ ListedIsSeen
      /\ DurableBeforeExec
  BY DEF RecordInv, OwnershipInv, DurableInv, TypeOK
<1>2. UNCHANGED <<lpc, sealed, tampered, pane>> /\ Disowned' = Disowned /\ Running' = Running
  BY DEF ListStep, ExpireStep, hostVars, launchVars, Disowned, Running
<1>3. CASE UNCHANGED record
  BY <1>2, <1>3, QuietPhases DEF Allowed
<1>4. ASSUME NEW g \in Listers, Collect(g)  PROVE Allowed
  <2>1. PICK S \in SUBSET Launches : S = {l \in Launches : l \in Collectable(g) /\ record[l] # Absent}
    OBVIOUS
  <2>2. /\ g \in listing
        /\ \A l \in Launches \ S : record'[l] = record[l]
        /\ \A l \in S : record'[l] = Absent
    BY <1>4, <2>1 DEF Collect
  <2>3. \A l \in S : record[l].status \in {"pending", "finalized"}
    BY <1>1, <2>1 DEF Collectable, RecordHistory, RecordPast, StoreTypeOK, RecordShape
  <2>4. \A l \in S : \/ Phase(l) = "declared" /\ Phase(l)' = "void"
                     \/ Phase(l) = "sealed" /\ Phase(l)' = "closed"
    <3> SUFFICES ASSUME NEW l \in S
                 PROVE  \/ Phase(l) = "declared" /\ Phase(l)' = "void"
                        \/ Phase(l) = "sealed" /\ Phase(l)' = "closed"
      OBVIOUS
    <3>1. l \in Launches /\ record'[l].status = "absent"
      BY <2>1, <2>2 DEF Absent
    <3>2. /\ record[l].status = "pending" => l \notin sealed
          /\ record[l].status = "finalized" => l \in sealed
          /\ lpc[l] \notin {"idle", "write"}
      BY <1>1, <2>3, <3>1 DEF RecordHistory, RecordPast, Absent, Torn
    <3> QED
      BY <1>2, <2>3, <3>1, <3>2, PhaseOf
  <2>5. \A l \in S : l \in Running => l \in Disowned
    BY <1>1, <2>1, <2>2 DEF Collectable, ListedIsSeen, DurableBeforeExec, PaneHasSession,
       Running, Disowned
  <2>6. \A l \in Launches \ S : Phase(l)' = Phase(l)
    BY <1>2, <2>2, PhaseKept
  <2> QED
    BY <1>2, <2>4, <2>5, <2>6, CloseImplements DEF Allowed
<1> QED
  BY <1>3, <1>4 DEF ListStep, ExpireStep, ListSessions, ListFails, Expires

(* The lifecycle of managed sessions, whatever crashes, times out or is        *)
(* delayed, is one the launch records' promise allows, step by step.          *)
THEOREM LifecycleKeepsPromise == Spec => ImplementsAuthority
<1>1. Init => Authority!Init
  BY PhaseOf DEF Init, HostInit, StoreInit, LaunchInit, Authority!Init, Absent
<1>2. RecordInv /\ [Next]_vars => [Authority!Next]_(Authority!avars)
  <2> SUFFICES ASSUME RecordInv, [Next]_vars
               PROVE  Authority!Next \/ UNCHANGED Authority!avars
    OBVIOUS
  <2>1. Allowed \/ UNCHANGED vars
    BY HostImplements, LaunchImplements, RemovalImplements, ListingImplements
       DEF Next, Allowed
  <2>2. UNCHANGED vars => PhasesKept /\ Running' = Running /\ Disowned' = Disowned
    BY QuietPhases DEF vars, hostVars, storeVars, launchVars, Running
  <2>3. PhasesKept /\ Running' = Running /\ Disowned' = Disowned => UNCHANGED Authority!avars
    BY DEF PhasesKept, Running, Disowned, Authority!avars
  <2> QED
    BY <2>1, <2>2, <2>3 DEF Allowed
<1> QED
  BY <1>1, <1>2, RecordInvariant, PTL DEF Spec, ImplementsAuthority, Authority!Spec

=============================================================================
