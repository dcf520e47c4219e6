--------------------------- MODULE RemoteRefresh ---------------------------
(***************************************************************************)
(* The refresh of remote peers: WorkerCoordinator (tui/workers.py) admits  *)
(* at most one fetch per host through the host's breaker and an attempt    *)
(* that reserves the host until its result has landed, the fetch runs in a *)
(* worker thread, and the event loop folds the result into the host's slot *)
(* (tui/source_dispatch.py, tui/slot_state.py).                            *)
(*                                                                         *)
(* Event-loop callbacks and thread steps interleave freely.  A cancelled   *)
(* worker's thread is dropped if it has not started and goes on otherwise. *)
(***************************************************************************)
EXTENDS RemotePeers, HostBreaker, Sequences

CONSTANTS AttemptIds    \* names for _RemoteAttempt objects, reused when no
                        \* message, thread or host refers to them any more

NoAttempt == "no attempt"
NoHost == "no host"

VARIABLES
  breaker,  \* [Hosts -> Breaker]
  handle,   \* _source_handles: what the worker of a host's last kick is doing
  attempt,  \* _remote_attempts: the attempt that holds the host
  object,   \* the _RemoteAttempt objects: what their flags say
  thread,   \* the worker thread of each attempt
  inbox,    \* _RefreshSourceLanded messages queued for the event loop
  slot      \* state.remote: the snapshot last folded in

vars == <<breaker, handle, attempt, object, thread, inbox, slot, peer, master>>

\* A host is being read while a thread of its attempt holds an outcome, or
\* its message waits to be handled.
Waiting(h) == {i \in DOMAIN inbox : inbox[i].host = h /\ inbox[i].id = attempt[h]}
Holding(h) == {a \in AttemptIds : thread[a].host = h /\ thread[a].at \in {"recovering", "fetched"}}
ReadOf(h) ==
  IF Waiting(h) # {} THEN inbox[CHOOSE i \in Waiting(h) : TRUE].snap
  ELSE IF Holding(h) # {} THEN thread[CHOOSE a \in Holding(h) : TRUE].snap
       ELSE NoRead

Slots == INSTANCE RemoteSlots WITH reading <- [h \in Hosts |-> ReadOf(h)]

Idle == [host |-> NoHost, at |-> "idle", snap |-> Blank]
Fresh == [started |-> FALSE, invalidated |-> FALSE, unlanded |-> FALSE]

RemoteTypeOK ==
  /\ PeersTypeOK
  /\ breaker \in [Hosts -> Breaker]
  /\ handle \in [Hosts -> {"none", "active", "success", "cancelled", "error"}]
  /\ attempt \in [Hosts -> AttemptIds \union {NoAttempt}]
  /\ object \in [AttemptIds -> [started : BOOLEAN, invalidated : BOOLEAN,
                                unlanded : BOOLEAN]]
  /\ thread \in [AttemptIds ->
       [host : Hosts \union {NoHost},
        at   : {"idle", "queued", "all", "own", "recovering", "fetched", "posted", "ended"},
        snap : Snapshots]]
  /\ inbox \in Seq([host : Hosts, id : AttemptIds, snap : Snapshots])
  /\ slot \in [Hosts -> [known : BOOLEAN, snap : Snapshots]]

RemoteInit ==
  /\ PeersInit
  /\ breaker = [h \in Hosts |-> NewBreaker]
  /\ handle = [h \in Hosts |-> "none"]
  /\ attempt = [h \in Hosts |-> NoAttempt]
  /\ object = [a \in AttemptIds |-> Fresh]
  /\ thread = [a \in AttemptIds |-> Idle]
  /\ inbox = <<>>
  /\ slot = [h \in Hosts |-> [known |-> FALSE, snap |-> Blank]]

(* The event loop.                                                         *)

Unused(a) ==
  /\ \A h \in Hosts : attempt[h] # a
  /\ thread[a].at \in {"idle", "ended"}
  /\ \A i \in DOMAIN inbox : inbox[i].id # a

\* Mutant of MayInvalidate: a cancelled worker is taken to have stopped.
MayInvalidateRunning(a) == TRUE

\* Mutant of MayInvalidate: only an attempt that never began is taken back.
MayInvalidatePending(a) == ~object[a].started

\* _RemoteAttempt.cancel_pending: may the reservation be taken back?
MayInvalidate(a) == ~object[a].started \/ object[a].unlanded

\* kick_source, up to the admission decision: the breaker once the attempt
\* of a cancelled or failed worker has given up its reservation.
Released(h) == handle[h] \in {"cancelled", "error"} /\ MayInvalidate(attempt[h])
BreakerAtKick(h) == IF Released(h) THEN ClearInflight(breaker[h]) ELSE breaker[h]
Invalidate(h, objects) ==
  IF Released(h) THEN [objects EXCEPT ![attempt[h]].invalidated = TRUE] ELSE objects

\* kick_source when it admits a fetch; "manual" is the user's refresh key,
\* which does not ask the breaker whether the host is due.
Kick(h, manual) ==
  /\ handle[h] # "active"
  /\ \E b \in {BreakerAtKick(h)} :
       /\ ~b.in_flight
       /\ manual \/ Admits(b)
       /\ breaker' = [breaker EXCEPT
            ![h] = MarkInflight(IF manual THEN b ELSE AfterAttempt(b))]
  /\ \E a \in AttemptIds :
       /\ Unused(a)
       /\ attempt' = [attempt EXCEPT ![h] = a]
       /\ object' = [Invalidate(h, object) EXCEPT ![a] = Fresh]
       /\ thread' = [thread EXCEPT ![a] = [Idle EXCEPT !.host = h, !.at = "queued"]]
  /\ handle' = [handle EXCEPT ![h] = "active"]
  /\ UNCHANGED <<inbox, slot, peer, master>>

\* kick_source when a reservation is taken back and the host is not due yet.
KickRefused(h) ==
  /\ handle[h] # "active"
  /\ Released(h)
  /\ ~Admits(BreakerAtKick(h))
  /\ breaker' = [breaker EXCEPT ![h] = BreakerAtKick(h)]
  /\ object' = Invalidate(h, object)
  /\ <<breaker', object'>> # <<breaker, object>>
  /\ UNCHANGED <<handle, attempt, thread, inbox, slot, peer, master>>

Outcome(b, snap) ==
  IF IsLive(snap) THEN OnSuccess(b) ELSE OnFailure(b, snap.code \in CompatibilityCodes)

\* on__refresh_source_landed: source_landed drops the result of an attempt
\* that no longer holds the host, feeds the breaker and frees the host.
Land ==
  /\ inbox # <<>>
  /\ inbox' = Tail(inbox)
  /\ \E m \in {Head(inbox)} :
       IF attempt[m.host] = m.id
       THEN /\ breaker' = [breaker EXCEPT ![m.host] = ClearInflight(Outcome(@, m.snap))]
            /\ slot' = [slot EXCEPT ![m.host] = Folded(m.snap)]
       ELSE UNCHANGED <<breaker, slot>>
  /\ UNCHANGED <<handle, attempt, object, thread, peer, master>>

\* The monotonic clock reaches next_attempt_at.
BackoffExpires(h) ==
  /\ breaker[h].state = "open" /\ ~breaker[h].due
  /\ breaker' = [breaker EXCEPT ![h].due = TRUE]
  /\ UNCHANGED <<handle, attempt, object, thread, inbox, slot, peer, master>>

\* A worker is cancelled: a thread that has not begun may never begin.
Cancel(h) ==
  /\ handle[h] = "active"
  /\ handle' = [handle EXCEPT ![h] = "cancelled"]
  /\ \/ UNCHANGED thread
     \/ /\ thread[attempt[h]].at = "queued"
        /\ thread' = [thread EXCEPT ![attempt[h]].at = "ended"]
  /\ UNCHANGED <<breaker, attempt, object, inbox, slot, peer, master>>

(* The worker thread.                                                      *)

At(a, place) == thread[a].at = place
MovesTo(a, place) == thread' = [thread EXCEPT ![a].at = place]
HasResult(a, place, snap) ==
  thread' = [thread EXCEPT ![a].at = place, ![a].snap = snap]

\* The worker's handle once its thread is over; a cancelled one stays so.
HandleEnds(a, state) ==
  LET h == thread[a].host
  IN  handle' = IF attempt[h] = a /\ handle[h] = "active"
                THEN [handle EXCEPT ![h] = state] ELSE handle

\* _RemoteAttempt.start
Start(a) ==
  /\ At(a, "queued")
  /\ IF object[a].invalidated
     THEN /\ MovesTo(a, "ended")
          /\ HandleEnds(a, "success")
          /\ UNCHANGED object
     ELSE /\ MovesTo(a, "all")
          /\ object' = [object EXCEPT ![a].started = TRUE]
          /\ UNCHANGED handle
  /\ UNCHANGED <<breaker, attempt, inbox, slot, peer, master>>

\* _run_one, with the own-only retry and the recovery after a timeout.
Fetch(a, all) ==
  /\ At(a, IF all THEN "all" ELSE "own")
  /\ \E h \in {thread[a].host} : \E o \in {Answer(h, all)} :
       /\ IF o.ended = "timeout" THEN UNCHANGED master ELSE Connected(h)
       /\ IF all /\ FallsBack(o) THEN MovesTo(a, "own")
          ELSE \E snap \in {Snapshot(o, ~all)} :
                 HasResult(a, IF Recovers(h, o) THEN "recovering" ELSE "fetched", snap)
  /\ UNCHANGED <<breaker, handle, attempt, object, inbox, slot, peer>>

\* recover_wedged_master
Recover(a) ==
  /\ At(a, "recovering")
  /\ AsksMasterToExit(thread[a].host)
  /\ MovesTo(a, "fetched")
  /\ UNCHANGED <<breaker, handle, attempt, object, inbox, slot, peer>>

Post(a) ==
  /\ At(a, "fetched")
  /\ MovesTo(a, "posted")
  /\ inbox' = Append(inbox, [host |-> thread[a].host, id |-> a, snap |-> thread[a].snap])
  /\ UNCHANGED <<breaker, handle, attempt, object, slot, peer, master>>

\* _RemoteAttempt.finish after the result was posted.
Finish(a) ==
  /\ At(a, "posted")
  /\ thread' = [thread EXCEPT ![a] = [Idle EXCEPT !.host = thread[a].host, !.at = "ended"]]
  /\ HandleEnds(a, "success")
  /\ UNCHANGED <<breaker, attempt, object, inbox, slot, peer, master>>

\* A BaseException ends the thread before anything was posted.
Dies(a) ==
  /\ thread[a].at \in {"all", "own", "recovering", "fetched"}
  /\ thread' = [thread EXCEPT ![a] = [Idle EXCEPT !.host = thread[a].host, !.at = "ended"]]
  /\ object' = [object EXCEPT ![a].unlanded = TRUE]
  /\ HandleEnds(a, "error")
  /\ UNCHANGED <<breaker, attempt, inbox, slot, peer, master>>

PeerStep(h) == PeersMove(h) /\ UNCHANGED <<breaker, handle, attempt, object, thread, inbox, slot>>

\* ServerAlive: a stuck master does not stay.
GivenUp(h) ==
  /\ master[h] = "stuck"
  /\ MasterEnds(h)
  /\ UNCHANGED <<breaker, handle, attempt, object, thread, inbox, slot>>

ThreadStep(a) ==
  Start(a) \/ Fetch(a, TRUE) \/ Fetch(a, FALSE) \/ Recover(a) \/ Post(a) \/ Finish(a)
Tick(h) == Kick(h, FALSE) \/ KickRefused(h)

RemoteNext ==
  \/ \E h \in Hosts :
       Tick(h) \/ Kick(h, TRUE) \/ BackoffExpires(h) \/ Cancel(h)
         \/ PeerStep(h)
  \/ \E a \in AttemptIds : ThreadStep(a) \/ Dies(a)
  \/ Land

\* The refresh timer ticks as long as the app runs, the event loop handles
\* its messages, every command has a timeout, and the clock advances.
RemoteFairness ==
  /\ \A h \in Hosts : WF_vars(Tick(h)) /\ WF_vars(BackoffExpires(h))
                      /\ WF_vars(GivenUp(h))
  /\ \A a \in AttemptIds : WF_vars(ThreadStep(a))
  /\ WF_vars(Land)

RemoteSafety == RemoteInit /\ [][RemoteNext]_vars
RemoteSpec == RemoteSafety /\ RemoteFairness

(* Correctness.                                                            *)

Fetching(a) == thread[a].at \in {"all", "own", "recovering", "fetched"}

\* A peer is asked by one fetch at a time, whatever was cancelled, died or
\* was asked for again by hand: a manual refresh bypasses the cooldown
\* "without overlapping an in-flight fetch" (docs/reference/keybindings.md).
OneFetchPerHost ==
  \A a, b \in AttemptIds :
    Fetching(a) /\ Fetching(b) /\ thread[a].host = thread[b].host => a = b

\* While a thread fetches, or its result waits to be handled, the host stays
\* reserved for exactly that attempt, so no result of an attempt that was
\* taken back ever reaches the event loop: the reservation protocol alone
\* orders the results of a host.
ReservationCoversResult ==
  /\ \A a \in AttemptIds : Fetching(a) =>
       attempt[thread[a].host] = a /\ breaker[thread[a].host].in_flight
  /\ \A i \in DOMAIN inbox :
       attempt[inbox[i].host] = inbox[i].id /\ breaker[inbox[i].host].in_flight

(* What makes these inductive.  An attempt holds its host from its admission  *)
(* until its thread is over, unless it was taken back before that began; one   *)
(* whose fetch is under way, or whose message waits, is past being taken back;  *)
(* and an attempt has one message at most, queued as its thread is done.        *)
Holds(a) == Fetching(a) \/ (At(a, "queued") /\ ~object[a].invalidated)

HolderReserves ==
  \A a \in AttemptIds : Holds(a) =>
    attempt[thread[a].host] = a /\ breaker[thread[a].host].in_flight

MessageReserves ==
  \A i \in DOMAIN inbox :
    attempt[inbox[i].host] = inbox[i].id /\ breaker[inbox[i].host].in_flight

Irrevocable(a) == object[a].started /\ ~object[a].unlanded

AttemptFlags ==
  /\ \A h \in Hosts : handle[h] # "none" => attempt[h] \in AttemptIds
  /\ \A a \in AttemptIds :
       /\ thread[a].at # "idle" => thread[a].host \in Hosts
       /\ At(a, "queued") => ~object[a].unlanded
       /\ Fetching(a) => Irrevocable(a)

OneMessageEach ==
  /\ \A i \in DOMAIN inbox :
       Irrevocable(inbox[i].id) /\ thread[inbox[i].id].at \in {"posted", "ended"}
  /\ \A i, j \in DOMAIN inbox : inbox[i].id = inbox[j].id => i = j

\* Only a read that timed out on the shared connection recovers it.
RecoversTimeouts ==
  \A a \in AttemptIds :
    At(a, "recovering") => thread[a].snap.code = "timeout" /\ Shares(thread[a].host)

ReservationInv ==
  /\ RemoteTypeOK /\ HolderReserves /\ MessageReserves /\ AttemptFlags
  /\ OneMessageEach /\ RecoversTimeouts

\* No reservation is held for ever: every attempt ends, or is taken back by
\* a later tick, however its worker was cancelled or died.
ReservationEnds ==
  \A h \in Hosts, a \in AttemptIds :
    (attempt[h] = a /\ breaker[h].in_flight) ~> ~(attempt[h] = a /\ breaker[h].in_flight)

\* Once a peer answers for good, and nothing more is cancelled, dies or
\* wedges, its slot comes to show what it lists, from whatever the breaker,
\* the shared connection and the attempts of the past were left in.
Disturbance == (\E h \in Hosts : Cancel(h) \/ MasterSticks(h))
                 \/ (\E a \in AttemptIds : Dies(a))
PeerConverges ==
  \A h \in Hosts, alive \in SUBSET Sessions :
    (/\ <>[](peer[h].does = "answers" /\ peer[h].alive = alive)
     /\ <>[][~Disturbance]_vars)
    => <>[](slot[h] = [known |-> TRUE, snap |-> [Blank EXCEPT !.sessions = alive]])

\* Breakers, attempts and threads implement one read at a time per host, the
\* slot showing their outcomes in order.
ReadsInOrder == Slots!SlotsSpec
=============================================================================
