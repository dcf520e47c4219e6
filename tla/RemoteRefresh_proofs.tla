------------------------- MODULE RemoteRefresh_proofs -------------------------
(***************************************************************************)
(* The reservation protocol of the remote refresh, for any number of hosts,  *)
(* attempts and queued results: one fetch per host, no result outside its    *)
(* reservation - and that the refresh implements the reads RemoteSlots       *)
(* promises, one at a time and shown in order.                               *)
(***************************************************************************)
EXTENDS RemoteRefresh, WellFoundedInduction, SequenceTheorems, TLAPS

-----------------------------------------------------------------------------
(* What one read of a peer comes to, whatever the peer wrote.                *)

(* A set of positions has a first.                                            *)
LEMMA FirstOf ==
  ASSUME NEW S \in SUBSET Nat, S # {}
  PROVE  Min(S) \in S /\ \A y \in S : Min(S) =< y
<1>1. PICK n \in S : \A y \in S : ~(<<y, n>> \in OpToRel(<, Nat))
  BY WFMin, NatLessThanWellFounded
<1>2. ASSUME NEW y \in S  PROVE n =< y
  <2>1. ~(y < n)
    <3>1. <<y, n>> \in Nat \X Nat
      OBVIOUS
    <3> QED
      BY <1>1, <3>1 DEF OpToRel
  <2>2. y \in Nat /\ n \in Nat
    OBVIOUS
  <2> QED
    BY <2>1, <2>2
<1> QED
  BY <1>2 DEF Min

(* The eight checks are made in order: the first that fails decides.          *)
LEMMA FirstFailureIs ==
  ASSUME NEW checks, DOMAIN checks = 1..8, NEW ok
  PROVE  \/ FirstFailure(checks, ok) = ok /\ \A i \in 1..8 : checks[i][1]
         \/ \E i \in 1..8 :
              /\ ~checks[i][1] /\ FirstFailure(checks, ok) = checks[i][2]
              /\ \A j \in 1..8 : j < i => checks[j][1]
<1> DEFINE failed == {i \in DOMAIN checks : ~checks[i][1]}
<1>1. CASE failed = {}
  BY <1>1 DEF FirstFailure
<1>2. CASE failed # {}
  <2>1. failed \in SUBSET (1..8) /\ failed \in SUBSET Nat
    OBVIOUS
  <2>2. PICK m \in failed : m = Min(failed) /\ \A y \in failed : m =< y
    BY <1>2, <2>1, FirstOf
  <2>3. ASSUME NEW j \in 1..8, j < m  PROVE checks[j][1]
    <3>1. m \in 1..8 /\ ~(m =< j)
      BY <2>1, <2>2, <2>3
    <3>2. j \notin failed /\ j \in DOMAIN checks
      BY <2>2, <3>1
    <3> QED
      BY <3>2
  <2> QED
    BY <1>2, <2>2, <2>3 DEF FirstFailure
<1> QED
  BY <1>1, <1>2

(* Whatever a peer wrote, decoding it ends in one of the codes.               *)
LEMMA EnvelopeCodes ==
  ASSUME NEW S, NEW e \in Envelopes(S)
  PROVE  EnvelopeCode(e) \in {"none"} \union ErrorCodes
<1> DEFINE checks == << <<e.object,            "invalid_response">>,
                        <<e.schema = "same",   SchemaCode(e)>>,
                        <<e.list,              "invalid_response">>,
                        <<e.data,              "invalid_response">>,
                        <<e.error = "none",    ReportedCode(e)>>,
                        <<e.records = "sound", "invalid_response">>,
                        <<e.scope,             "invalid_response">>,
                        <<e.stats # "bad",     "invalid_response">> >>
<1>1. SchemaCode(e) \in ErrorCodes /\ ReportedCode(e) \in ErrorCodes
  BY DEF SchemaCode, ReportedCode, ErrorCodes, CompatibilityCodes
<1>2. "invalid_response" \in ErrorCodes
  BY DEF ErrorCodes
<1>3. DOMAIN checks = 1..8
  OBVIOUS
<1>4. \A i \in 1..8 : checks[i][2] \in ErrorCodes
  BY <1>1, <1>2
<1> HIDE DEF checks
<1>5. FirstFailure(checks, "none") \in {"none"} \union ErrorCodes
  BY <1>3, <1>4, FirstFailureIs
<1> QED
  BY <1>5 DEF EnvelopeCode, checks

(* What a command to a peer may come to.                                     *)
LEMMA AnswerIs ==
  ASSUME PeersTypeOK, NEW h \in Hosts, NEW all \in BOOLEAN
  PROVE  \/ Answer(h, all) \in {Silent("timeout"), Silent("exit"),
                                [Silent("exit") EXCEPT !.marker = TRUE]}
         \/ \E e \in Envelopes(SUBSET Sessions) : Answer(h, all) = Wrote(e)
<1> DEFINE own == peer[h].alive \intersect OwnSessions
<1>1. peer[h].alive \in SUBSET Sessions /\ own \in SUBSET Sessions
  BY DEF PeersTypeOK, Peer
<1>2. ASSUME NEW s \in SUBSET Sessions
      PROVE  /\ SoundEnvelope(s) \in Envelopes(SUBSET Sessions)
             /\ [SoundEnvelope(s) EXCEPT !.schema = "older"] \in Envelopes(SUBSET Sessions)
  BY DEF SoundEnvelope, Envelopes
<1>3. Answer(h, all) \in {Silent("timeout"), Silent("exit"),
                          [Silent("exit") EXCEPT !.marker = TRUE],
                          Wrote([SoundEnvelope(peer[h].alive) EXCEPT !.schema = "older"]),
                          Wrote(SoundEnvelope(IF all THEN peer[h].alive ELSE own))}
  BY DEF Answer
<1>4. CASE Answer(h, all) = Wrote([SoundEnvelope(peer[h].alive) EXCEPT !.schema = "older"])
  BY <1>1, <1>2, <1>4
<1>5. CASE Answer(h, all) = Wrote(SoundEnvelope(IF all THEN peer[h].alive ELSE own))
  BY <1>1, <1>2, <1>5
<1> QED
  BY <1>3, <1>4, <1>5

(* The snapshot of a command, whatever it came to, is one a slot can show, and *)
(* one that timed out says so.                                               *)
LEMMA SnapshotOf ==
  ASSUME PeersTypeOK, NEW h \in Hosts, NEW all \in BOOLEAN, NEW limited \in BOOLEAN
  PROVE  LET o == Answer(h, all)
         IN  /\ Snapshot(o, limited) \in Snapshots
             /\ o.ended = "timeout" => Snapshot(o, limited).code = "timeout"
             /\ FallsBack(o) => o.ended = "exit" /\ ~Stuck(h)
<1> DEFINE o == Answer(h, all)
<1>1. CASE o \in {Silent("timeout"), Silent("exit"), [Silent("exit") EXCEPT !.marker = TRUE]}
  <2>1. o.ended \in {"timeout", "exit"} /\ ~o.written
    BY <1>1 DEF Silent
  <2>2. /\ Snapshot(o, limited) = [code |-> RunCode(o), sessions |-> {}, limited |-> limited]
        /\ RunCode(o) = IF o.ended = "timeout" THEN "timeout" ELSE "ssh_error"
    BY <2>1 DEF Snapshot, RunCode
  <2>3. FallsBack(o) => o.ended = "exit"
    BY DEF FallsBack
  <2>4. Stuck(h) => o.ended = "timeout"
    BY DEF Answer, Silent
  <2> HIDE DEF o
  <2>5. Snapshot(o, limited) \in Snapshots
    BY <2>1, <2>2 DEF Snapshots, ErrorCodes
  <2> QED
    BY <2>1, <2>2, <2>3, <2>4, <2>5 DEF o
<1>2. ASSUME NEW e \in Envelopes(SUBSET Sessions), o = Wrote(e)
      PROVE  /\ Snapshot(o, limited) \in Snapshots
             /\ o.ended # "timeout" /\ ~FallsBack(o)
  <2>1. o.ended = "ok" /\ o.env = e /\ ~o.marker
    BY <1>2 DEF Wrote
  <2>2. EnvelopeCode(e) \in {"none"} \union ErrorCodes /\ e.sessions \in SUBSET Sessions
    BY EnvelopeCodes DEF Envelopes
  <2> HIDE DEF o
  <2>3. Snapshot(o, limited) = [code     |-> EnvelopeCode(e),
                                sessions |-> IF EnvelopeCode(e) = "none" THEN e.sessions ELSE {},
                                limited  |-> limited]
    BY <2>1 DEF Snapshot, RunCode
  <2> QED
    BY <2>1, <2>2, <2>3 DEF Snapshots, FallsBack
<1> QED
  BY <1>1, <1>2, AnswerIs

-----------------------------------------------------------------------------
(* Breakers.                                                                *)

(* The windows are the three a breaker may have.                             *)
LEMMA Windows ==
  /\ InitialBackoff = 30
  /\ \A n \in Nat : Capped(n) = IF n <= 60 THEN n ELSE 60
<1>1. Max({30, 1}) = 30
  BY DEF Max
<1>2. CapSeconds \div Factor = 30
  BY DEF CapSeconds, Factor
<1>3. ASSUME NEW n \in Nat  PROVE Min({n, 60}) = IF n <= 60 THEN n ELSE 60
  <2> DEFINE m == IF n <= 60 THEN n ELSE 60
  <2>1. m \in {n, 60} /\ \A y \in {n, 60} : m =< y
    OBVIOUS
  <2>2. \A x \in {n, 60} : (\A y \in {n, 60} : x =< y) => x = m
    OBVIOUS
  <2> QED
    BY <2>1, <2>2 DEF Min
<1> QED
  BY <1>1, <1>2, <1>3 DEF InitialBackoff, Capped, CapSeconds

(* Each field of a breaker may be set by itself.                              *)
LEMMA BreakerFields ==
  ASSUME NEW b \in Breaker
  PROVE  /\ \A x \in BreakerStates : [b EXCEPT !.state = x] \in Breaker
         /\ \A x \in {InitialBackoff, CapSeconds, CompatibilityCooldown} :
              [b EXCEPT !.backoff = x] \in Breaker
         /\ \A x \in BOOLEAN : [b EXCEPT !.due = x] \in Breaker
         /\ \A x \in BOOLEAN : [b EXCEPT !.in_flight = x] \in Breaker
         /\ \A x \in {0, 1, 2} : [b EXCEPT !.failures = x] \in Breaker
         /\ b.failures \in {0, 1, 2}
<1>1. 0..TripAfter - 1 = {0, 1, 2}
  BY DEF TripAfter
<1> QED
  BY <1>1 DEF Breaker

(* Whatever a breaker is told, it stays one.                                 *)
LEMMA BreakerOperators ==
  ASSUME NEW b \in Breaker
  PROVE  /\ NewBreaker \in Breaker /\ AfterAttempt(b) \in Breaker
         /\ MarkInflight(b) \in Breaker /\ ClearInflight(b) \in Breaker
         /\ \A i \in BOOLEAN : OnFailure(b, i) \in Breaker
<1>1. /\ AfterAttempt(b) \in Breaker /\ MarkInflight(b) \in Breaker
      /\ ClearInflight(b) \in Breaker
  BY BreakerFields DEF AfterAttempt, MarkInflight, ClearInflight, BreakerStates
<1>2. NewBreaker \in Breaker /\ OnIncompatible(b) \in Breaker
  BY DEF NewBreaker, OnIncompatible, Breaker, BreakerStates, TripAfter
<1>3. ASSUME NEW w \in {InitialBackoff, CapSeconds, CompatibilityCooldown}
      PROVE  OpenFor(b, w) \in Breaker
  <2> DEFINE b1 == [b EXCEPT !.state = "open"]
             b2 == [b1 EXCEPT !.in_flight = FALSE]
             b3 == [b2 EXCEPT !.due = FALSE]
             b4 == [b3 EXCEPT !.backoff = w]
             b5 == [b4 EXCEPT !.failures = 0]
  <2>1. b1 \in Breaker
    BY BreakerFields DEF BreakerStates
  <2> HIDE DEF b1
  <2>2. b2 \in Breaker
    BY <2>1, BreakerFields
  <2> HIDE DEF b2
  <2>3. b3 \in Breaker
    BY <2>2, BreakerFields
  <2> HIDE DEF b3
  <2>4. b4 \in Breaker
    BY <2>3, BreakerFields
  <2> HIDE DEF b4
  <2>5. b5 \in Breaker
    BY <2>4, BreakerFields
  <2> QED
    BY <2>5 DEF OpenFor, b1, b2, b3, b4
<1>4. OnTransient(b) \in Breaker
  <2>1. CASE b.state = "closed"
    <3>1. b.failures + 1 < TripAfter => [b EXCEPT !.failures = @ + 1] \in Breaker
      <4> SUFFICES ASSUME b.failures + 1 < TripAfter
                   PROVE  [b EXCEPT !.failures = @ + 1] \in Breaker
        OBVIOUS
      <4>0. b.failures \in {0, 1, 2}
        BY BreakerFields
      <4>1. PICK n \in {0, 1, 2} : n = b.failures + 1
        BY <4>0 DEF TripAfter
      <4>2. [b EXCEPT !.failures = n] \in Breaker
        BY BreakerFields
      <4> QED
        BY <4>1, <4>2
    <3> QED
      BY <1>3, <2>1, <3>1 DEF OnTransient
  <2>2. CASE b.state # "closed"
    <3>1. b.backoff \in {30, 60, 300}
      BY Windows DEF CapSeconds, CompatibilityCooldown, Breaker
    <3>2. Capped(b.backoff * Factor) = CapSeconds
      BY <3>1, Windows DEF Factor, CapSeconds
    <3> QED
      BY <1>3, <2>2, <3>2 DEF OnTransient
  <2> QED
    BY <2>1, <2>2
<1> QED
  BY <1>1, <1>2, <1>4 DEF OnFailure

(* Only its being in flight is what these change of it.                       *)
LEMMA InFlightOf ==
  ASSUME NEW b \in Breaker
  PROVE  MarkInflight(b).in_flight /\ ~ClearInflight(b).in_flight
BY DEF Breaker, MarkInflight, ClearInflight

-----------------------------------------------------------------------------
(* Types.                                                                   *)

ObjectFlags == [started : BOOLEAN, invalidated : BOOLEAN, unlanded : BOOLEAN]

ThreadStates == {"idle", "queued", "all", "own", "recovering", "fetched", "posted", "ended"}

ThreadRecords == [host : Hosts \union {NoHost}, at : ThreadStates, snap : Snapshots]

Messages == [host : Hosts, id : AttemptIds, snap : Snapshots]

(* Blank snapshots, folded ones, and the threads made of them.                *)
LEMMA SnapshotShapes ==
  /\ Blank \in Snapshots /\ Idle \in ThreadRecords /\ Fresh \in ObjectFlags
  /\ \A s \in Snapshots : Folded(s) \in [known : BOOLEAN, snap : Snapshots]
  /\ \A s \in Snapshots : IsLive(s) \in BOOLEAN
<1>1. /\ Blank \in Snapshots /\ Idle \in ThreadRecords /\ Fresh \in ObjectFlags
  BY DEF Blank, Snapshots, Idle, ThreadRecords, ThreadStates, Fresh, ObjectFlags
<1>2. ASSUME NEW s \in Snapshots  PROVE [s EXCEPT !.sessions = {}] \in Snapshots
  BY DEF Snapshots
<1> QED
  BY <1>1, <1>2 DEF Folded, IsLive

(* The record of a thread that begins, or ends.                               *)
LEMMA IdleAt ==
  ASSUME NEW h, NEW p
  PROVE  [Idle EXCEPT !.host = h, !.at = p] = [host |-> h, at |-> p, snap |-> Blank]
<1>1. PICK i : i = [Idle EXCEPT !.host = h]
  OBVIOUS
<1>2. i = [host |-> h, at |-> "idle", snap |-> Blank]
  BY <1>1 DEF Idle
<1>3. [i EXCEPT !.at = p] = [host |-> h, at |-> p, snap |-> Blank]
  BY <1>2
<1>4. [Idle EXCEPT !.host = h, !.at = p] = [[Idle EXCEPT !.host = h] EXCEPT !.at = p]
  OBVIOUS
<1> QED
  BY <1>1, <1>3, <1>4

(* A thread may move on, and be given a snapshot.                             *)
LEMMA ThreadFields ==
  ASSUME thread \in [AttemptIds -> ThreadRecords], NEW a \in AttemptIds
  PROVE  /\ \A p \in ThreadStates : [thread EXCEPT ![a].at = p] \in [AttemptIds -> ThreadRecords]
         /\ \A p \in ThreadStates, s \in Snapshots :
              [thread EXCEPT ![a].at = p, ![a].snap = s] \in [AttemptIds -> ThreadRecords]
<1>1. thread[a] \in ThreadRecords
  OBVIOUS
<1>2. ASSUME NEW t \in ThreadRecords, NEW p \in ThreadStates, NEW s \in Snapshots
      PROVE  /\ [t EXCEPT !.at = p] \in ThreadRecords
             /\ [t EXCEPT !.snap = s] \in ThreadRecords
  BY DEF ThreadRecords
<1>3. ASSUME NEW p \in ThreadStates
      PROVE  [thread EXCEPT ![a].at = p] \in [AttemptIds -> ThreadRecords]
  <2>1. [thread[a] EXCEPT !.at = p] \in ThreadRecords
    BY <1>1, <1>2, SnapshotShapes
  <2> QED
    BY <2>1
<1>4. ASSUME NEW p \in ThreadStates, NEW s \in Snapshots
      PROVE  [thread EXCEPT ![a].at = p, ![a].snap = s] \in [AttemptIds -> ThreadRecords]
  <2>1. [thread[a] EXCEPT !.at = p] \in ThreadRecords
    BY <1>1, <1>2
  <2>2. [[thread[a] EXCEPT !.at = p] EXCEPT !.snap = s] \in ThreadRecords
    BY <1>2, <2>1
  <2>3. [thread EXCEPT ![a].at = p, ![a].snap = s]
          = [thread EXCEPT ![a] = [[thread[a] EXCEPT !.at = p] EXCEPT !.snap = s]]
    OBVIOUS
  <2> QED
    BY <2>2, <2>3
<1> QED
  BY <1>3, <1>4

(* The breaker a kick finds is one, whether or not a reservation was taken     *)
(* back.                                                                     *)
LEMMA KickBreaker ==
  ASSUME breaker \in [Hosts -> Breaker], NEW h \in Hosts
  PROVE  BreakerAtKick(h) \in Breaker
BY BreakerOperators DEF BreakerAtKick

-----------------------------------------------------------------------------
(* The reservation protocol, action by action.                              *)

(* The types of the invariant, one by one.                                   *)
LEMMA TypesOf ==
  ASSUME RemoteTypeOK
  PROVE  /\ PeersTypeOK
         /\ breaker \in [Hosts -> Breaker]
         /\ handle \in [Hosts -> {"none", "active", "success", "cancelled", "error"}]
         /\ attempt \in [Hosts -> AttemptIds \union {NoAttempt}]
         /\ object \in [AttemptIds -> ObjectFlags]
         /\ thread \in [AttemptIds -> ThreadRecords]
         /\ inbox \in Seq(Messages)
         /\ slot \in [Hosts -> [known : BOOLEAN, snap : Snapshots]]
BY DEF RemoteTypeOK, ObjectFlags, ThreadRecords, ThreadStates, Messages

(* A message in the inbox is of a host, an attempt and a snapshot.          *)
LEMMA MessageTypes ==
  ASSUME RemoteTypeOK, NEW i \in DOMAIN inbox
  PROVE  /\ inbox[i] \in Messages
         /\ inbox[i].host \in Hosts /\ inbox[i].id \in AttemptIds /\ inbox[i].snap \in Snapshots
<1>1. inbox \in Seq(Messages)
  BY TypesOf
<1>2. inbox[i] \in Messages
  BY <1>1
<1> QED
  BY <1>2 DEF Messages

(* The type invariant, from the types of what changes.                      *)
LEMMA TypesNext ==
  ASSUME PeersTypeOK', breaker' \in [Hosts -> Breaker],
         handle' \in [Hosts -> {"none", "active", "success", "cancelled", "error"}],
         attempt' \in [Hosts -> AttemptIds \union {NoAttempt}],
         object' \in [AttemptIds -> ObjectFlags],
         thread' \in [AttemptIds -> ThreadRecords],
         inbox' \in Seq(Messages),
         slot' \in [Hosts -> [known : BOOLEAN, snap : Snapshots]]
  PROVE  RemoteTypeOK'
BY DEF RemoteTypeOK, ObjectFlags, ThreadRecords, ThreadStates, Messages

(* What is taken back is an attempt's flag, and never one past being taken.   *)
LEMMA InvalidateFlags ==
  ASSUME RemoteTypeOK, NEW h \in Hosts, AttemptFlags
  PROVE  /\ Invalidate(h, object) \in [AttemptIds -> ObjectFlags]
         /\ \A x \in AttemptIds :
              /\ Invalidate(h, object)[x].started = object[x].started
              /\ Invalidate(h, object)[x].unlanded = object[x].unlanded
              /\ object[x].invalidated => Invalidate(h, object)[x].invalidated
         /\ Released(h) => /\ ~Irrevocable(attempt[h]) /\ attempt[h] \in AttemptIds
                           /\ Invalidate(h, object)[attempt[h]].invalidated
<1>1. object \in [AttemptIds -> ObjectFlags]
  BY TypesOf
<1>2. Released(h) => attempt[h] \in AttemptIds /\ ~Irrevocable(attempt[h])
  BY DEF Released, MayInvalidate, Irrevocable, AttemptFlags
<1>3. \A x \in AttemptIds : object[x] \in ObjectFlags
  BY <1>1
<1>4. ASSUME NEW o \in ObjectFlags
      PROVE  /\ [o EXCEPT !.invalidated = TRUE] \in ObjectFlags
             /\ [o EXCEPT !.invalidated = TRUE].started = o.started
             /\ [o EXCEPT !.invalidated = TRUE].unlanded = o.unlanded
             /\ [o EXCEPT !.invalidated = TRUE].invalidated
  BY DEF ObjectFlags
<1>5. CASE Released(h)
  <2>1. Invalidate(h, object)
          = [object EXCEPT ![attempt[h]] = [object[attempt[h]] EXCEPT !.invalidated = TRUE]]
    BY <1>5 DEF Invalidate
  <2> QED
    BY <1>1, <1>2, <1>3, <1>4, <1>5, <2>1
<1>6. CASE ~Released(h)
  BY <1>1, <1>6 DEF Invalidate
<1> QED
  BY <1>5, <1>6

(* Where a reservation can be given up, no fetch is under way and no message   *)
(* waits: those of the host hold it, and are past being taken back.           *)
LEMMA FreeAtKick ==
  ASSUME ReservationInv, NEW h \in Hosts,
         Released(h) \/ ~breaker[h].in_flight
  PROVE  /\ \A x \in AttemptIds : Fetching(x) => thread[x].host # h
         /\ \A x \in AttemptIds : Holds(x) /\ thread[x].host = h =>
              Released(h) /\ x = attempt[h]
         /\ \A i \in DOMAIN inbox : inbox[i].host # h
<1>1. /\ RemoteTypeOK /\ AttemptFlags /\ HolderReserves /\ MessageReserves /\ OneMessageEach
  BY DEF ReservationInv
<1>2. Released(h) => ~Irrevocable(attempt[h])
  BY <1>1, InvalidateFlags
<1> QED
  BY <1>1, <1>2 DEF HolderReserves, MessageReserves, OneMessageEach, AttemptFlags, Holds

(* A fetch is admitted only for a host that is free.                          *)
LEMMA KickStep ==
  ASSUME ReservationInv, NEW h \in Hosts, NEW manual \in BOOLEAN, Kick(h, manual)
  PROVE  ReservationInv'
<1>1. /\ RemoteTypeOK /\ AttemptFlags /\ HolderReserves /\ MessageReserves /\ OneMessageEach
      /\ RecoversTimeouts
  BY DEF ReservationInv
<1>2. /\ ~BreakerAtKick(h).in_flight
      /\ breaker' = [breaker EXCEPT ![h] =
           MarkInflight(IF manual THEN BreakerAtKick(h) ELSE AfterAttempt(BreakerAtKick(h)))]
      /\ handle' = [handle EXCEPT ![h] = "active"]
      /\ UNCHANGED <<inbox, slot, peer, master>>
  BY DEF Kick
<1>3. PICK a \in AttemptIds :
        /\ Unused(a)
        /\ attempt' = [attempt EXCEPT ![h] = a]
        /\ object' = [Invalidate(h, object) EXCEPT ![a] = Fresh]
        /\ thread' = [thread EXCEPT ![a] = [Idle EXCEPT !.host = h, !.at = "queued"]]
  BY DEF Kick
<1>4. Released(h) \/ ~breaker[h].in_flight
  BY <1>2 DEF BreakerAtKick
<1>5. /\ [Idle EXCEPT !.host = h, !.at = "queued"] = [host |-> h, at |-> "queued", snap |-> Blank]
      /\ [host |-> h, at |-> "queued", snap |-> Blank] \in ThreadRecords
  <2>1. [Idle EXCEPT !.host = h, !.at = "queued"] = [host |-> h, at |-> "queued", snap |-> Blank]
    BY IdleAt
  <2> QED
    BY <2>1, SnapshotShapes DEF ThreadRecords, ThreadStates
<1>6. /\ thread' \in [AttemptIds -> ThreadRecords] /\ object' \in [AttemptIds -> ObjectFlags]
      /\ thread'[a] = [host |-> h, at |-> "queued", snap |-> Blank] /\ object'[a] = Fresh
      /\ \A x \in AttemptIds \ {a} : /\ thread'[x] = thread[x]
                                     /\ object'[x] = Invalidate(h, object)[x]
  BY <1>1, <1>3, <1>5, TypesOf, InvalidateFlags, SnapshotShapes
<1>7. /\ breaker' \in [Hosts -> Breaker] /\ breaker'[h].in_flight
      /\ attempt' \in [Hosts -> AttemptIds \union {NoAttempt}] /\ attempt'[h] = a
      /\ \A g \in Hosts \ {h} : breaker'[g] = breaker[g] /\ attempt'[g] = attempt[g]
  <2>1. breaker \in [Hosts -> Breaker] /\ attempt \in [Hosts -> AttemptIds \union {NoAttempt}]
    BY <1>1, TypesOf
  <2>2. BreakerAtKick(h) \in Breaker
    BY <2>1, KickBreaker
  <2>3. AfterAttempt(BreakerAtKick(h)) \in Breaker
    BY <2>2, BreakerOperators
  <2>4. \A b \in Breaker : MarkInflight(b) \in Breaker /\ MarkInflight(b).in_flight
    BY BreakerOperators, InFlightOf
  <2> QED
    BY <1>2, <1>3, <2>1, <2>2, <2>3, <2>4
<1>8. RemoteTypeOK'
  <2>1. PeersTypeOK'
    BY <1>1, <1>2, TypesOf DEF PeersTypeOK
  <2>2. handle' \in [Hosts -> {"none", "active", "success", "cancelled", "error"}]
    BY <1>1, <1>2, TypesOf
  <2> QED
    BY <1>1, <1>2, <1>6, <1>7, <2>1, <2>2, TypesOf, TypesNext
<1>9. ASSUME NEW x \in AttemptIds \ {a}, Holds(x)'
      PROVE  Holds(x) /\ thread[x].host # h
  <2>1. Holds(x)
    BY <1>1, <1>6, <1>9, InvalidateFlags DEF Holds, Fetching, At
  <2>2. CASE thread[x].host = h
    <3>1. Released(h) /\ x = attempt[h] /\ ~Fetching(x)
      BY <1>4, <2>1, <2>2, FreeAtKick
    <3>2. object'[x].invalidated
      BY <1>1, <1>6, <3>1, InvalidateFlags
    <3> QED
      BY <1>6, <1>9, <3>1, <3>2 DEF Holds, Fetching
  <2> QED
    BY <2>1, <2>2
<1>10. HolderReserves'
  <2>1. ASSUME NEW x \in AttemptIds \ {a}, Holds(x)'
        PROVE  attempt'[thread'[x].host] = x /\ breaker'[thread'[x].host].in_flight
    <3>1. Holds(x) /\ thread[x].host \in Hosts \ {h}
      BY <1>1, <1>9, <2>1 DEF Holds, Fetching, At, AttemptFlags
    <3> QED
      BY <1>1, <1>6, <1>7, <3>1 DEF HolderReserves
  <2> QED
    BY <1>6, <1>7, <2>1 DEF HolderReserves
<1>11. MessageReserves'
  <2>1. \A i \in DOMAIN inbox : inbox[i].host \in Hosts \ {h}
    BY <1>1, <1>4, FreeAtKick, MessageTypes
  <2> QED
    BY <1>1, <1>2, <1>7, <2>1 DEF MessageReserves
<1>12. AttemptFlags'
  <2>1. \A g \in Hosts : handle'[g] # "none" => attempt'[g] \in AttemptIds
    BY <1>1, <1>2, <1>7, TypesOf DEF AttemptFlags
  <2>2. ASSUME NEW x \in AttemptIds
        PROVE  /\ thread'[x].at # "idle" => thread'[x].host \in Hosts
               /\ At(x, "queued")' => ~object'[x].unlanded
               /\ Fetching(x)' => Irrevocable(x)'
    BY <1>1, <1>6, InvalidateFlags DEF AttemptFlags, At, Fetching, Irrevocable, Fresh
  <2> QED
    BY <2>1, <2>2 DEF AttemptFlags
<1>13. OneMessageEach'
  <2>1. \A i \in DOMAIN inbox : inbox[i].id \in AttemptIds \ {a}
    BY <1>1, <1>3, MessageTypes DEF Unused
  <2> QED
    BY <1>1, <1>2, <1>6, <2>1, InvalidateFlags DEF OneMessageEach, Irrevocable
<1>14. RecoversTimeouts'
  BY <1>1, <1>6 DEF RecoversTimeouts, At
<1> QED
  BY <1>8, <1>10, <1>11, <1>12, <1>13, <1>14 DEF ReservationInv

(* A tick that only takes a reservation back.                                 *)
LEMMA RefusedStep ==
  ASSUME ReservationInv, NEW h \in Hosts, KickRefused(h)
  PROVE  ReservationInv'
<1>1. /\ RemoteTypeOK /\ AttemptFlags /\ HolderReserves /\ MessageReserves /\ OneMessageEach
      /\ RecoversTimeouts
  BY DEF ReservationInv
<1>2. /\ Released(h) /\ object' = Invalidate(h, object)
      /\ breaker' = [breaker EXCEPT ![h] = BreakerAtKick(h)]
      /\ UNCHANGED <<handle, attempt, thread, inbox, slot, peer, master>>
  BY DEF KickRefused
<1>3. RemoteTypeOK'
  <2>1. PeersTypeOK'
    BY <1>1, <1>2, TypesOf DEF PeersTypeOK
  <2> QED
    BY <1>1, <1>2, <2>1, TypesOf, TypesNext, InvalidateFlags, KickBreaker
<1>4. ASSUME NEW x \in AttemptIds, Holds(x)'
      PROVE  Holds(x) /\ thread[x].host \in Hosts \ {h}
  <2>1. Holds(x) /\ thread[x].host \in Hosts
    BY <1>1, <1>2, <1>4, InvalidateFlags DEF Holds, Fetching, At, AttemptFlags
  <2>2. CASE thread[x].host = h
    <3>1. x = attempt[h] /\ ~Fetching(x)
      BY <1>2, <2>1, <2>2, FreeAtKick
    <3>2. object'[x].invalidated
      BY <1>1, <1>2, <3>1, InvalidateFlags
    <3> QED
      BY <1>2, <1>4, <3>1, <3>2 DEF Holds, Fetching
  <2> QED
    BY <2>1, <2>2
<1>5. HolderReserves'
  BY <1>1, <1>2, <1>4, TypesOf DEF HolderReserves
<1>6. MessageReserves'
  <2>1. \A i \in DOMAIN inbox : inbox[i].host \in Hosts \ {h}
    BY <1>1, <1>2, FreeAtKick, MessageTypes
  <2> QED
    BY <1>1, <1>2, <2>1, TypesOf DEF MessageReserves
<1>7. AttemptFlags' /\ OneMessageEach' /\ RecoversTimeouts'
  <2>1. \A i \in DOMAIN inbox : inbox[i].id \in AttemptIds
    BY <1>1, MessageTypes
  <2> QED
    BY <1>1, <1>2, <2>1, InvalidateFlags
       DEF AttemptFlags, OneMessageEach, RecoversTimeouts, At, Fetching, Irrevocable
<1> QED
  BY <1>3, <1>5, <1>6, <1>7 DEF ReservationInv

(* A thread that moves on, holding its host no more than it did, keeps the     *)
(* protocol.                                                                 *)
LEMMA ThreadMoves ==
  ASSUME ReservationInv, NEW a \in AttemptIds, PeersTypeOK',
         UNCHANGED <<breaker, attempt, inbox, slot>>,
         handle' \in [Hosts -> {"none", "active", "success", "cancelled", "error"}],
         \A h \in Hosts : handle'[h] # "none" => handle[h] # "none",
         object' \in [AttemptIds -> ObjectFlags],
         thread' \in [AttemptIds -> ThreadRecords],
         \A x \in AttemptIds \ {a} : thread'[x] = thread[x] /\ object'[x] = object[x],
         thread'[a].host = thread[a].host, thread[a].at # "idle", thread'[a].at # "queued",
         Fetching(a)' => Holds(a) /\ Irrevocable(a)',
         At(a, "recovering")' => thread'[a].snap.code = "timeout" /\ Shares(thread[a].host),
         thread[a].at \in {"posted", "ended"} =>
           thread'[a].at \in {"posted", "ended"} /\ object'[a] = object[a]
  PROVE  ReservationInv'
<1>1. /\ RemoteTypeOK /\ AttemptFlags /\ HolderReserves /\ MessageReserves /\ OneMessageEach
      /\ RecoversTimeouts
  BY DEF ReservationInv
<1>2. RemoteTypeOK'
  BY <1>1, TypesOf, TypesNext
<1>3. \A x \in AttemptIds : Holds(x)' => Holds(x)
  BY DEF Holds, Fetching, At
<1>4. HolderReserves' /\ MessageReserves'
  BY <1>1, <1>3 DEF HolderReserves, MessageReserves
<1>5. AttemptFlags'
  BY <1>1 DEF AttemptFlags, At, Fetching, Irrevocable
<1>6. OneMessageEach'
  BY <1>1, MessageTypes DEF OneMessageEach, Irrevocable
<1>7. RecoversTimeouts'
  BY <1>1 DEF RecoversTimeouts, At
<1> QED
  BY <1>2, <1>4, <1>5, <1>6, <1>7 DEF ReservationInv

(* How a worker's handle ends.                                                *)
LEMMA HandleEndsOK ==
  ASSUME RemoteTypeOK, NEW a \in AttemptIds, NEW state \in {"success", "error"},
         HandleEnds(a, state)
  PROVE  /\ handle' \in [Hosts -> {"none", "active", "success", "cancelled", "error"}]
         /\ \A h \in Hosts : handle'[h] # "none" => handle[h] # "none"
BY TypesOf DEF HandleEnds

(* The worker threads' steps, short of the message.                           *)
LEMMA ThreadStepOK ==
  ASSUME ReservationInv, NEW a \in AttemptIds,
         Start(a) \/ Fetch(a, TRUE) \/ Fetch(a, FALSE) \/ Recover(a) \/ Finish(a) \/ Dies(a)
  PROVE  ReservationInv'
<1>1. /\ RemoteTypeOK /\ AttemptFlags /\ PeersTypeOK
      /\ handle \in [Hosts -> {"none", "active", "success", "cancelled", "error"}]
      /\ object \in [AttemptIds -> ObjectFlags]
      /\ thread \in [AttemptIds -> ThreadRecords]
      /\ thread[a] \in ThreadRecords /\ object[a] \in ObjectFlags
  BY TypesOf DEF ReservationInv
<1>2. CASE Start(a)
  <2>1. UNCHANGED <<breaker, attempt, inbox, slot, peer, master>> /\ thread[a].at = "queued"
    BY <1>2 DEF Start, At
  <2>2. /\ handle' \in [Hosts -> {"none", "active", "success", "cancelled", "error"}]
        /\ \A h \in Hosts : handle'[h] # "none" => handle[h] # "none"
    BY <1>1, <1>2, HandleEndsOK DEF Start
  <2>3. PeersTypeOK'
    BY <1>1, <2>1 DEF PeersTypeOK
  <2>4. CASE object[a].invalidated
    <3>1. thread' = [thread EXCEPT ![a].at = "ended"] /\ object' = object
      BY <1>2, <2>4 DEF Start, MovesTo
    <3>2. thread' \in [AttemptIds -> ThreadRecords]
      BY <1>1, <3>1, ThreadFields DEF ThreadStates
    <3> QED
      BY <1>1, <2>1, <2>2, <2>3, <3>1, <3>2, ThreadMoves DEF Fetching, At
  <2>5. CASE ~object[a].invalidated
    <3>1. /\ thread' = [thread EXCEPT ![a].at = "all"]
          /\ object' = [object EXCEPT ![a].started = TRUE]
      BY <1>2, <2>5 DEF Start, MovesTo
    <3>2. thread' \in [AttemptIds -> ThreadRecords]
      BY <1>1, <3>1, ThreadFields DEF ThreadStates
    <3>3. [object[a] EXCEPT !.started = TRUE] \in ObjectFlags
      BY <1>1 DEF ObjectFlags
    <3>4. object' \in [AttemptIds -> ObjectFlags]
      BY <1>1, <3>1, <3>3
    <3>5. Holds(a) /\ Irrevocable(a)'
      BY <1>1, <2>1, <2>5, <3>1 DEF Holds, At, AttemptFlags, Irrevocable, ObjectFlags
    <3>6. /\ thread'[a].host = thread[a].host /\ thread'[a].at = "all"
          /\ \A x \in AttemptIds \ {a} : thread'[x] = thread[x] /\ object'[x] = object[x]
      BY <1>1, <3>1
    <3> QED
      BY <1>1, <2>1, <2>2, <2>3, <3>2, <3>4, <3>5, <3>6, ThreadMoves DEF At
  <2> QED
    BY <2>4, <2>5
<1>3. ASSUME NEW all \in BOOLEAN, Fetch(a, all)  PROVE ReservationInv'
  <2>1. /\ thread[a].at \in {"all", "own"} /\ thread[a].host \in Hosts
        /\ UNCHANGED <<breaker, handle, attempt, object, inbox, slot, peer>>
    BY <1>1, <1>3 DEF Fetch, At, AttemptFlags
  <2>2. Holds(a) /\ Irrevocable(a)
    BY <1>1, <2>1 DEF Holds, Fetching, AttemptFlags
  <2> DEFINE h == thread[a].host
             o == Answer(h, all)
             s == Snapshot(o, ~all)
  <2>3. /\ s \in Snapshots /\ (o.ended = "timeout" => s.code = "timeout")
    BY <1>1, <2>1, SnapshotOf
  <2>4. Recovers(h, o) => s.code = "timeout" /\ Shares(h)
    BY <2>3 DEF Recovers, RecoversMaster, Shares
  <2>5. /\ IF o.ended = "timeout" THEN UNCHANGED master ELSE Connected(h)
        /\ \/ thread' = [thread EXCEPT ![a].at = "own"]
           \/ thread' = [thread EXCEPT ![a].at = IF Recovers(h, o) THEN "recovering" ELSE "fetched",
                                       ![a].snap = s]
    BY <1>3 DEF Fetch, MovesTo, HasResult
  <2>6. PeersTypeOK'
    BY <1>1, <2>1, <2>5 DEF PeersTypeOK, Connected
  <2> HIDE DEF h, o, s
  <2>7. thread' \in [AttemptIds -> ThreadRecords]
    <3>1. [thread EXCEPT ![a].at = "own"] \in [AttemptIds -> ThreadRecords]
      BY <1>1, ThreadFields DEF ThreadStates
    <3>2. PICK p \in ThreadStates : p = IF Recovers(h, o) THEN "recovering" ELSE "fetched"
      BY DEF ThreadStates
    <3>3. [thread EXCEPT ![a].at = p, ![a].snap = s] \in [AttemptIds -> ThreadRecords]
      BY <1>1, <2>3, ThreadFields
    <3> QED
      BY <2>5, <3>1, <3>2, <3>3
  <2>8. /\ thread'[a].host = h
        /\ thread'[a].at \in {"own", "recovering", "fetched"}
        /\ thread'[a].at = "recovering" => thread'[a].snap = s /\ Recovers(h, o)
        /\ \A x \in AttemptIds \ {a} : thread'[x] = thread[x]
    BY <1>1, <2>5 DEF ThreadRecords, h
  <2> QED
    BY <1>1, <2>1, <2>2, <2>4, <2>6, <2>7, <2>8, ThreadMoves DEF At, Irrevocable, h
<1>4. CASE Recover(a)
  <2>1. /\ thread[a].at = "recovering" /\ thread' = [thread EXCEPT ![a].at = "fetched"]
        /\ UNCHANGED <<breaker, handle, attempt, object, inbox, slot, peer>>
        /\ AsksMasterToExit(thread[a].host)
    BY <1>4 DEF Recover, At, MovesTo
  <2>2. Holds(a) /\ Irrevocable(a)
    BY <1>1, <2>1 DEF Holds, Fetching, AttemptFlags
  <2>3. PeersTypeOK'
    BY <1>1, <2>1 DEF PeersTypeOK, AsksMasterToExit
  <2>4. thread' \in [AttemptIds -> ThreadRecords]
    BY <1>1, <2>1, ThreadFields DEF ThreadStates
  <2> QED
    BY <1>1, <2>1, <2>2, <2>3, <2>4, ThreadMoves DEF At, Irrevocable
<1>5. ASSUME thread' = [thread EXCEPT ![a] = [Idle EXCEPT !.host = thread[a].host, !.at = "ended"]],
             thread[a].at # "idle"
      PROVE  /\ thread' \in [AttemptIds -> ThreadRecords]
             /\ thread'[a].host = thread[a].host /\ thread'[a].at = "ended"
             /\ \A x \in AttemptIds \ {a} : thread'[x] = thread[x]
  <2>1. [host |-> thread[a].host, at |-> "ended", snap |-> Blank] \in ThreadRecords
    BY <1>1, SnapshotShapes DEF ThreadRecords, ThreadStates
  <2>2. thread' = [thread EXCEPT ![a] = [host |-> thread[a].host, at |-> "ended", snap |-> Blank]]
    BY <1>5, IdleAt
  <2> QED
    BY <1>1, <2>1, <2>2
<1>6. CASE Finish(a)
  <2>1. thread[a].at = "posted" /\ UNCHANGED <<breaker, attempt, object, inbox, slot, peer, master>>
    BY <1>6 DEF Finish, At
  <2>2. /\ handle' \in [Hosts -> {"none", "active", "success", "cancelled", "error"}]
        /\ \A h \in Hosts : handle'[h] # "none" => handle[h] # "none"
    BY <1>1, <1>6, HandleEndsOK DEF Finish
  <2>3. PeersTypeOK'
    BY <1>1, <2>1 DEF PeersTypeOK
  <2>4. /\ thread' \in [AttemptIds -> ThreadRecords]
        /\ thread'[a].host = thread[a].host /\ thread'[a].at = "ended"
        /\ \A x \in AttemptIds \ {a} : thread'[x] = thread[x]
    BY <1>5, <1>6, <2>1 DEF Finish
  <2> QED
    BY <1>1, <2>1, <2>2, <2>3, <2>4, ThreadMoves DEF Fetching, At
<1>7. CASE Dies(a)
  <2>1. /\ thread[a].at \in {"all", "own", "recovering", "fetched"}
        /\ object' = [object EXCEPT ![a].unlanded = TRUE]
        /\ UNCHANGED <<breaker, attempt, inbox, slot, peer, master>>
    BY <1>7 DEF Dies
  <2>2. /\ handle' \in [Hosts -> {"none", "active", "success", "cancelled", "error"}]
        /\ \A h \in Hosts : handle'[h] # "none" => handle[h] # "none"
    BY <1>1, <1>7, HandleEndsOK DEF Dies
  <2>3. PeersTypeOK'
    BY <1>1, <2>1 DEF PeersTypeOK
  <2>4. /\ thread' \in [AttemptIds -> ThreadRecords]
        /\ thread'[a].host = thread[a].host /\ thread'[a].at = "ended"
        /\ \A x \in AttemptIds \ {a} : thread'[x] = thread[x]
    BY <1>5, <1>7, <2>1 DEF Dies
  <2>5. [object[a] EXCEPT !.unlanded = TRUE] \in ObjectFlags
    BY <1>1 DEF ObjectFlags
  <2>6. object' \in [AttemptIds -> ObjectFlags] /\ \A x \in AttemptIds \ {a} : object'[x] = object[x]
    BY <1>1, <2>1, <2>5
  <2> QED
    BY <1>1, <2>1, <2>2, <2>3, <2>4, <2>6, ThreadMoves DEF Fetching, At
<1> QED
  BY <1>2, <1>3, <1>4, <1>6, <1>7

(* Peers and connections change only as their types allow.                    *)
LEMMA PeersMoveType ==
  ASSUME PeersTypeOK, NEW h \in Hosts, PeersMove(h)
  PROVE  PeersTypeOK'
<1>1. peer \in [Hosts -> Peer] /\ master \in [Hosts -> {"none", "up", "stuck"}]
  BY DEF PeersTypeOK
<1>2. CASE PeerChanges(h)
  <2>1. PICK does \in Conditions, alive \in SUBSET (Sessions \ peer[h].gone) :
          peer' = [peer EXCEPT ![h] =
                    [does |-> does, alive |-> alive,
                     gone |-> peer[h].gone \union (peer[h].alive \ alive)]]
    BY <1>2 DEF PeerChanges
  <2>2. peer[h].gone \in SUBSET Sessions /\ peer[h].alive \in SUBSET Sessions
    BY <1>1 DEF Peer
  <2>3. [does |-> does, alive |-> alive,
         gone |-> peer[h].gone \union (peer[h].alive \ alive)] \in Peer
    BY <2>2 DEF Peer
  <2> QED
    BY <1>1, <1>2, <2>1, <2>3 DEF PeerChanges, PeersTypeOK
<1>3. CASE MasterSticks(h) \/ MasterEnds(h)
  BY <1>1, <1>3 DEF MasterSticks, MasterEnds, PeersTypeOK
<1> QED
  BY <1>2, <1>3 DEF PeersMove

(* A cancelled worker, and the clock and the peers, which touch no attempt.    *)
LEMMA OutsideStep ==
  ASSUME ReservationInv, NEW h \in Hosts,
         Cancel(h) \/ BackoffExpires(h) \/ PeerStep(h)
  PROVE  ReservationInv'
<1>1. /\ RemoteTypeOK /\ AttemptFlags /\ PeersTypeOK /\ HolderReserves /\ MessageReserves
      /\ OneMessageEach /\ RecoversTimeouts
      /\ handle \in [Hosts -> {"none", "active", "success", "cancelled", "error"}]
      /\ breaker \in [Hosts -> Breaker] /\ breaker[h] \in Breaker
      /\ attempt \in [Hosts -> AttemptIds \union {NoAttempt}]
      /\ object \in [AttemptIds -> ObjectFlags]
      /\ thread \in [AttemptIds -> ThreadRecords]
  BY TypesOf DEF ReservationInv
<1>2. CASE Cancel(h)
  <2>1. /\ handle[h] = "active" /\ handle' = [handle EXCEPT ![h] = "cancelled"]
        /\ UNCHANGED <<breaker, attempt, object, inbox, slot, peer, master>>
    BY <1>2 DEF Cancel
  <2>2. /\ handle' \in [Hosts -> {"none", "active", "success", "cancelled", "error"}]
        /\ \A g \in Hosts : handle'[g] # "none" => handle[g] # "none"
    BY <1>1, <2>1
  <2>3. PeersTypeOK'
    BY <1>1, <2>1 DEF PeersTypeOK
  <2>4. attempt[h] \in AttemptIds
    BY <1>1, <2>1 DEF AttemptFlags
  <2>5. CASE thread' = thread
    <3>1. RemoteTypeOK'
      BY <1>1, <2>1, <2>2, <2>3, <2>5, TypesOf, TypesNext
    <3> QED
      BY <1>1, <2>1, <2>2, <2>5, <3>1
         DEF ReservationInv, HolderReserves, MessageReserves, AttemptFlags, OneMessageEach,
             RecoversTimeouts, Holds, Fetching, At, Irrevocable
  <2>6. CASE /\ thread[attempt[h]].at = "queued"
             /\ thread' = [thread EXCEPT ![attempt[h]].at = "ended"]
    <3>1. PICK a \in AttemptIds : a = attempt[h]
      BY <2>4
    <3>2. thread' \in [AttemptIds -> ThreadRecords] /\ thread[a] \in ThreadRecords
      BY <1>1, <2>6, <3>1, ThreadFields DEF ThreadStates
    <3>3. /\ thread'[a].host = thread[a].host /\ thread'[a].at = "ended" /\ thread[a].at = "queued"
          /\ \A x \in AttemptIds \ {a} : thread'[x] = thread[x]
      BY <1>1, <2>6, <3>1
    <3> QED
      BY <1>1, <2>1, <2>2, <2>3, <3>2, <3>3, ThreadMoves DEF Fetching, At
  <2> QED
    BY <1>2, <2>5, <2>6 DEF Cancel
<1>3. CASE BackoffExpires(h)
  <2>1. /\ breaker' = [breaker EXCEPT ![h] = [breaker[h] EXCEPT !.due = TRUE]]
        /\ UNCHANGED <<handle, attempt, object, thread, inbox, slot, peer, master>>
    BY <1>3 DEF BackoffExpires
  <2>2. /\ [breaker[h] EXCEPT !.due = TRUE] \in Breaker
        /\ [breaker[h] EXCEPT !.due = TRUE].in_flight = breaker[h].in_flight
    BY <1>1, BreakerFields DEF Breaker
  <2>3. /\ breaker' \in [Hosts -> Breaker]
        /\ \A g \in Hosts : breaker'[g].in_flight = breaker[g].in_flight
    BY <1>1, <2>1, <2>2
  <2>4. PeersTypeOK'
    BY <1>1, <2>1 DEF PeersTypeOK
  <2>5. RemoteTypeOK'
    BY <1>1, <2>1, <2>3, <2>4, TypesOf, TypesNext
  <2>6. HolderReserves' /\ MessageReserves'
    <3>1. \A a \in AttemptIds : Holds(a) => thread[a].host \in Hosts
      BY <1>1 DEF Holds, Fetching, At, AttemptFlags
    <3>2. \A i \in DOMAIN inbox : inbox[i].host \in Hosts
      BY <1>1, MessageTypes
    <3> QED
      BY <1>1, <2>1, <2>3, <3>1, <3>2 DEF HolderReserves, MessageReserves, Holds, Fetching, At
  <2> QED
    BY <1>1, <2>1, <2>5, <2>6
       DEF ReservationInv, AttemptFlags, OneMessageEach, RecoversTimeouts, Fetching, At, Irrevocable
<1>4. CASE PeerStep(h)
  <2>1. UNCHANGED <<breaker, handle, attempt, object, thread, inbox, slot>> /\ PeersMove(h)
    BY <1>4 DEF PeerStep
  <2>2. PeersTypeOK'
    BY <1>1, <2>1, PeersMoveType
  <2>3. RemoteTypeOK'
    BY <1>1, <2>1, <2>2, TypesOf, TypesNext
  <2> QED
    BY <1>1, <2>1, <2>3
       DEF ReservationInv, HolderReserves, MessageReserves, AttemptFlags, OneMessageEach,
           RecoversTimeouts, Holds, Fetching, At, Irrevocable
<1> QED
  BY <1>2, <1>3, <1>4

(* A thread whose read is done queues its one message.                        *)
LEMMA PostStep ==
  ASSUME ReservationInv, NEW a \in AttemptIds, Post(a)
  PROVE  ReservationInv'
<1>1. /\ RemoteTypeOK /\ AttemptFlags /\ PeersTypeOK /\ HolderReserves /\ MessageReserves
      /\ OneMessageEach /\ RecoversTimeouts
      /\ inbox \in Seq(Messages)
      /\ thread \in [AttemptIds -> ThreadRecords] /\ thread[a] \in ThreadRecords
  BY TypesOf DEF ReservationInv
<1>2. /\ thread[a].at = "fetched" /\ thread' = [thread EXCEPT ![a].at = "posted"]
      /\ inbox' = Append(inbox, [host |-> thread[a].host, id |-> a, snap |-> thread[a].snap])
      /\ UNCHANGED <<breaker, handle, attempt, object, slot, peer, master>>
  BY DEF Post, At, MovesTo
<1>3. thread[a].host \in Hosts /\ Holds(a) /\ Irrevocable(a)
  BY <1>1, <1>2 DEF AttemptFlags, Holds, Fetching
<1>4. PICK m \in Messages : m = [host |-> thread[a].host, id |-> a, snap |-> thread[a].snap]
  BY <1>1, <1>3 DEF Messages, ThreadRecords
<1>5. m.host = thread[a].host /\ m.id = a
  BY <1>4
<1>6. /\ inbox' \in Seq(Messages) /\ DOMAIN inbox = 1..Len(inbox) /\ Len(inbox) \in Nat
      /\ DOMAIN inbox' = 1..(Len(inbox) + 1)
      /\ \A i \in 1..Len(inbox) : inbox'[i] = inbox[i]
      /\ inbox'[Len(inbox) + 1] = m
  BY <1>1, <1>2, <1>4
<1>7. /\ thread' \in [AttemptIds -> ThreadRecords]
      /\ thread'[a].host = thread[a].host /\ thread'[a].at = "posted"
      /\ \A x \in AttemptIds \ {a} : thread'[x] = thread[x]
  <2>1. thread' \in [AttemptIds -> ThreadRecords]
    BY <1>1, <1>2, ThreadFields DEF ThreadStates
  <2>2. [thread[a] EXCEPT !.at = "posted"].host = thread[a].host
    BY <1>1 DEF ThreadRecords
  <2>3. [thread[a] EXCEPT !.at = "posted"].at = "posted"
    BY <1>1 DEF ThreadRecords
  <2>4. thread' = [thread EXCEPT ![a] = [thread[a] EXCEPT !.at = "posted"]]
    BY <1>2
  <2> QED
    BY <1>1, <2>1, <2>2, <2>3, <2>4
<1>8. \A i \in DOMAIN inbox : inbox[i].id \in AttemptIds \ {a} /\ inbox[i].host \in Hosts
  BY <1>1, <1>2, MessageTypes DEF OneMessageEach
<1>9. \A i \in DOMAIN inbox' : \/ i \in DOMAIN inbox /\ inbox'[i] = inbox[i]
                               \/ i = Len(inbox) + 1 /\ inbox'[i] = m
  BY <1>6
<1>10. RemoteTypeOK'
  <2>1. PeersTypeOK'
    BY <1>1, <1>2 DEF PeersTypeOK
  <2> QED
    BY <1>1, <1>2, <1>6, <1>7, <2>1, TypesOf, TypesNext
<1>11. HolderReserves'
  <2>1. \A x \in AttemptIds : Holds(x)' => Holds(x)
    BY <1>2, <1>3, <1>7 DEF Holds, Fetching, At
  <2> QED
    BY <1>1, <1>2, <1>7, <2>1 DEF HolderReserves
<1>12. MessageReserves'
  BY <1>1, <1>2, <1>3, <1>5, <1>9 DEF MessageReserves, HolderReserves
<1>13. AttemptFlags'
  BY <1>1, <1>2, <1>7 DEF AttemptFlags, At, Fetching, Irrevocable
<1>14. OneMessageEach'
  <2>1. \A i \in DOMAIN inbox' :
          /\ object'[inbox'[i].id].started /\ ~object'[inbox'[i].id].unlanded
          /\ thread'[inbox'[i].id].at \in {"posted", "ended"}
    BY <1>1, <1>2, <1>3, <1>5, <1>7, <1>8, <1>9 DEF OneMessageEach, Irrevocable
  <2>2. ASSUME NEW i \in DOMAIN inbox', NEW j \in DOMAIN inbox', inbox'[i].id = inbox'[j].id
        PROVE  i = j
    BY <1>1, <1>5, <1>8, <1>9, <2>2 DEF OneMessageEach
  <2> QED
    BY <2>1, <2>2 DEF OneMessageEach, Irrevocable
<1>15. RecoversTimeouts'
  BY <1>1, <1>2, <1>7 DEF RecoversTimeouts, At
<1> QED
  BY <1>10, <1>11, <1>12, <1>13, <1>14, <1>15 DEF ReservationInv

(* The event loop handles the oldest message, and frees its host.             *)
LEMMA LandStep ==
  ASSUME ReservationInv, Land
  PROVE  ReservationInv'
<1>1. /\ RemoteTypeOK /\ AttemptFlags /\ PeersTypeOK /\ HolderReserves /\ MessageReserves
      /\ OneMessageEach /\ RecoversTimeouts
      /\ inbox \in Seq(Messages) /\ breaker \in [Hosts -> Breaker]
      /\ slot \in [Hosts -> [known : BOOLEAN, snap : Snapshots]]
  BY TypesOf DEF ReservationInv
<1>2. /\ inbox # <<>> /\ inbox' = Tail(inbox)
      /\ UNCHANGED <<handle, attempt, object, thread, peer, master>>
  BY DEF Land
<1>3. PICK m \in Messages : m = inbox[1] /\ m = Head(inbox) /\ 1 \in DOMAIN inbox
  BY <1>1, <1>2
<1>4. m.host \in Hosts /\ m.id \in AttemptIds /\ m.snap \in Snapshots
  BY DEF Messages
<1>5. attempt[m.host] = m.id
  BY <1>1, <1>3 DEF MessageReserves
<1>6. /\ breaker' = [breaker EXCEPT
           ![m.host] = ClearInflight(Outcome(breaker[m.host], m.snap))]
      /\ slot' = [slot EXCEPT ![m.host] = Folded(m.snap)]
  BY <1>3, <1>5 DEF Land
<1>7. /\ breaker' \in [Hosts -> Breaker]
      /\ slot' \in [Hosts -> [known : BOOLEAN, snap : Snapshots]]
      /\ \A g \in Hosts \ {m.host} : breaker'[g] = breaker[g]
  <2>0. breaker[m.host] \in Breaker
    BY <1>1, <1>4
  <2>1. Outcome(breaker[m.host], m.snap) \in Breaker
    <3>1. \A b \in Breaker : OnFailure(b, TRUE) \in Breaker /\ OnFailure(b, FALSE) \in Breaker
      BY BreakerOperators
    <3>2. \A b \in Breaker : OnIncompatible(b) \in Breaker /\ OnTransient(b) \in Breaker
      BY <3>1 DEF OnFailure
    <3>3. NewBreaker \in Breaker
      BY <2>0, BreakerOperators
    <3> QED
      BY <2>0, <3>2, <3>3 DEF Outcome, OnSuccess, OnFailure
  <2>2. ClearInflight(Outcome(breaker[m.host], m.snap)) \in Breaker
    BY <2>1, BreakerOperators
  <2>3. Folded(m.snap) \in [known : BOOLEAN, snap : Snapshots]
    BY <1>4, SnapshotShapes
  <2> QED
    BY <1>1, <1>4, <1>6, <2>2, <2>3
<1>8. inbox' \in Seq(Messages) /\ \A i \in DOMAIN inbox' :
        i + 1 \in DOMAIN inbox /\ i + 1 # 1 /\ inbox'[i] = inbox[i + 1] /\ i \in Nat
  BY <1>1, <1>2
<1>9. ASSUME NEW i \in DOMAIN inbox'  PROVE inbox'[i].host \in Hosts \ {m.host}
  <2>1. PICK j \in DOMAIN inbox : j # 1 /\ inbox'[i] = inbox[j]
    BY <1>8
  <2>2. inbox[j].host = m.host => inbox[j].id = m.id
    BY <1>1, <1>5 DEF MessageReserves
  <2> QED
    BY <1>1, <1>3, <2>1, <2>2, MessageTypes DEF OneMessageEach
<1>10. RemoteTypeOK'
  <2>1. PeersTypeOK'
    BY <1>1, <1>2 DEF PeersTypeOK
  <2> QED
    BY <1>1, <1>2, <1>7, <1>8, <2>1, TypesOf, TypesNext
<1>11. HolderReserves'
  <2>1. ASSUME NEW a \in AttemptIds, Holds(a)
        PROVE  thread[a].host \in Hosts \ {m.host}
    <3>1. thread[a].host \in Hosts
      BY <1>1, <2>1 DEF Holds, Fetching, At, AttemptFlags
    <3>2. thread[a].at \notin {"posted", "ended"}
      BY <2>1 DEF Holds, Fetching, At
    <3>3. thread[m.id].at \in {"posted", "ended"}
      BY <1>1, <1>3 DEF OneMessageEach
    <3> QED
      BY <1>1, <1>5, <2>1, <3>1, <3>2, <3>3 DEF HolderReserves
  <2> QED
    BY <1>1, <1>2, <1>7, <2>1 DEF HolderReserves, Holds, Fetching, At
<1>12. MessageReserves'
  BY <1>1, <1>2, <1>7, <1>8, <1>9 DEF MessageReserves
<1>13. AttemptFlags' /\ RecoversTimeouts'
  BY <1>1, <1>2 DEF AttemptFlags, RecoversTimeouts, At, Fetching, Irrevocable
<1>14. OneMessageEach'
  <2>1. \A i \in DOMAIN inbox' :
          /\ object'[inbox'[i].id].started /\ ~object'[inbox'[i].id].unlanded
          /\ thread'[inbox'[i].id].at \in {"posted", "ended"}
    BY <1>1, <1>2, <1>8 DEF OneMessageEach, Irrevocable
  <2>2. ASSUME NEW i \in DOMAIN inbox', NEW j \in DOMAIN inbox', inbox'[i].id = inbox'[j].id
        PROVE  i = j
    <3>1. i + 1 = j + 1
      BY <1>1, <1>8, <2>2 DEF OneMessageEach
    <3> QED
      BY <1>8, <3>1
  <2> QED
    BY <2>1, <2>2 DEF OneMessageEach, Irrevocable
<1> QED
  BY <1>10, <1>11, <1>12, <1>13, <1>14 DEF ReservationInv


(* Every step keeps the protocol.                                             *)
LEMMA ReservationInvStep ==
  ASSUME ReservationInv, [RemoteNext]_vars
  PROVE  ReservationInv'
<1>1. CASE UNCHANGED vars
  <2>1. PeersTypeOK' /\ RemoteTypeOK'
    BY <1>1 DEF ReservationInv, RemoteTypeOK, PeersTypeOK, vars
  <2> QED
    BY <1>1, <2>1
       DEF vars, ReservationInv, HolderReserves, MessageReserves, AttemptFlags, OneMessageEach,
           RecoversTimeouts, Holds, Fetching, At, Irrevocable
<1>2. ASSUME NEW h \in Hosts,
             Tick(h) \/ Kick(h, TRUE) \/ BackoffExpires(h) \/ Cancel(h) \/ PeerStep(h)
      PROVE  ReservationInv'
  BY <1>2, KickStep, RefusedStep, OutsideStep DEF Tick
<1>3. ASSUME NEW a \in AttemptIds, ThreadStep(a) \/ Dies(a)
      PROVE  ReservationInv'
  BY <1>3, ThreadStepOK, PostStep DEF ThreadStep
<1>4. CASE Land
  BY <1>4, LandStep
<1> QED
  BY <1>1, <1>2, <1>3, <1>4 DEF RemoteNext

(* Nothing is reserved, read or queued at first.                              *)
LEMMA ReservationInvInit ==
  ASSUME RemoteInit
  PROVE  ReservationInv
<1>1. PeersTypeOK
  <2>1. peer \in [Hosts -> Peer]
    <3>1. \A p \in [does : {"answers"}, alive : SUBSET Sessions, gone : {{}}] : p \in Peer
      BY PeersAssumption DEF Peer
    <3> QED
      BY <3>1 DEF RemoteInit, PeersInit
  <2> QED
    BY <2>1 DEF RemoteInit, PeersInit, PeersTypeOK
<1>2. RemoteTypeOK
  <2>1. breaker \in [Hosts -> Breaker]
    <3>1. NewBreaker \in Breaker
      BY DEF NewBreaker, Breaker, BreakerStates, TripAfter
    <3> QED
      BY <3>1 DEF RemoteInit
  <2>2. inbox \in Seq(Messages)
    BY DEF RemoteInit
  <2>3. /\ thread \in [AttemptIds -> ThreadRecords] /\ object \in [AttemptIds -> ObjectFlags]
        /\ slot \in [Hosts -> [known : BOOLEAN, snap : Snapshots]]
    BY SnapshotShapes DEF RemoteInit
  <2>4. /\ handle \in [Hosts -> {"none", "active", "success", "cancelled", "error"}]
        /\ attempt \in [Hosts -> AttemptIds \union {NoAttempt}]
    BY DEF RemoteInit
  <2> QED
    BY <1>1, <2>1, <2>2, <2>3, <2>4
       DEF RemoteTypeOK, Messages, ThreadRecords, ThreadStates, ObjectFlags
<1>3. \A a \in AttemptIds : thread[a].at = "idle"
  BY DEF RemoteInit, Idle
<1>4. DOMAIN inbox = {}
  BY DEF RemoteInit
<1>5. \A h \in Hosts : handle[h] = "none"
  BY DEF RemoteInit
<1> QED
  BY <1>2, <1>3, <1>4, <1>5
     DEF ReservationInv, HolderReserves, MessageReserves, AttemptFlags, OneMessageEach,
         RecoversTimeouts, Holds, Fetching, At

(* The reservation protocol holds of every behaviour, whatever is cancelled,   *)
(* dies, times out or is asked for by hand.                                   *)
THEOREM ReservationInvariant == RemoteSpec => []ReservationInv
<1>1. RemoteInit => ReservationInv
  BY ReservationInvInit
<1>2. ReservationInv /\ [RemoteNext]_vars => ReservationInv'
  BY ReservationInvStep
<1> QED
  BY <1>1, <1>2, PTL DEF RemoteSpec, RemoteSafety

(* Every variable keeps its type.                                             *)
THEOREM RemoteTypesHold == RemoteSpec => []RemoteTypeOK
<1>1. ReservationInv => RemoteTypeOK
  BY DEF ReservationInv
<1> QED
  BY <1>1, ReservationInvariant, PTL

(* A host is asked by one fetch at a time: the attempt that holds it.         *)
THEOREM OneFetch == RemoteSpec => []OneFetchPerHost
<1>1. ReservationInv => OneFetchPerHost
  BY DEF ReservationInv, HolderReserves, Holds, OneFetchPerHost
<1> QED
  BY <1>1, ReservationInvariant, PTL

(* Whatever is fetching, or waits to be handled, still holds its host.        *)
THEOREM ResultIsCovered == RemoteSpec => []ReservationCoversResult
<1>1. ReservationInv => ReservationCoversResult
  BY DEF ReservationInv, HolderReserves, MessageReserves, Holds, ReservationCoversResult
<1> QED
  BY <1>1, ReservationInvariant, PTL


-----------------------------------------------------------------------------
(* The refresh implements one read at a time per host, shown in order.       *)

HasMessage(h, s) == \E i \in DOMAIN inbox : inbox[i].host = h /\ inbox[i].snap = s

HoldsRead(h, s) ==
  \E a \in AttemptIds : /\ thread[a].host = h /\ thread[a].at \in {"recovering", "fetched"}
                        /\ thread[a].snap = s

Outstanding(h, s) == HasMessage(h, s) \/ HoldsRead(h, s)

(* What is being read of a host is the one outcome outstanding for it.        *)
OneOutstanding ==
  \A h \in Hosts :
    /\ \A s \in Snapshots : Outstanding(h, s) => ReadOf(h) = s
    /\ (\A s \in Snapshots : ~Outstanding(h, s)) => ReadOf(h) = NoRead

(* The reservation makes it one.                                             *)
LEMMA OutstandingIsRead == ReservationInv => OneOutstanding
<1> SUFFICES ASSUME ReservationInv, NEW h \in Hosts
             PROVE  /\ \A s \in Snapshots : Outstanding(h, s) => ReadOf(h) = s
                    /\ (\A s \in Snapshots : ~Outstanding(h, s)) => ReadOf(h) = NoRead
  BY DEF OneOutstanding
<1>1. /\ RemoteTypeOK /\ HolderReserves /\ MessageReserves /\ OneMessageEach
      /\ thread \in [AttemptIds -> ThreadRecords]
  BY TypesOf DEF ReservationInv
<1>2. \A i \in DOMAIN inbox : inbox[i].host = h => inbox[i].id = attempt[h] /\ i \in Waiting(h)
  BY <1>1 DEF MessageReserves, Waiting
<1>3. \A a \in Holding(h) : a \in AttemptIds /\ attempt[h] = a /\ ~(thread[a].at \in {"posted", "ended"})
  BY <1>1 DEF Holding, HolderReserves, Holds, Fetching
<1>4. \A i \in Waiting(h) : /\ i \in DOMAIN inbox /\ inbox[i].host = h /\ inbox[i].id = attempt[h]
                            /\ thread[attempt[h]].at \in {"posted", "ended"}
  BY <1>1 DEF Waiting, OneMessageEach
<1>5. \A i, j \in Waiting(h) : i = j
  BY <1>1, <1>4 DEF OneMessageEach
<1>6. ASSUME NEW i \in Waiting(h)  PROVE ReadOf(h) = inbox[i].snap
  <2>1. (CHOOSE j \in Waiting(h) : TRUE) \in Waiting(h)
    BY <1>6
  <2>2. (CHOOSE j \in Waiting(h) : TRUE) = i
    BY <1>5, <2>1
  <2> QED
    BY <2>2 DEF ReadOf
<1>7. ASSUME NEW a \in Holding(h)  PROVE ReadOf(h) = thread[a].snap
  <2>1. Waiting(h) = {}
    BY <1>3, <1>4
  <2>2. (CHOOSE b \in Holding(h) : TRUE) \in Holding(h)
    OBVIOUS
  <2>3. (CHOOSE b \in Holding(h) : TRUE) = a
    BY <1>3, <2>2
  <2> QED
    BY <2>1, <2>3 DEF ReadOf
<1>8. ASSUME NEW s \in Snapshots, Outstanding(h, s)  PROVE ReadOf(h) = s
  <2>1. CASE HasMessage(h, s)
    BY <1>2, <1>6, <2>1 DEF HasMessage
  <2>2. CASE HoldsRead(h, s)
    BY <1>7, <2>2 DEF HoldsRead, Holding
  <2> QED
    BY <1>8, <2>1, <2>2 DEF Outstanding
<1>9. ASSUME \A s \in Snapshots : ~Outstanding(h, s)  PROVE ReadOf(h) = NoRead
  <2>1. Waiting(h) = {}
    <3> SUFFICES ASSUME NEW i \in Waiting(h)  PROVE FALSE
      OBVIOUS
    <3>1. inbox[i].snap \in Snapshots /\ HasMessage(h, inbox[i].snap)
      BY <1>1, <1>4, MessageTypes DEF HasMessage
    <3> QED
      BY <1>9, <3>1 DEF Outstanding
  <2>2. Holding(h) = {}
    <3> SUFFICES ASSUME NEW a \in Holding(h)  PROVE FALSE
      OBVIOUS
    <3>1. a \in AttemptIds /\ thread[a] \in ThreadRecords
      BY <1>1 DEF Holding
    <3>2. thread[a].snap \in Snapshots /\ HoldsRead(h, thread[a].snap)
      BY <3>1 DEF ThreadRecords, HoldsRead, Holding
    <3> QED
      BY <1>9, <3>2 DEF Outstanding
  <2> QED
    BY <2>1, <2>2 DEF ReadOf
<1> QED
  BY <1>8, <1>9

(* No outcome is none at all.                                                *)
LEMMA ReadIsNotNone ==
  \A s \in Snapshots : s # NoRead
BY DEF NoRead, Blank, Snapshots, ErrorCodes, CompatibilityCodes

(* What is outstanding stays what is read.                                    *)
LEMMA ReadStays ==
  ASSUME OneOutstanding, OneOutstanding', NEW h \in Hosts,
         \A s \in Snapshots : Outstanding(h, s)' <=> Outstanding(h, s)
  PROVE  ReadOf(h)' = ReadOf(h)
BY DEF OneOutstanding


ReadsKeptBut(h) == \A g \in Hosts \ {h} : ReadOf(g)' = ReadOf(g)

ReadsKept == \A g \in Hosts : ReadOf(g)' = ReadOf(g)

(* The promise speaks of the same peers, connections and answers.             *)
LEMMA SamePeers ==
  /\ \A h, all : Slots!Answer(h, all) = Answer(h, all)
  /\ \A h : Slots!Stuck(h) = Stuck(h) /\ Slots!Shares(h) = Shares(h)
  /\ \A o : Slots!FallsBack(o) = FallsBack(o)
  /\ \A o, l : Slots!Snapshot(o, l) = Snapshot(o, l)
  /\ \A s : Slots!Folded(s) = Folded(s)
  /\ Slots!NoRead = NoRead /\ Slots!Blank = Blank
<1>1. \A h : Slots!Shares(h) = Shares(h)
  BY DEF Slots!Shares, Shares, Slots!SharesMaster, SharesMaster
<1>2. \A h : Slots!Stuck(h) = Stuck(h)
  BY <1>1 DEF Slots!Stuck, Stuck
<1>3. /\ \A x : Slots!Silent(x) = Silent(x)
      /\ \A x : Slots!SoundEnvelope(x) = SoundEnvelope(x)
      /\ \A x : Slots!Wrote(x) = Wrote(x)
  BY DEF Slots!Silent, Silent, Slots!SoundEnvelope, SoundEnvelope, Slots!Wrote, Wrote,
     Slots!NoEnvelope, NoEnvelope
<1>4. \A h, all : Slots!Answer(h, all) = Answer(h, all)
  BY <1>2, <1>3 DEF Slots!Answer, Answer
<1>5. Slots!ErrorCodes = ErrorCodes
  BY DEF Slots!ErrorCodes, ErrorCodes, Slots!CompatibilityCodes, CompatibilityCodes
<1>6. \A e : Slots!SchemaCode(e) = SchemaCode(e)
  BY DEF Slots!SchemaCode, SchemaCode
<1>7. \A e : Slots!ReportedCode(e) = ReportedCode(e)
  BY <1>5 DEF Slots!ReportedCode, ReportedCode
<1>8. \A S : Slots!Min(S) = Min(S)
  BY DEF Slots!Min, Min
<1>9. \A c, ok : Slots!FirstFailure(c, ok) = FirstFailure(c, ok)
  BY <1>8 DEF Slots!FirstFailure, FirstFailure
<1>10. \A e : Slots!EnvelopeCode(e) = EnvelopeCode(e)
  BY <1>6, <1>7, <1>9 DEF Slots!EnvelopeCode, EnvelopeCode
<1>11. \A e : Slots!PeerKnown(e) = PeerKnown(e)
  BY DEF Slots!PeerKnown, PeerKnown
<1>12. \A o : Slots!RunCode(o) = RunCode(o) /\ Slots!FallsBack(o) = FallsBack(o)
  BY DEF Slots!RunCode, RunCode, Slots!FallsBack, FallsBack
<1>13. \A o, l : Slots!Snapshot(o, l) = Snapshot(o, l)
  BY <1>10, <1>11, <1>12 DEF Slots!Snapshot, Snapshot
<1>14. Slots!NoRead = NoRead /\ Slots!Blank = Blank
  BY DEF Slots!NoRead, NoRead, Slots!Blank, Blank
<1>15. \A s : Slots!Folded(s) = Folded(s)
  BY DEF Slots!Folded, Folded, Slots!IsLive, IsLive
<1> QED
  BY <1>1, <1>2, <1>4, <1>12, <1>13, <1>14, <1>15

(* A read of one host is what the promise calls one.                          *)
LEMMA ReadImplements ==
  ASSUME NEW h \in Hosts, NEW all \in BOOLEAN, ReadsKeptBut(h), UNCHANGED <<peer, slot>>,
         ReadOf(h) = NoRead, ~(all /\ FallsBack(Answer(h, all))),
         ReadOf(h)' = Snapshot(Answer(h, all), ~all),
         IF Answer(h, all).ended = "timeout" THEN UNCHANGED master ELSE Connected(h)
  PROVE  Slots!SlotsNext
<1>1. Slots!Connected(h) = Connected(h)
  BY SamePeers DEF Slots!Connected, Connected
<1>2. /\ Slots!Answer(h, all) = Answer(h, all)
      /\ \A o : Slots!FallsBack(o) = FallsBack(o)
      /\ \A o, l : Slots!Snapshot(o, l) = Snapshot(o, l)
      /\ Slots!NoRead = NoRead
  BY SamePeers
<1> QED
  BY <1>1, <1>2 DEF Slots!SlotsNext, Slots!Read, ReadsKeptBut

(* So are the refused command's opening of the connection, the recovery of     *)
(* one that timed out, and what peers and connections do of themselves.        *)
LEMMA OtherImplement ==
  ASSUME NEW h \in Hosts, ReadsKept, UNCHANGED <<peer, slot>>
  PROVE  /\ ~Stuck(h) /\ Connected(h) => Slots!SlotsNext
         /\ /\ ReadOf(h) # NoRead /\ ReadOf(h).code = "timeout" /\ Shares(h)
            /\ AsksMasterToExit(h)
            => Slots!SlotsNext
<1>1. Slots!Connected(h) = Connected(h)
  BY SamePeers DEF Slots!Connected, Connected
<1>2. Slots!AsksMasterToExit(h) = AsksMasterToExit(h)
  BY DEF Slots!AsksMasterToExit, AsksMasterToExit
<1>3. Slots!Stuck(h) = Stuck(h) /\ Slots!Shares(h) = Shares(h) /\ Slots!NoRead = NoRead
  BY SamePeers
<1>4. [g \in Hosts |-> ReadOf(g)]' = [g \in Hosts |-> ReadOf(g)]
  BY DEF ReadsKept
<1> QED
  BY <1>1, <1>2, <1>3, <1>4
     DEF Slots!SlotsNext, Slots!OpensConnection, Slots!RecoversAfterRead

(* So is what peers and connections do of themselves.                         *)
LEMMA PeersImplement ==
  ASSUME NEW h \in Hosts, ReadsKept, UNCHANGED slot, PeersMove(h)
  PROVE  Slots!SlotsNext
<1>1. Slots!PeersMove(h)
  BY DEF PeersMove, PeerChanges, MasterSticks, MasterEnds,
     Slots!PeersMove, Slots!PeerChanges, Slots!MasterSticks, Slots!MasterEnds
<1>2. UNCHANGED Slots!slotVars
  BY DEF Slots!slotVars, ReadsKept
<1> QED
  BY <1>1, <1>2 DEF Slots!SlotsNext

(* What was read is shown, or lost with its reader.                           *)
LEMMA ReadEnds ==
  ASSUME NEW h \in Hosts, ReadsKeptBut(h), UNCHANGED <<peer, master>>,
         ReadOf(h) # NoRead, ReadOf(h)' = NoRead,
         UNCHANGED slot \/ slot' = [slot EXCEPT ![h] = Folded(ReadOf(h))]
  PROVE  Slots!SlotsNext
<1>1. Slots!NoRead = NoRead /\ \A r : Slots!Folded(r) = Folded(r)
  BY SamePeers
<1>0. PICK n : n = NoRead
  OBVIOUS
<1>4. [g \in Hosts |-> ReadOf(g)]' = [[g \in Hosts |-> ReadOf(g)] EXCEPT ![h] = n]
  <2>1. PICK q : q = [g \in Hosts |-> ReadOf(g)]'
    OBVIOUS
  <2>2. PICK r : r = [g \in Hosts |-> ReadOf(g)]
    OBVIOUS
  <2>3. \A g \in Hosts : q[g] = ReadOf(g)' /\ r[g] = ReadOf(g)
    BY <2>1, <2>2
  <2>4. q = [g \in Hosts |-> q[g]] /\ r = [g \in Hosts |-> r[g]]
    BY <2>1, <2>2
  <2>5. q[h] = n /\ \A g \in Hosts \ {h} : q[g] = r[g]
    BY <1>0, <2>3 DEF ReadsKeptBut
  <2>6. q = [r EXCEPT ![h] = n]
    BY <2>4, <2>5
  <2> QED
    BY <2>1, <2>2, <2>6
<1>2. CASE UNCHANGED slot
  <2>1. Slots!Lose(h)
    BY <1>0, <1>1, <1>2, <1>4 DEF Slots!Lose, Slots!peerVars
  <2> QED
    BY <2>1 DEF Slots!SlotsNext
<1>3. CASE slot' = [slot EXCEPT ![h] = Folded(ReadOf(h))]
  <2>1. Slots!Show(h)
    BY <1>0, <1>1, <1>3, <1>4 DEF Slots!Show, Slots!peerVars
  <2> QED
    BY <2>1 DEF Slots!SlotsNext
<1> QED
  BY <1>2, <1>3

(* A thread's step disturbs what is outstanding of its own host alone.        *)
LEMMA OthersOutstanding ==
  ASSUME RemoteTypeOK, NEW a \in AttemptIds, UNCHANGED inbox,
         \A x \in AttemptIds \ {a} : thread'[x] = thread[x],
         thread'[a].host = thread[a].host
  PROVE  \A g \in Hosts \ {thread[a].host}, s \in Snapshots :
           Outstanding(g, s)' <=> Outstanding(g, s)
BY DEF Outstanding, HasMessage, HoldsRead

(* One that holds no read before or after disturbs nothing.                   *)
LEMMA NothingOutstanding ==
  ASSUME RemoteTypeOK, NEW a \in AttemptIds, UNCHANGED inbox,
         \A x \in AttemptIds \ {a} : thread'[x] = thread[x],
         thread[a].at \notin {"recovering", "fetched"},
         thread'[a].at \notin {"recovering", "fetched"}
  PROVE  \A g \in Hosts, s \in Snapshots : Outstanding(g, s)' <=> Outstanding(g, s)
BY DEF Outstanding, HasMessage, HoldsRead

(* What stays outstanding stays read, for all hosts or all but one.           *)
LEMMA ReadsStay ==
  ASSUME OneOutstanding, OneOutstanding'
  PROVE  /\ (\A g \in Hosts, s \in Snapshots : Outstanding(g, s)' <=> Outstanding(g, s))
              => ReadsKept
         /\ \A h \in Hosts :
              (\A g \in Hosts \ {h}, s \in Snapshots : Outstanding(g, s)' <=> Outstanding(g, s))
                => ReadsKeptBut(h)
BY ReadStays DEF ReadsKept, ReadsKeptBut


(* While a thread fetches, no message of its host waits and no other reads it.  *)
LEMMA FetchingAlone ==
  ASSUME ReservationInv, NEW a \in AttemptIds, Fetching(a)
  PROVE  /\ thread[a].host \in Hosts
         /\ \A i \in DOMAIN inbox : inbox[i].host # thread[a].host
         /\ \A b \in AttemptIds \ {a} : Fetching(b) => thread[b].host # thread[a].host
BY DEF ReservationInv, HolderReserves, MessageReserves, OneMessageEach, AttemptFlags, Holds,
   Fetching, At

Quiet == ReadsKept /\ UNCHANGED <<slot, peer, master>>

(* A fetch is one read, unless the peer refused it and it is tried again.      *)
LEMMA FetchImplements ==
  ASSUME ReservationInv, OneOutstanding, OneOutstanding', NEW a \in AttemptIds,
         NEW all \in BOOLEAN, Fetch(a, all)
  PROVE  Slots!SlotsNext
<1>1. /\ RemoteTypeOK /\ PeersTypeOK /\ thread \in [AttemptIds -> ThreadRecords]
      /\ thread[a] \in ThreadRecords
  BY TypesOf DEF ReservationInv
<1>2. /\ thread[a].at \in {"all", "own"} /\ Fetching(a)
      /\ UNCHANGED <<breaker, handle, attempt, object, inbox, slot, peer>>
  BY DEF Fetch, At, Fetching
<1>3. PICK h \in Hosts : h = thread[a].host
  BY <1>2, FetchingAlone
<1>4. PICK o : o = Answer(h, all)
  OBVIOUS
<1>5. PICK s \in Snapshots : s = Snapshot(o, ~all)
  BY <1>1, <1>4, SnapshotOf
<1>6. /\ IF o.ended = "timeout" THEN UNCHANGED master ELSE Connected(h)
      /\ IF all /\ FallsBack(o) THEN thread' = [thread EXCEPT ![a].at = "own"]
         ELSE thread' = [thread EXCEPT ![a].at = IF Recovers(h, o) THEN "recovering" ELSE "fetched",
                                       ![a].snap = s]
  BY <1>3, <1>4, <1>5 DEF Fetch, MovesTo, HasResult
<1>7. CASE all /\ FallsBack(o)
  <2>1. o.ended = "exit" /\ ~Stuck(h)
    BY <1>1, <1>4, <1>5, <1>7, SnapshotOf
  <2>2. thread'[a].at = "own" /\ \A x \in AttemptIds \ {a} : thread'[x] = thread[x]
    BY <1>1, <1>6, <1>7 DEF ThreadRecords
  <2>3. \A g \in Hosts, r \in Snapshots : Outstanding(g, r)' <=> Outstanding(g, r)
    BY <1>1, <1>2, <2>2, NothingOutstanding
  <2> QED
    BY <1>2, <1>6, <2>1, <2>3, ReadsStay, OtherImplement
<1>8. CASE ~(all /\ FallsBack(o))
  <2>1. /\ thread'[a].at \in {"recovering", "fetched"} /\ thread'[a].snap = s
        /\ thread'[a].host = h
        /\ \A x \in AttemptIds \ {a} : thread'[x] = thread[x]
    BY <1>1, <1>3, <1>6, <1>8 DEF ThreadRecords
  <2>2. \A g \in Hosts \ {h}, r \in Snapshots : Outstanding(g, r)' <=> Outstanding(g, r)
    BY <1>1, <1>2, <1>3, <2>1, OthersOutstanding
  <2>3. \A r \in Snapshots : ~Outstanding(h, r)
    BY <1>2, <1>3, FetchingAlone DEF Outstanding, HasMessage, HoldsRead, Fetching
  <2>4. Outstanding(h, s)'
    BY <2>1 DEF Outstanding, HoldsRead
  <2>5. ReadOf(h) = NoRead /\ ReadOf(h)' = s
    BY <2>3, <2>4 DEF OneOutstanding
  <2> QED
    BY <1>2, <1>4, <1>5, <1>6, <1>8, <2>2, <2>5, ReadsStay, ReadImplements
<1> QED
  BY <1>7, <1>8

(* The recovery after a timeout comes while its read is outstanding.          *)
LEMMA RecoverImplements ==
  ASSUME ReservationInv, OneOutstanding, OneOutstanding', NEW a \in AttemptIds, Recover(a)
  PROVE  Slots!SlotsNext
<1>1. /\ RemoteTypeOK /\ RecoversTimeouts /\ thread \in [AttemptIds -> ThreadRecords]
      /\ thread[a] \in ThreadRecords
  BY TypesOf DEF ReservationInv
<1>2. /\ thread[a].at = "recovering" /\ Fetching(a) /\ AsksMasterToExit(thread[a].host)
      /\ thread' = [thread EXCEPT ![a].at = "fetched"]
      /\ UNCHANGED <<inbox, slot, peer>>
  BY DEF Recover, At, MovesTo, Fetching
<1>3. PICK h \in Hosts : h = thread[a].host
  BY <1>2, FetchingAlone
<1>4. PICK s \in Snapshots : s = thread[a].snap
  BY <1>1 DEF ThreadRecords
<1>5. /\ thread'[a].at = "fetched" /\ thread'[a].snap = s /\ thread'[a].host = h
      /\ \A x \in AttemptIds \ {a} : thread'[x] = thread[x]
  BY <1>1, <1>2, <1>3, <1>4 DEF ThreadRecords
<1>6. \A g \in Hosts, r \in Snapshots : Outstanding(g, r)' <=> Outstanding(g, r)
  BY <1>2, <1>3, <1>4, <1>5 DEF Outstanding, HasMessage, HoldsRead
<1>7. ReadOf(h) = s /\ ReadOf(h) # NoRead
  <2>1. Outstanding(h, s)
    BY <1>2, <1>3, <1>4 DEF Outstanding, HoldsRead
  <2> QED
    BY <2>1, ReadIsNotNone DEF OneOutstanding
<1>8. s.code = "timeout" /\ Shares(h)
  BY <1>1, <1>2, <1>3, <1>4 DEF RecoversTimeouts, At
<1> QED
  BY <1>2, <1>3, <1>6, <1>7, <1>8, ReadsStay, OtherImplement

(* A thread that dies loses what it read, if it had read.                     *)
LEMMA DiesImplements ==
  ASSUME ReservationInv, OneOutstanding, OneOutstanding', NEW a \in AttemptIds, Dies(a)
  PROVE  Slots!SlotsNext \/ Quiet
<1>1. /\ RemoteTypeOK /\ thread \in [AttemptIds -> ThreadRecords]
      /\ thread[a] \in ThreadRecords
  BY TypesOf DEF ReservationInv
<1>2. Fetching(a) /\ UNCHANGED <<inbox, slot, peer, master>>
  BY DEF Dies, Fetching
<1>3. PICK h \in Hosts : h = thread[a].host
  BY <1>2, FetchingAlone
<1>4. /\ thread'[a].at = "ended" /\ thread'[a].host = h
      /\ \A x \in AttemptIds \ {a} : thread'[x] = thread[x]
  <2>1. thread' = [thread EXCEPT ![a] = [host |-> h, at |-> "ended", snap |-> Blank]]
    BY <1>3, IdleAt DEF Dies
  <2> QED
    BY <1>1, <2>1
<1>5. CASE thread[a].at \notin {"recovering", "fetched"}
  BY <1>1, <1>2, <1>4, <1>5, NothingOutstanding, ReadsStay DEF Quiet
<1>6. CASE thread[a].at \in {"recovering", "fetched"}
  <2>1. PICK s \in Snapshots : s = thread[a].snap
    BY <1>1 DEF ThreadRecords
  <2>2. Outstanding(h, s)
    BY <1>3, <1>6, <2>1 DEF Outstanding, HoldsRead
  <2>3. \A r \in Snapshots : ~Outstanding(h, r)'
    BY <1>2, <1>3, <1>4, FetchingAlone DEF Outstanding, HasMessage, HoldsRead, Fetching
  <2>4. ReadOf(h) # NoRead /\ ReadOf(h)' = NoRead
    BY <2>2, <2>3, ReadIsNotNone DEF OneOutstanding
  <2>5. \A g \in Hosts \ {h}, r \in Snapshots : Outstanding(g, r)' <=> Outstanding(g, r)
    BY <1>1, <1>2, <1>3, <1>4, OthersOutstanding
  <2> QED
    BY <1>2, <2>4, <2>5, ReadsStay, ReadEnds
<1> QED
  BY <1>5, <1>6

(* Queueing a message moves what was read from the thread to the queue.        *)
LEMMA PostImplements ==
  ASSUME ReservationInv, OneOutstanding, OneOutstanding', NEW a \in AttemptIds, Post(a)
  PROVE  Quiet
<1>1. /\ RemoteTypeOK /\ thread \in [AttemptIds -> ThreadRecords]
      /\ thread[a] \in ThreadRecords /\ inbox \in Seq(Messages)
  BY TypesOf DEF ReservationInv
<1>2. /\ thread[a].at = "fetched" /\ Fetching(a) /\ thread' = [thread EXCEPT ![a].at = "posted"]
      /\ inbox' = Append(inbox, [host |-> thread[a].host, id |-> a, snap |-> thread[a].snap])
      /\ UNCHANGED <<slot, peer, master>>
  BY DEF Post, At, MovesTo, Fetching
<1>3. PICK m \in Messages : m = [host |-> thread[a].host, id |-> a, snap |-> thread[a].snap]
  BY <1>1, <1>2, FetchingAlone DEF Messages, ThreadRecords
<1>4. m.host = thread[a].host /\ m.snap = thread[a].snap
  BY <1>3
<1>5. /\ \A i \in DOMAIN inbox : i \in DOMAIN inbox' /\ inbox'[i] = inbox[i]
      /\ \A i \in DOMAIN inbox' : i \in DOMAIN inbox \/ inbox'[i] = m
      /\ \E i \in DOMAIN inbox' : inbox'[i] = m
  BY <1>1, <1>2, <1>3
<1>6. thread'[a].at = "posted" /\ \A x \in AttemptIds \ {a} : thread'[x] = thread[x]
  BY <1>1, <1>2 DEF ThreadRecords
<1>7. ASSUME NEW g \in Hosts, NEW s \in Snapshots
      PROVE  Outstanding(g, s)' <=> Outstanding(g, s)
  <2>1. HasMessage(g, s)' <=> HasMessage(g, s) \/ (g = m.host /\ s = m.snap)
    BY <1>5 DEF HasMessage
  <2>2. HoldsRead(g, s) <=> HoldsRead(g, s)' \/ (g = m.host /\ s = m.snap)
    BY <1>2, <1>4, <1>6 DEF HoldsRead
  <2> QED
    BY <2>1, <2>2 DEF Outstanding
<1> QED
  BY <1>2, <1>7, ReadsStay DEF Quiet

(* The event loop shows the outcome that is outstanding.                      *)
LEMMA LandImplements ==
  ASSUME ReservationInv, ReservationInv', OneOutstanding, OneOutstanding', Land
  PROVE  Slots!SlotsNext
<1>1. /\ RemoteTypeOK /\ MessageReserves /\ OneMessageEach /\ HolderReserves
      /\ inbox \in Seq(Messages)
  BY TypesOf DEF ReservationInv
<1>2. inbox # <<>> /\ inbox' = Tail(inbox) /\ UNCHANGED <<attempt, thread, peer, master>>
  BY DEF Land
<1>3. PICK m \in Messages : m = inbox[1] /\ m = Head(inbox) /\ 1 \in DOMAIN inbox
  BY <1>1, <1>2
<1>4. PICK h \in Hosts, s \in Snapshots : h = m.host /\ s = m.snap
  BY DEF Messages
<1>5. slot' = [slot EXCEPT ![h] = Folded(s)]
  BY <1>1, <1>3, <1>4 DEF Land, MessageReserves
<1>6. /\ \A i \in DOMAIN inbox' : /\ i + 1 \in DOMAIN inbox /\ inbox'[i] = inbox[i + 1]
                                  /\ i \in Nat /\ i + 1 # 1
      /\ \A i \in DOMAIN inbox : i # 1 => i - 1 \in DOMAIN inbox' /\ inbox'[i - 1] = inbox[i]
  BY <1>1, <1>2
<1>7. \A r \in Snapshots : ~HoldsRead(h, r)
  BY <1>1, <1>3, <1>4
     DEF HoldsRead, HolderReserves, Holds, Fetching, MessageReserves, OneMessageEach
<1>8. \A i \in DOMAIN inbox : inbox[i].host = h => i = 1
  BY <1>1, <1>3, <1>4 DEF MessageReserves, OneMessageEach
<1>9. \A r \in Snapshots : ~Outstanding(h, r)'
  BY <1>2, <1>6, <1>7, <1>8 DEF Outstanding, HasMessage, HoldsRead
<1>10. ReadOf(h) = s /\ ReadOf(h) # NoRead /\ ReadOf(h)' = NoRead
  <2>1. Outstanding(h, s)
    BY <1>3, <1>4 DEF Outstanding, HasMessage
  <2> QED
    BY <1>9, <2>1, ReadIsNotNone DEF OneOutstanding
<1>11. ASSUME NEW g \in Hosts \ {h}, NEW r \in Snapshots
       PROVE  Outstanding(g, r)' <=> Outstanding(g, r)
  <2>1. HasMessage(g, r)' => HasMessage(g, r)
    BY <1>6 DEF HasMessage
  <2>2. HasMessage(g, r) => HasMessage(g, r)'
    BY <1>3, <1>4, <1>6 DEF HasMessage
  <2> QED
    BY <1>2, <2>1, <2>2 DEF Outstanding, HoldsRead
<1> QED
  BY <1>2, <1>5, <1>10, <1>11, ReadsStay, ReadEnds


(* Admitting, taking back, cancelling, beginning and ending a fetch show       *)
(* nothing and read nothing.                                                  *)
LEMMA QuietSteps ==
  ASSUME ReservationInv, OneOutstanding, OneOutstanding',
         \/ \E h \in Hosts : Tick(h) \/ Kick(h, TRUE) \/ BackoffExpires(h) \/ Cancel(h)
         \/ \E a \in AttemptIds : Start(a) \/ Finish(a)
  PROVE  Quiet
<1>1. /\ RemoteTypeOK /\ AttemptFlags /\ thread \in [AttemptIds -> ThreadRecords]
      /\ \A a \in AttemptIds : thread[a] \in ThreadRecords
  BY TypesOf DEF ReservationInv
<1>2. UNCHANGED <<inbox, slot, peer, master>>
  BY DEF Tick, Kick, KickRefused, BackoffExpires, Cancel, Start, Finish
<1>3. ASSUME UNCHANGED thread  PROVE Quiet
  BY <1>2, <1>3, ReadsStay DEF Quiet, Outstanding, HasMessage, HoldsRead
<1>4. ASSUME NEW a \in AttemptIds, thread[a].at \notin {"recovering", "fetched"},
             \/ \E p \in {"all", "ended"} : thread' = [thread EXCEPT ![a].at = p]
             \/ \E h, p : /\ p \notin {"recovering", "fetched"}
                          /\ thread' = [thread EXCEPT ![a] = [Idle EXCEPT !.host = h, !.at = p]]
      PROVE  Quiet
  <2>1. /\ thread'[a].at \notin {"recovering", "fetched"}
        /\ \A x \in AttemptIds \ {a} : thread'[x] = thread[x]
    <3>1. CASE \E p \in {"all", "ended"} : thread' = [thread EXCEPT ![a].at = p]
      BY <1>1, <3>1 DEF ThreadRecords
    <3>2. ASSUME NEW h, NEW p, p \notin {"recovering", "fetched"},
                 thread' = [thread EXCEPT ![a] = [Idle EXCEPT !.host = h, !.at = p]]
          PROVE  /\ thread'[a].at \notin {"recovering", "fetched"}
                 /\ \A x \in AttemptIds \ {a} : thread'[x] = thread[x]
      <4>1. thread' = [thread EXCEPT ![a] = [host |-> h, at |-> p, snap |-> Blank]]
        BY <3>2, IdleAt
      <4>2. thread'[a] = [host |-> h, at |-> p, snap |-> Blank]
        BY <1>1, <4>1
      <4> QED
        BY <1>1, <3>2, <4>1, <4>2
    <3> QED
      BY <1>4, <3>1, <3>2
  <2>2. \A g \in Hosts, s \in Snapshots : Outstanding(g, s)' <=> Outstanding(g, s)
    BY <1>1, <1>2, <1>4, <2>1, NothingOutstanding
  <2> QED
    BY <1>2, <2>2, ReadsStay DEF Quiet
<1>5. ASSUME NEW h \in Hosts, NEW manual \in BOOLEAN, Kick(h, manual)
      PROVE  Quiet
  <2>1. PICK a \in AttemptIds :
          /\ thread[a].at \in {"idle", "ended"}
          /\ thread' = [thread EXCEPT ![a] = [Idle EXCEPT !.host = h, !.at = "queued"]]
    BY <1>5 DEF Kick, Unused
  <2> QED
    BY <1>4, <2>1
<1>6. ASSUME NEW h \in Hosts, KickRefused(h) \/ BackoffExpires(h) \/ Cancel(h)
      PROVE  Quiet
  <2>1. CASE UNCHANGED thread
    BY <1>3, <2>1
  <2>2. CASE ~UNCHANGED thread
    <3>1. /\ attempt[h] \in AttemptIds /\ thread[attempt[h]].at = "queued"
          /\ thread' = [thread EXCEPT ![attempt[h]].at = "ended"]
      BY <1>1, <1>6, <2>2 DEF KickRefused, BackoffExpires, Cancel, AttemptFlags
    <3>2. PICK a \in AttemptIds : a = attempt[h]
      BY <3>1
    <3> QED
      BY <1>4, <3>1, <3>2
  <2> QED
    BY <2>1, <2>2
<1>7. ASSUME NEW a \in AttemptIds, Start(a) \/ Finish(a)
      PROVE  Quiet
  <2>1. thread[a].at \notin {"recovering", "fetched"}
    BY <1>7 DEF Start, Finish, At
  <2>2. \/ \E p \in {"all", "ended"} : thread' = [thread EXCEPT ![a].at = p]
        \/ thread' = [thread EXCEPT ![a] = [Idle EXCEPT !.host = thread[a].host, !.at = "ended"]]
    BY <1>7 DEF Start, Finish, MovesTo
  <2> QED
    BY <1>4, <2>1, <2>2
<1> QED
  BY <1>5, <1>6, <1>7 DEF Tick

(* Breakers, attempts and threads implement one read at a time per host, its   *)
(* outcomes shown in order, whatever is cancelled, dies or times out.         *)
THEOREM RefreshKeepsPromise == RemoteSpec => ReadsInOrder
<1>1. RemoteInit => Slots!SlotsInit
  <2> SUFFICES ASSUME RemoteInit  PROVE Slots!SlotsInit
    OBVIOUS
  <2>1. \A h \in Hosts : Waiting(h) = {} /\ Holding(h) = {}
    BY DEF RemoteInit, Waiting, Holding, Idle
  <2>2. \A h \in Hosts : ReadOf(h) = Slots!NoRead
    BY <2>1, SamePeers DEF ReadOf
  <2>3. Slots!PeersInit
    BY DEF RemoteInit, PeersInit, Slots!PeersInit
  <2> QED
    BY <2>2, <2>3, SamePeers DEF RemoteInit, Slots!SlotsInit
<1>2. /\ ReservationInv /\ ReservationInv' /\ OneOutstanding /\ OneOutstanding'
      /\ [RemoteNext]_vars
      => [Slots!SlotsNext]_<<Slots!slotVars, Slots!peerVars>>
  <2> SUFFICES ASSUME ReservationInv, ReservationInv', OneOutstanding, OneOutstanding',
                      [RemoteNext]_vars
               PROVE  Slots!SlotsNext \/ UNCHANGED <<Slots!slotVars, Slots!peerVars>>
    OBVIOUS
  <2>1. Quiet => UNCHANGED <<Slots!slotVars, Slots!peerVars>>
    BY DEF Quiet, ReadsKept, Slots!slotVars, Slots!peerVars
  <2>2. CASE UNCHANGED vars
    <3>1. Quiet
      BY <2>2, ReadsStay DEF vars, Quiet, Outstanding, HasMessage, HoldsRead
    <3> QED
      BY <2>1, <3>1
  <2>3. ASSUME NEW h \in Hosts, PeerStep(h)  PROVE Slots!SlotsNext
    <3>1. PeersMove(h) /\ UNCHANGED <<slot, thread, inbox>>
      BY <2>3 DEF PeerStep
    <3>2. ReadsKept
      BY <3>1, ReadsStay DEF Outstanding, HasMessage, HoldsRead
    <3> QED
      BY <3>1, <3>2, PeersImplement
  <2>4. ASSUME NEW a \in AttemptIds, ThreadStep(a) \/ Dies(a)
        PROVE  Slots!SlotsNext \/ Quiet
    BY <2>4, QuietSteps, FetchImplements, RecoverImplements, DiesImplements, PostImplements
       DEF ThreadStep
  <2>5. CASE Land
    BY <2>5, LandImplements
  <2> QED
    BY <2>1, <2>2, <2>3, <2>4, <2>5, QuietSteps DEF RemoteNext
<1> QED
  BY <1>1, <1>2, ReservationInvariant, OutstandingIsRead, PTL
     DEF RemoteSpec, RemoteSafety, ReadsInOrder, Slots!SlotsSpec

=============================================================================
