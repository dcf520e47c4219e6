-------------------------- MODULE Dashboard_proofs --------------------------
(***************************************************************************)
(* The dashboard, for any hosts, sessions, debounce and latency: no request *)
(* to draw waits longer than the latency, and the USER column counts every  *)
(* user that was ever listed.                                              *)
(***************************************************************************)
EXTENDS Dashboard, FiniteSetTheorems, WellFoundedInduction, SequenceTheorems, TLAPS

-----------------------------------------------------------------------------
(* The scheduler.                                                          *)

(* Drawing part or all of a batch keeps the timers right (_fire).           *)
LEMMA ScheduleFires ==
  ASSUME ScheduleInv, NEW d \in SUBSET RenderKinds, NEW drawn, Fire(d, drawn)
  PROVE  ScheduleInv'
<1>1. /\ timer' = None /\ batchAge' = None /\ owed' = None
      /\ dirty' \in {{}, d} /\ fireAge' \in {0, fireAge}
  BY DEF Fire, LeftUndrawn
<1> QED
  BY <1>1, SchedulerAssumption DEF ScheduleInv, SchedulerTypeOK, None

(* So does a request, first of its batch or a later one (request,           *)
(* _reschedule).                                                            *)
LEMMA ScheduleRequests ==
  ASSUME ScheduleInv, NEW kind \in RenderKinds, NEW drawn, Request(kind, drawn)
  PROVE  ScheduleInv'
<1>1. CASE FiresOnRequest
  <2>1. Fire(dirty \union {kind}, drawn)
    BY <1>1 DEF Request
  <2>2. dirty \union {kind} \in SUBSET RenderKinds
    BY DEF ScheduleInv, SchedulerTypeOK
  <2> QED
    BY <2>1, <2>2, ScheduleFires
<1>2. CASE ~FiresOnRequest
  <2>1. /\ dirty' = dirty \union {kind} /\ timer' = Delay(JoinedAge) /\ batchAge' = JoinedAge
        /\ owed' = (IF owed = None THEN 0 ELSE owed) /\ fireAge' = fireAge
        /\ ~(Delay(JoinedAge) <= 0)
    BY <1>2 DEF Request, FiresOnRequest
  <2>2. JoinedAge \in 0..MaxLatency /\ (timer = None => JoinedAge = 0) /\ (timer # None => JoinedAge = batchAge)
    BY SchedulerAssumption DEF ScheduleInv, SchedulerTypeOK, JoinedAge, None
  <2>3. Delay(JoinedAge) \in 1..Debounce /\ JoinedAge + Delay(JoinedAge) <= MaxLatency
    BY <2>1, <2>2, SchedulerAssumption DEF Delay, Lesser
  <2> QED
    BY <2>1, <2>2, <2>3, SchedulerAssumption DEF ScheduleInv, SchedulerTypeOK, None
<1> QED
  BY <1>1, <1>2

(* So does time, which cannot pass a timer that is due.                     *)
LEMMA ScheduleTicks ==
  ASSUME ScheduleInv, SchedulerTick
  PROVE  ScheduleInv'
BY SchedulerAssumption DEF ScheduleInv, SchedulerTypeOK, SchedulerTick, Lesser, None

\* What a request leaves to draw.
LEMMA RequestLeaves ==
  ASSUME NEW kind, NEW drawn, Request(kind, drawn)
  PROVE  dirty' = IF FiresOnRequest /\ drawn THEN {} ELSE dirty \union {kind}
BY DEF Request, Fire, LeftUndrawn

-----------------------------------------------------------------------------
(* The dashboard's steps as the scheduler's.                               *)

(* What a fetch asks to be drawn is something that is drawn.                *)
LEMMA RemoteKinds == \A s : RemoteKind(s) \in RenderKinds
BY DEF RemoteKind, RenderKinds

(* Every step of the dashboard is the scheduler's or leaves the scheduler   *)
(* alone.                                                                   *)
LEMMA ScheduleStep ==
  ASSUME ScheduleInv, [Next]_vars
  PROVE  ScheduleInv'
<1>1. ASSUME NEW kind \in RenderKinds, NEW seen, RequestRender(kind, seen)  PROVE ScheduleInv'
  <2>1. Request(kind, Drawn(dirty \union {kind}))
    BY <1>1, Zenon DEF RequestRender
  <2> QED
    BY <2>1, ScheduleRequests, Zenon
<1>2. CASE LocalLands
  BY <1>1, <1>2 DEF LocalLands, RenderKinds
<1>3. CASE RemoteLands
  BY <1>1, <1>3, RemoteKinds DEF RemoteLands
<1>4. CASE TimerExpires
  <2>1. Fire(dirty, Drawn(dirty))
    BY <1>4, Zenon DEF TimerExpires, TimerFires
  <2>2. dirty \in SUBSET RenderKinds
    BY DEF ScheduleInv, SchedulerTypeOK
  <2> QED
    BY <2>1, <2>2, ScheduleFires, Zenon
<1>5. CASE Tick
  BY <1>5, ScheduleTicks DEF Tick
<1>6. CASE UNCHANGED schedVars
  BY <1>6 DEF schedVars, ScheduleInv, SchedulerTypeOK
<1>7. ToggleView \/ FilterChanged \/ ChangeTab \/ TabActivated \/ CursorDown \/ CursorUp \/ CursorJumps
        \/ HostNavigate \/ ModalSwitches \/ UNCHANGED vars => UNCHANGED schedVars
  BY DEF ToggleView, FilterChanged, ChangeTab, TabActivated, CursorDown, CursorUp, CursorJumps,
         HostNavigate, MovesCursor, ModalSwitches, OnMain, Untouched, vars
<1> QED
  BY <1>2, <1>3, <1>4, <1>5, <1>6, <1>7 DEF Next

(* request, _reschedule: whatever is asked and refused in between, a request *)
(* is tried within MaxLatency, and the scheduler's ages stay in their range. *)
THEOREM ScheduleInvariant == Spec => []ScheduleInv
<1>1. Init => ScheduleInv
  BY SchedulerAssumption DEF Init, SchedulerInit, ScheduleInv, SchedulerTypeOK, None
<1>2. ScheduleInv /\ [Next]_vars => ScheduleInv'
  BY ScheduleStep
<1> QED
  BY <1>1, <1>2, PTL DEF Spec

(* A request that waits has a timer that fires in time.                     *)
THEOREM DrawnInTime == Spec => []RenderedInTime
<1>1. ScheduleInv => RenderedInTime
  BY SchedulerAssumption DEF ScheduleInv, SchedulerTypeOK, RenderedInTime, None
<1> QED
  BY <1>1, ScheduleInvariant, PTL

-----------------------------------------------------------------------------
(* The USER column.                                                        *)

(* collect_user_set: a user is listed if it owns a listed session.          *)
LEMMA UsersAre ==
  ASSUME NEW lists
  PROVE  \A u : u \in UsersOf(lists) <=> \E h \in HostSet : \E k \in Range(lists[h]) : u = OwnerOf[k]
BY DEF UsersOf

\* A step that asks for a render, or whose timer fires, once it has landed.
Landed(seen) ==
  /\ DOMAIN listed' = HostSet
  /\ \A h \in HostSet \ {Local} : \A k \in Range(listed'[h]) : OwnerOf[k] \in seen
  /\ ~hasCtx' => Range(listed'[Local]) = {}

(* After a render that was due, refused or not yet due.                     *)
LEMMA RenderKeepsColumn ==
  ASSUME ColumnInv, NEW kinds, NEW seen, NEW due, RenderIf(due, kinds, seen), Landed(seen),
         dirty' = (IF due /\ Drawn(kinds) THEN {} ELSE kinds),
         kinds = {} => seen = seenUsers /\ dirty = {},
         "main_ctx" \notin kinds => UsersOf(listed') \subseteq seen
  PROVE  ColumnInv'
<1>1. CASE due /\ AppliesCtx(kinds) /\ ~modalUp
  <2>1. Drawn(kinds) /\ Render(kinds, seen) /\ dirty' = {}
    BY <1>1 DEF Drawn, RenderIf
  <2>2. ApplyLoadedCtx(seen)
    BY <1>1, <2>1 DEF Render
  <2>3. seenUsers' = seen \union UsersOf(listed') /\ userColumn' = Latched(seenUsers')
    BY <2>2, Zenon DEF ApplyLoadedCtx, Counted, Refresh
  <2>4. UsersOf(listed)' = UsersOf(listed')
    BY DEF UsersOf
  <2> QED
    BY <2>1, <2>3, <2>4 DEF ColumnInv, Landed, Latched
<1>2. CASE due /\ Drawn(kinds) /\ ~AppliesCtx(kinds)
  <2>1. Render(kinds, seen) /\ dirty' = {}
    BY <1>2 DEF RenderIf
  <2>2. seenUsers' = seen /\ Refresh(tabMsgs)
    BY <1>2, <2>1 DEF Render
  <2>3. userColumn' = Latched(seenUsers')
    BY <2>2, Zenon DEF Refresh
  <2>4. UsersOf(listed') \subseteq seen
    <3>1. CASE "main_ctx" \in kinds
      <4>1. \A h \in HostSet : \A k \in Range(listed'[h]) : OwnerOf[k] \in seen
        BY <1>2, <3>1 DEF AppliesCtx, Landed
      <4> QED
        BY <4>1, UsersAre
    <3> QED
      BY <3>1
  <2>5. UsersOf(listed)' = UsersOf(listed')
    BY DEF UsersOf
  <2> QED
    BY <2>1, <2>2, <2>3, <2>4, <2>5 DEF ColumnInv, Landed, Latched
<1>3. CASE ~(due /\ Drawn(kinds))
  <2>1. seenUsers' = seen /\ userColumn' = userColumn /\ dirty' = kinds
    BY <1>3 DEF RenderIf
  <2>2. UsersOf(listed)' = UsersOf(listed')
    BY DEF UsersOf
  <2> QED
    BY <2>1, <2>2 DEF ColumnInv, Landed, Latched
<1>4. due /\ Drawn(kinds) /\ AppliesCtx(kinds) => ~modalUp
  BY DEF Drawn
<1> QED
  BY <1>1, <1>2, <1>3, <1>4

(* A request leaves its landing to be drawn, or draws it (request_render).  *)
LEMMA RequestKeepsColumn ==
  ASSUME ColumnInv, NEW kind, NEW seen, RequestRender(kind, seen), Landed(seen),
         kind = "main_ctx" \/ ("main_ctx" \notin dirty => UsersOf(listed') \subseteq seen)
  PROVE  ColumnInv'
<1> DEFINE kinds == dirty \union {kind}
<1>1. Request(kind, Drawn(kinds)) /\ RenderIf(FiresOnRequest, kinds, seen)
  BY Zenon DEF RequestRender
<1>2. dirty' = IF FiresOnRequest /\ Drawn(kinds) THEN {} ELSE kinds
  BY <1>1, RequestLeaves, Zenon
<1>3. kinds # {} /\ ("main_ctx" \notin kinds => UsersOf(listed') \subseteq seen)
  OBVIOUS
<1> HIDE DEF kinds
<1> QED
  BY <1>1, <1>2, <1>3, RenderKeepsColumn, Zenon

(* No step draws the USER column for fewer users than were seen.            *)
LEMMA ColumnStep ==
  ASSUME ColumnInv, [Next]_vars
  PROVE  ColumnInv'
<1>1. CASE LocalLands
  <2>1. PICK s \in Listings[Local] :
          hasCtx' = TRUE /\ listed' = [listed EXCEPT ![Local] = s] /\ RequestRender("main_ctx", seenUsers)
    BY <1>1, Zenon DEF LocalLands
  <2>2. Landed(seenUsers)
    BY <2>1 DEF ColumnInv, Landed
  <2> QED
    BY <2>1, <2>2, RequestKeepsColumn
<1>2. CASE RemoteLands
  <2>1. PICK h \in HostSet \ {Local}, s \in UNION {Listings[g] : g \in HostSet} :
          /\ hasCtx' = hasCtx /\ listed' = [listed EXCEPT ![h] = s]
          /\ RequestRender(RemoteKind(s), WithUsers(s))
    BY <1>2 DEF RemoteLands
  <2> DEFINE seen == WithUsers(s)
  <2>2. seenUsers \subseteq seen /\ \A k \in Range(s) : OwnerOf[k] \in seen
    BY DEF WithUsers
  <2>3. /\ DOMAIN listed' = HostSet /\ listed'[h] = s
        /\ \A g \in HostSet \ {h} : listed'[g] = listed[g] /\ listed'[Local] = listed[Local]
    BY <2>1 DEF ColumnInv
  <2> HIDE DEF seen
  <2>4. Landed(seen)
    <3>1. listed'[Local] = listed[Local]
      BY <2>1
    <3> QED
      BY <2>1, <2>2, <2>3, <3>1 DEF ColumnInv, Landed
  <2>5. ASSUME "main_ctx" \notin dirty  PROVE UsersOf(listed') \subseteq seen
    <3>1. \A g \in HostSet : \A k \in Range(listed[g]) : OwnerOf[k] \in seenUsers
      BY <2>5, UsersAre DEF ColumnInv
    <3>2. \A g \in HostSet : \A k \in Range(listed'[g]) : OwnerOf[k] \in seen
      BY <2>2, <2>3, <3>1
    <3> QED
      BY <3>2, UsersAre
  <2> QED
    BY <2>1, <2>4, <2>5, RequestKeepsColumn DEF seen
<1>3. CASE TimerExpires
  <2>1. hasCtx' = hasCtx /\ listed' = listed /\ Fire(dirty, Drawn(dirty)) /\ RenderIf(TRUE, dirty, seenUsers)
    BY <1>3, Zenon DEF TimerExpires, TimerFires
  <2>2. dirty' = LeftUndrawn(dirty, Drawn(dirty))
    BY <2>1, Zenon DEF Fire
  <2>3. dirty' = IF TRUE /\ Drawn(dirty) THEN {} ELSE dirty
    BY <2>2 DEF LeftUndrawn
  <2>4. Landed(seenUsers)
    BY <2>1 DEF ColumnInv, Landed
  <2>5. "main_ctx" \notin dirty => UsersOf(listed') \subseteq seenUsers
    BY <2>1 DEF ColumnInv
  <2> QED
    BY <2>1, <2>3, <2>4, <2>5, RenderKeepsColumn
<1>4. CASE UNCHANGED <<hasCtx, listed, seenUsers, dirty>> /\ userColumn' \in {userColumn, Latched(seenUsers')}
  <2>1. UsersOf(listed)' = UsersOf(listed)
    BY <1>4 DEF UsersOf
  <2> QED
    BY <1>4, <2>1 DEF ColumnInv, Latched
<1>5. Tick => UNCHANGED <<hasCtx, listed, seenUsers, dirty>> /\ userColumn' = userColumn
  BY DEF Tick, SchedulerTick, uiVars
<1>6. ToggleView \/ FilterChanged \/ TabActivated =>
        UNCHANGED <<hasCtx, listed, seenUsers, dirty>> /\ userColumn' \in {userColumn, Latched(seenUsers')}
  BY DEF ToggleView, FilterChanged, TabActivated, OnMain, Untouched, schedVars, Refresh
<1>7. ChangeTab \/ CursorDown \/ CursorUp \/ CursorJumps \/ HostNavigate \/ ModalSwitches \/ UNCHANGED vars =>
        UNCHANGED <<hasCtx, listed, seenUsers, dirty>> /\ userColumn' = userColumn
  BY DEF ChangeTab, CursorDown, CursorUp, CursorJumps, HostNavigate, MovesCursor, ModalSwitches,
         OnMain, Untouched, schedVars, uiVars, vars
<1> QED
  BY <1>1, <1>2, <1>3, <1>4, <1>5, <1>6, <1>7 DEF Next

(* seen_users: with nothing left to draw, the column is there if two users   *)
(* were ever listed, on whatever host, filtered out or gone since.           *)
THEOREM ColumnIsRight == Spec => []UserColumnShown
<1>1. Init => ColumnInv
  <2>1. Init => \A h \in HostSet : Range(listed[h]) = {}
    BY DEF Init, Range
  <2>2. Local \in HostSet
    <3>1. 1 \in DOMAIN Places /\ Places[1] = Local
      BY DashboardAssumption DEF Places
    <3> QED
      BY <3>1 DEF HostSet, Range
  <2>3. Init => UsersOf(listed) = {}
    BY <2>1, UsersAre
  <2>4. Init => DOMAIN listed = HostSet /\ dirty = {} /\ seenUsers = {} /\ ~userColumn
    BY DEF Init, SchedulerInit
  <2>5. Latched({}) = FALSE
    <3>1. Cardinality({}) = 0
      BY FS_EmptySet
    <3> QED
      BY <3>1 DEF Latched
  <2>6. Init => userColumn = Latched(seenUsers)
    <3>1. Init => userColumn = FALSE /\ seenUsers = {}
      BY DEF Init
    <3> QED
      BY <2>5, <3>1
  <2> QED
    BY <2>1, <2>2, <2>3, <2>4, <2>6 DEF ColumnInv
<1>2. ColumnInv /\ [Next]_vars => ColumnInv'
  BY ColumnStep
<1>3. ColumnInv => UserColumnShown
  <2>1. UsersOf(listed) \subseteq seenUsers => seenUsers \union UsersOf(listed) = seenUsers
    OBVIOUS
  <2> QED
    BY <2>1 DEF ColumnInv, UserColumnShown
<1> QED
  BY <1>1, <1>2, <1>3, PTL DEF Spec

-----------------------------------------------------------------------------
(* Numbers, and folds over sequences.                                       *)

(* A set of numbers has a least, and holds all up to N if it holds 0 and the   *)
(* successors of its members.                                               *)
LEMMA LeastOf ==
  ASSUME NEW S \in SUBSET Nat, S # {}
  PROVE  Min(S) \in S /\ \A y \in S : Min(S) =< y
<1>1. PICK n \in S : \A y \in S : ~(<<y, n>> \in OpToRel(<, Nat))
  BY WFMin, NatLessThanWellFounded
<1>2. ASSUME NEW y \in S  PROVE n =< y
  <2>1. ~(y < n)
    <3>1. <<y, n>> \in Nat \X Nat
      OBVIOUS
    <3> QED
      BY <1>1, <3>1 DEF OpToRel
  <2>2. y \in Nat /\ n \in Nat
    OBVIOUS
  <2> QED
    BY <2>1, <2>2
<1> QED
  BY <1>2 DEF Min

(* A set that has 0 and the successor of each of its numbers below N has    *)
(* all up to N.                                                             *)
LEMMA Climb ==
  ASSUME NEW N \in Nat, NEW S, 0 \in S, \A n \in 0..N : n \in S /\ n < N => n + 1 \in S
  PROVE  0..N \subseteq S
<1> DEFINE T == (0..N) \ S
<1>1. CASE T # {}
  <2>1. T \in SUBSET Nat
    OBVIOUS
  <2>2. PICK m \in T : \A y \in T : m =< y
    BY <1>1, <2>1, LeastOf
  <2>3. m \in 1..N
    OBVIOUS
  <2>4. m - 1 \in 0..N /\ m - 1 \notin T
    BY <2>2, <2>3
  <2>5. m - 1 \in S /\ m - 1 < N /\ (m - 1) + 1 = m
    BY <2>3, <2>4
  <2> QED
    BY <2>4, <2>5
<1> QED
  BY <1>1

(* So a set of numbers up to N has a largest.                                *)
LEMMA LargestOf ==
  ASSUME NEW N \in Nat, NEW S \in SUBSET (1..N), S # {}
  PROVE  Max(S) \in S /\ \A y \in S : y =< Max(S)
<1>1. PICK D : D = {n \in Nat : N - n \in S}
  OBVIOUS
<1>2. PICK x \in S : TRUE
  OBVIOUS
<1>3. N - x \in D
  BY <1>1
<1>4. PICK d \in D : \A e \in D : d =< e
  BY <1>1, <1>3, LeastOf
<1>5. N - d \in S
  BY <1>1
<1>6. ASSUME NEW y \in S  PROVE y =< N - d
  <2>1. N - y \in D
    BY <1>1
  <2> QED
    BY <1>1, <1>4, <2>1
<1> QED
  BY <1>5, <1>6 DEF Max

(* The values of FoldLeft over a sequence exist, and follow from one another. *)
Folds_(f, X, base, G, seq) ==
  /\ f \in [SUBSET (DOMAIN seq) -> X]
  /\ \A s \in SUBSET (DOMAIN seq) :
       f[s] = IF s = {} THEN base ELSE G[<<f[s \ {Max(s)}], seq[Max(s)]>>]

(* A step that stays in X has the recursive function a fold over a sequence *)
(* is defined by.                                                           *)
LEMMA FoldExists ==
  ASSUME NEW X, NEW K, NEW base \in X, NEW seq \in Seq(K), NEW G \in [X \X K -> X]
  PROVE  \E f : Folds_(f, X, base, G, seq)
<1>0. PICK N : N = Len(seq)
  OBVIOUS
<1> DEFINE Val(f, s) == IF s = {} THEN base ELSE G[<<f[s \ {Max(s)}], seq[Max(s)]>>]
           Good(f, n) == f \in [SUBSET (1..n) -> X] /\ \A s \in SUBSET (1..n) : f[s] = Val(f, s)
           S == {n \in 0..N : \E f : Good(f, n)}
<1>1. N \in Nat /\ DOMAIN seq = 1..N /\ \A i \in 1..N : seq[i] \in K
  BY <1>0
<1>2. 0 \in S
  <2>1. PICK f : f = [s \in SUBSET (1..0) |-> base]
    OBVIOUS
  <2>2. \A s \in SUBSET (1..0) : s = {}
    OBVIOUS
  <2>3. Good(f, 0)
    BY <2>1, <2>2
  <2> HIDE DEF Good
  <2> QED
    BY <1>1, <2>3
<1>3. ASSUME NEW n \in 0..N, n \in S, n < N  PROVE n + 1 \in S
  <2>1. PICK f : Good(f, n)
    BY <1>3
  <2>2. PICK m : m = n + 1
    OBVIOUS
  <2>3. m \in 1..N /\ n \in Nat /\ m \in Nat
    BY <1>1, <1>3, <2>2
  <2>4. PICK g : g = [s \in SUBSET (1..m) |-> IF m \in s THEN G[<<f[s \ {m}], seq[m]>>] ELSE f[s]]
    OBVIOUS
  <2>5. ASSUME NEW s \in SUBSET (1..m), m \in s
        PROVE  g[s] \in X /\ g[s] = Val(g, s)
    <3>1. s \ {m} \in SUBSET (1..n)
      BY <2>2, <2>3
    <3>2. Max(s) = m
      <4>1. m \in s /\ \A y \in s : m >= y
        BY <2>3, <2>5
      <4>2. \A x \in s : (\A y \in s : x >= y) => x = m
        BY <2>3, <4>1
      <4> QED
        BY <4>1, <4>2 DEF Max
    <3>3. s \ {m} \in SUBSET (1..m) /\ g[s \ {m}] = f[s \ {m}] /\ f[s \ {m}] \in X
      BY <2>1, <2>2, <2>3, <2>4, <3>1
    <3>4. g[s] = G[<<f[s \ {m}], seq[m]>>] /\ seq[m] \in K
      BY <1>1, <2>3, <2>4, <2>5
    <3>5. G[<<f[s \ {m}], seq[m]>>] \in X
      BY <3>3, <3>4
    <3> QED
      BY <2>5, <3>2, <3>3, <3>4, <3>5
  <2>6. ASSUME NEW s \in SUBSET (1..m), m \notin s
        PROVE  g[s] \in X /\ g[s] = Val(g, s)
    <3>1. s \in SUBSET (1..n) /\ g[s] = f[s]
      BY <2>2, <2>3, <2>4, <2>6
    <3>2. f[s] = Val(f, s) /\ f[s] \in X
      BY <2>1, <3>1
    <3>3. s \ {Max(s)} \in SUBSET (1..m) /\ m \notin s \ {Max(s)}
      BY <2>6
    <3>4. g[s \ {Max(s)}] = f[s \ {Max(s)}]
      BY <2>4, <3>3
    <3> QED
      BY <3>1, <3>2, <3>4
  <2>7. Good(g, m)
    BY <2>4, <2>5, <2>6
  <2> HIDE DEF Good
  <2> QED
    BY <2>2, <2>3, <2>7
<1> HIDE DEF S
<1>4. 0..N \subseteq S
  BY <1>1, <1>2, <1>3, Climb
<1>5. N \in S
  BY <1>1, <1>4
<1>6. PICK f : Good(f, N)
  BY <1>5 DEF S
<1> QED
  BY <1>1, <1>6 DEF Folds_

(* The sets 1..i, which a fold over a sequence goes through.                  *)
LEMMA FoldedSets ==
  ASSUME NEW N \in Nat
  PROVE  /\ 1..0 = {}
         /\ \A i \in 1..N : /\ 1..i \in SUBSET (1..N) /\ 1..i # {}
                             /\ Max(1..i) = i /\ (1..i) \ {i} = 1..(i - 1)
                             /\ i - 1 \in 0..N
<1>1. ASSUME NEW i \in 1..N  PROVE Max(1..i) = i
  <2>1. i \in 1..i /\ \A y \in 1..i : i >= y
    OBVIOUS
  <2>2. \A x \in 1..i : (\A y \in 1..i : x >= y) => x = i
    BY <2>1
  <2> QED
    BY <2>1, <2>2 DEF Max
<1>2. ASSUME NEW i \in 1..N
      PROVE  /\ 1..i \in SUBSET (1..N) /\ 1..i # {}
             /\ (1..i) \ {i} = 1..(i - 1) /\ i - 1 \in 0..N
  OBVIOUS
<1> QED
  BY <1>1, <1>2

(* Only, step by step.                                                       *)
OnlyBy(f, K, given, keep) ==
  /\ f \in [0..Len(given) -> Seq(K)]
  /\ f[0] = <<>> /\ Only(given, keep) = f[Len(given)]
  /\ \A i \in 1..Len(given) : f[i] = Keep(f[i - 1], keep, given[i])

(* Only can be followed from prefix to prefix.                              *)
LEMMA OnlyRuns ==
  ASSUME NEW K, NEW given \in Seq(K), NEW keep
  PROVE  \E f : OnlyBy(f, K, given, keep)
<1>0. PICK N, X, base : N = Len(given) /\ X = Seq(K) /\ base = <<>>
  OBVIOUS
<1>1. N \in Nat /\ DOMAIN given = 1..N /\ (\A i \in 1..N : given[i] \in K) /\ base \in X
  BY <1>0
<1>2. \A acc \in X, k \in K : Keep(acc, keep, k) \in X
  BY <1>0 DEF Keep
<1>3. PICK G : G = [p \in X \X K |-> Keep(p[1], keep, p[2])]
  OBVIOUS
<1>4. G \in [X \X K -> X] /\ \A acc \in X, k \in K : G[<<acc, k>>] = Keep(acc, keep, k)
  BY <1>2, <1>3
<1> DEFINE Runs(f) == f = [s \in SUBSET (DOMAIN given) |->
                            IF s = {} THEN <<>> ELSE Keep(f[s \ {Max(s)}], keep, given[Max(s)])]
<1>5. \E f : Runs(f)
  <2>2. PICK f : Folds_(f, X, base, G, given)
    <3>1. base \in X /\ G \in [X \X K -> X]
      BY <1>1, <1>4
    <3> QED
      BY <3>1, FoldExists
  <2>3. ASSUME NEW s \in SUBSET (DOMAIN given), s # {}
        PROVE  G[<<f[s \ {Max(s)}], given[Max(s)]>>] = Keep(f[s \ {Max(s)}], keep, given[Max(s)])
    <3>1. Max(s) \in s
      BY <1>1, <2>3, LargestOf
    <3> QED
      <4>1. s \ {Max(s)} \in SUBSET (DOMAIN given) /\ given[Max(s)] \in K
        BY <1>1, <3>1
      <4>2. f[s \ {Max(s)}] \in X
        BY <2>2, <4>1 DEF Folds_
      <4> QED
        BY <1>4, <4>1, <4>2
  <2>4. f = [s \in SUBSET (DOMAIN given) |->
               IF s = {} THEN <<>> ELSE Keep(f[s \ {Max(s)}], keep, given[Max(s)])]
    <3>1. ASSUME NEW s \in SUBSET (DOMAIN given)
          PROVE  f[s] = IF s = {} THEN <<>> ELSE Keep(f[s \ {Max(s)}], keep, given[Max(s)])
      BY <1>0, <2>2, <2>3 DEF Folds_
    <3>2. f = [s \in SUBSET (DOMAIN given) |-> f[s]]
      BY <2>2 DEF Folds_
    <3> QED
      BY <3>1, <3>2
  <2> QED
    BY <2>4
<1>6. PICK f : Runs(f) /\ Only(given, keep) = f[DOMAIN given]
  BY <1>5 DEF Only, FoldLeft, MapThenFoldSet
<1>7. f[1..0] = <<>> /\ \A i \in 1..N : f[1..i] = Keep(f[1..(i - 1)], keep, given[i])
  <2>1. 1..0 \in SUBSET (DOMAIN given)
    OBVIOUS
  <2>2. f[1..0] = <<>>
    BY <1>6, <2>1
  <2>3. ASSUME NEW i \in 1..N  PROVE f[1..i] = Keep(f[1..(i - 1)], keep, given[i])
    <3>1. /\ 1..i \in SUBSET (DOMAIN given) /\ 1..i # {}
          /\ Max(1..i) = i /\ (1..i) \ {i} = 1..(i - 1)
      BY <1>1, FoldedSets
    <3>2. f[1..i] = Keep(f[(1..i) \ {Max(1..i)}], keep, given[Max(1..i)])
      BY <1>6, <3>1
    <3> QED
      BY <3>1, <3>2
  <2> QED
    BY <2>2, <2>3
<1> HIDE DEF Runs
<1>8. PICK g : g = [i \in 0..N |-> f[1..i]]
  OBVIOUS
<1>9. g[0] = <<>> /\ g[N] = Only(given, keep) /\ \A i \in 1..N : g[i] = Keep(g[i - 1], keep, given[i])
  BY <1>1, <1>6, <1>7, <1>8, FoldedSets
<1>10. 0..N \subseteq {i \in 0..N : g[i] \in X}
  <2>1. 0 \in {i \in 0..N : g[i] \in X}
    BY <1>0, <1>1, <1>9, 0 \in 0..N
  <2>2. ASSUME NEW i \in 0..N, g[i] \in X, i < N  PROVE g[i + 1] \in X /\ i + 1 \in 0..N
    <3>1. i + 1 \in 1..N /\ (i + 1) - 1 = i
      BY <1>1, <2>2
    <3>2. g[i + 1] = Keep(g[i], keep, given[i + 1])
      BY <1>9, <3>1
    <3> QED
      BY <1>1, <1>2, <2>2, <3>1, <3>2
  <2> QED
    BY <1>1, <2>1, <2>2, Climb
<1>11. g \in [0..N -> Seq(K)]
  BY <1>0, <1>8, <1>10
<1> QED
  BY <1>0, <1>9, <1>11 DEF OnlyBy
-----------------------------------------------------------------------------
(* k is in the sequence, and before any l.                                  *)
Ahead(s, k, l) == \E i \in 1..Len(s) : s[i] = k /\ \A j \in 1..i : s[j] # l

(* The members of a sequence, in three ways.                                *)
LEMMA Members ==
  ASSUME NEW K, NEW s \in Seq(K), NEW x
  PROVE  /\ Contains(s, x) <=> x \in Range(s)
         /\ x \in Range(s) <=> \E i \in 1..Len(s) : s[i] = x
BY DEF Contains, Range

(* IndexOf finds the first place a member is at.                            *)
LEMMA IndexIs ==
  ASSUME NEW K, NEW s \in Seq(K), NEW k \in Range(s)
  PROVE  /\ IndexOf(s, k) \in 0..(Len(s) - 1) /\ s[IndexOf(s, k) + 1] = k
         /\ \A j \in 1..IndexOf(s, k) : s[j] # k
<1>1. PICK I : I = {i \in 1..Len(s) : s[i] = k}
  OBVIOUS
<1>2. I # {} /\ I \in SUBSET Nat
  BY <1>1, Members
<1>3. IndexOf(s, k) = Min(I) - 1
  BY <1>1, <1>2 DEF IndexOf, SelectInSeq
<1>4. Min(I) \in I /\ \A y \in I : Min(I) =< y
  BY <1>2, LeastOf
<1>5. PICK m : m = Min(I)
  OBVIOUS
<1>6. m \in 1..Len(s) /\ s[m] = k /\ \A j \in 1..Len(s) : s[j] = k => m =< j
  BY <1>1, <1>4, <1>5
<1>7. IndexOf(s, k) = m - 1
  BY <1>3, <1>5
<1> QED
  BY <1>6, <1>7

(* The order of indices is the order of first places.                       *)
LEMMA IndexOrder ==
  ASSUME NEW K, NEW s \in Seq(K), NEW k \in Range(s), NEW l \in Range(s)
  PROVE  IndexOf(s, k) < IndexOf(s, l) <=> Ahead(s, k, l)
<1>1. PICK i, j : i = IndexOf(s, k) + 1 /\ j = IndexOf(s, l) + 1
  OBVIOUS
<1>2. /\ i \in 1..Len(s) /\ s[i] = k /\ \A m \in 1..(i - 1) : s[m] # k
      /\ j \in 1..Len(s) /\ s[j] = l /\ \A m \in 1..(j - 1) : s[m] # l
      /\ IndexOf(s, k) < IndexOf(s, l) <=> i < j
  BY <1>1, IndexIs
<1>3. i < j => Ahead(s, k, l)
  BY <1>2 DEF Ahead
<1>4. ASSUME Ahead(s, k, l)  PROVE i < j
  <2>1. PICK m \in 1..Len(s) : s[m] = k /\ \A n \in 1..m : s[n] # l
    BY <1>4 DEF Ahead
  <2>2. i <= m /\ ~(j <= m)
    BY <1>2, <2>1
  <2> QED
    BY <1>2, <2>1, <2>2
<1> QED
  BY <1>2, <1>3, <1>4

(* A row that is appended comes after all others and changes no order.      *)
LEMMA AppendIs ==
  ASSUME NEW K, NEW s \in Seq(K), NEW x \in K
  PROVE  /\ Append(s, x) \in Seq(K) /\ Range(Append(s, x)) = Range(s) \union {x}
         /\ \A k, l : Ahead(s, k, l) => Ahead(Append(s, x), k, l)
         /\ \A l : l \notin Range(s) /\ l # x => Ahead(Append(s, x), x, l)
<1>1. PICK t, n : t = Append(s, x) /\ n = Len(s)
  OBVIOUS
<1>2. /\ t \in Seq(K) /\ n \in Nat /\ Len(t) = n + 1 /\ Len(s) = n
      /\ DOMAIN t = 1..(n + 1) /\ DOMAIN s = 1..n
      /\ t[n + 1] = x /\ \A i \in 1..n : t[i] = s[i]
  BY <1>1
<1>3. Range(t) = Range(s) \union {x}
  <2>1. \A y \in Range(t) : y \in Range(s) \union {x}
    BY <1>2 DEF Range
  <2>2. \A y \in Range(s) : y \in Range(t)
    BY <1>2 DEF Range
  <2>3. x \in Range(t)
    BY <1>2 DEF Range
  <2> QED
    BY <2>1, <2>2, <2>3
<1>4. ASSUME NEW k, NEW l, Ahead(s, k, l)  PROVE Ahead(t, k, l)
  BY <1>2, <1>4 DEF Ahead
<1>5. ASSUME NEW l, l \notin Range(s), l # x  PROVE Ahead(t, x, l)
  <2>1. \A j \in 1..(n + 1) : t[j] # l
    BY <1>2, <1>5 DEF Range
  <2> QED
    BY <1>2, <2>1 DEF Ahead
<1> QED
  BY <1>1, <1>2, <1>3, <1>4, <1>5

(* What Only leaves, and that it leaves it in order.                         *)
LEMMA OnlyKeeps ==
  ASSUME NEW K, NEW given \in Seq(K), NEW keep
  PROVE  /\ Only(given, keep) \in Seq(K) /\ Range(Only(given, keep)) = Range(given) \intersect keep
         /\ \A k, l \in keep : Ahead(given, k, l) => Ahead(Only(given, keep), k, l)
<1>0. PICK N : N = Len(given)
  OBVIOUS
<1>1. N \in Nat /\ DOMAIN given = 1..N /\ \A i \in 1..N : given[i] \in K
  BY <1>0
<1>f. PICK f : OnlyBy(f, K, given, keep)
  BY OnlyRuns
<1>2. /\ f \in [0..N -> Seq(K)] /\ f[0] = <<>> /\ Only(given, keep) = f[N]
      /\ \A i \in 1..N : f[i] = Keep(f[i - 1], keep, given[i])
  BY <1>0, <1>f DEF OnlyBy
<1> DEFINE Seen(n) == {given[i] : i \in 1..n}
           Early(n, k, l) == \E i \in 1..n : given[i] = k /\ \A j \in 1..i : given[j] # l
           Good(n) == /\ Range(f[n]) = Seen(n) \intersect keep
                      /\ \A k, l \in keep : Early(n, k, l) => Ahead(f[n], k, l)
<1>3. Good(0)
  BY <1>2 DEF Range
<1>4. ASSUME NEW n \in 0..N, Good(n), n < N  PROVE Good(n + 1)
  <2>1. PICK m, x, t : m = n + 1 /\ x = given[m] /\ t = f[n]
    OBVIOUS
  <2>2. m \in 1..N /\ m - 1 = n /\ x \in K /\ t \in Seq(K) /\ n \in Nat
    BY <1>1, <1>2, <1>4, <2>1
  <2>3. f[m] = Keep(t, keep, x)
    BY <1>2, <2>1, <2>2
  <2>4. Seen(m) = Seen(n) \union {x}
    BY <2>1, <2>2
  <2>5. \A k, l : Early(m, k, l) => Early(n, k, l) \/ (k = x /\ l # x /\ l \notin Seen(n))
    BY <2>1, <2>2
  <2>6. Range(t) = Seen(n) \intersect keep /\ \A k, l \in keep : Early(n, k, l) => Ahead(t, k, l)
    BY <1>4, <2>1
  <2> HIDE DEF Seen, Early
  <2>7. CASE x \in keep
    <3>1. f[m] = Append(t, x)
      BY <2>3, <2>7 DEF Keep
    <3>2. Range(f[m]) = Seen(m) \intersect keep
      BY <2>2, <2>4, <2>6, <2>7, <3>1, AppendIs
    <3>3. ASSUME NEW k \in keep, NEW l \in keep, Early(m, k, l)  PROVE Ahead(f[m], k, l)
      <4>1. CASE Early(n, k, l)
        BY <2>2, <2>6, <3>1, <4>1, AppendIs
      <4>2. CASE k = x /\ l # x /\ l \notin Seen(n)
        <5>1. l \notin Range(t)
          BY <2>6, <4>2
        <5> QED
          BY <2>2, <3>1, <4>2, <5>1, AppendIs
      <4> QED
        BY <2>5, <3>3, <4>1, <4>2
    <3> QED
      BY <2>1, <3>2, <3>3
  <2>8. CASE x \notin keep
    <3>1. f[m] = t
      BY <2>3, <2>8 DEF Keep
    <3>2. Range(f[m]) = Seen(m) \intersect keep
      BY <2>4, <2>6, <2>8, <3>1
    <3>3. ASSUME NEW k \in keep, NEW l \in keep, Early(m, k, l)  PROVE Ahead(f[m], k, l)
      BY <2>5, <2>6, <2>8, <3>1, <3>3
    <3> QED
      BY <2>1, <3>2, <3>3
  <2> QED
    BY <2>7, <2>8
<1> HIDE DEF Good
<1>5. 0..N \subseteq {n \in 0..N : Good(n)}
  <2>1. 0 \in {n \in 0..N : Good(n)}
    BY <1>1, <1>3
  <2>2. \A n \in 0..N : n \in {i \in 0..N : Good(i)} /\ n < N => n + 1 \in {i \in 0..N : Good(i)}
    BY <1>1, <1>4
  <2> QED
    BY <1>1, <2>1, <2>2, Climb
<1>6. Good(N)
  BY <1>1, <1>5
<1>7. Seen(N) = Range(given) /\ \A k, l : Ahead(given, k, l) => Early(N, k, l)
  BY <1>0, <1>1 DEF Range, Ahead
<1>8. /\ Range(f[N]) = Range(given) \intersect keep
      /\ \A k, l \in keep : Ahead(given, k, l) => Ahead(f[N], k, l)
  BY <1>6, <1>7 DEF Good
<1>9. f[N] \in Seq(K)
  BY <1>1, <1>2
<1> QED
  BY <1>2, <1>8, <1>9

-----------------------------------------------------------------------------
(* A row that is inserted changes the order of no two others.               *)
LEMMA InsertIs ==
  ASSUME NEW K, NEW s \in Seq(K), NEW p \in 0..Len(s), NEW x \in K
  PROVE  /\ InsertAt(s, p + 1, x) \in Seq(K)
         /\ Len(InsertAt(s, p + 1, x)) = Len(s) + 1
         /\ Range(InsertAt(s, p + 1, x)) = Range(s) \union {x}
         /\ \A k, l : k # x /\ l # x /\ Ahead(s, k, l) => Ahead(InsertAt(s, p + 1, x), k, l)
<1>1. PICK n : n = Len(s)
  OBVIOUS
<1>2. PICK u, v, t : u = SubSeq(s, 1, p) /\ v = SubSeq(s, p + 1, n) /\ t = u \o <<x>> \o v
  OBVIOUS
<1>3. n \in Nat /\ p \in 0..n /\ DOMAIN s = 1..n
  BY <1>1
<1>4. /\ u \in Seq(K) /\ Len(u) = p /\ \A i \in 1..p : u[i] = s[i]
      /\ v \in Seq(K) /\ Len(v) = n - p /\ \A i \in 1..(n - p) : v[i] = s[p + i]
  BY <1>1, <1>2, <1>3
<1>5. InsertAt(s, p + 1, x) = t
  <2>1. (p + 1) - 1 = p
    BY <1>3
  <2> QED
    BY <1>1, <1>2, <2>1 DEF InsertAt
<1>6. <<x>> \in Seq(K) /\ Len(<<x>>) = 1 /\ <<x>>[1] = x
  OBVIOUS
<1>7. /\ t \in Seq(K) /\ Len(t) = n + 1 /\ DOMAIN t = 1..(n + 1)
      /\ \A i \in 1..p : t[i] = s[i]
      /\ t[p + 1] = x
      /\ \A i \in (p + 1)..n : t[i + 1] = s[i]
  <2>1. PICK w : w = u \o <<x>>
    OBVIOUS
  <2>2. /\ w \in Seq(K) /\ Len(w) = p + 1 /\ w[p + 1] = x
        /\ \A i \in 1..p : w[i] = s[i]
    <3>1. /\ w \in Seq(K) /\ Len(w) = p + 1
          /\ \A i \in 1..(p + 1) : w[i] = IF i <= p THEN u[i] ELSE <<x>>[i - p]
      BY <1>3, <1>4, <1>6, <2>1, ConcatProperties
    <3>2. w[p + 1] = <<x>>[(p + 1) - p] /\ (p + 1) - p = 1
      BY <1>3, <3>1
    <3>3. w[p + 1] = x
      BY <1>6, <3>2
    <3>4. \A i \in 1..p : w[i] = u[i]
      BY <1>3, <3>1
    <3>5. \A i \in 1..p : w[i] = s[i]
      BY <1>4, <3>4
    <3> QED
      BY <3>1, <3>3, <3>5
  <2>3. t = w \o v
    BY <1>2, <2>1
  <2>4. /\ t \in Seq(K) /\ Len(t) = n + 1
        /\ \A i \in 1..(p + 1) : t[i] = w[i]
        /\ \A i \in 1..(n - p) : t[p + 1 + i] = v[i]
    <3>1. /\ t \in Seq(K) /\ Len(t) = n + 1
          /\ \A i \in 1..(n + 1) : t[i] = IF i <= p + 1 THEN w[i] ELSE v[i - (p + 1)]
      <4>1. /\ t \in Seq(K) /\ Len(t) = (p + 1) + (n - p)
            /\ \A i \in 1..((p + 1) + (n - p)) : t[i] = IF i <= p + 1 THEN w[i] ELSE v[i - (p + 1)]
        <5>1. w \in Seq(K) /\ v \in Seq(K) /\ Len(w) = p + 1 /\ Len(v) = n - p
          BY <1>4, <2>2
        <5>2. PICK a, b : a = Len(w) /\ b = Len(v)
          OBVIOUS
        <5>3. /\ t \in Seq(K) /\ Len(t) = a + b
              /\ \A i \in 1..(a + b) : t[i] = IF i <= a THEN w[i] ELSE v[i - a]
          BY <2>3, <5>1, <5>2, ConcatProperties
        <5>4. a = p + 1 /\ b = n - p
          BY <5>1, <5>2
        <5> QED
          BY <5>3, <5>4
      <4>2. (p + 1) + (n - p) = n + 1
        BY <1>3
      <4> QED
        BY <4>1, <4>2
    <3>2. \A i \in 1..(p + 1) : i \in 1..(n + 1) /\ i <= p + 1
      BY <1>3
    <3>3. \A i \in 1..(n - p) : /\ p + 1 + i \in 1..(n + 1) /\ ~(p + 1 + i <= p + 1)
                                /\ (p + 1 + i) - (p + 1) = i
      BY <1>3
    <3> QED
      BY <3>1, <3>2, <3>3
  <2>5. ASSUME NEW i \in (p + 1)..n  PROVE t[i + 1] = s[i]
    <3>1. i - p \in 1..(n - p) /\ p + 1 + (i - p) = i + 1 /\ p + (i - p) = i
      BY <1>3
    <3> QED
      BY <1>4, <2>4, <3>1
  <2>6. DOMAIN t = 1..(n + 1)
    BY <2>4
  <2> QED
    BY <1>3, <2>2, <2>4, <2>5, <2>6
<1>8. Range(t) = Range(s) \union {x}
  <2>1. ASSUME NEW i \in 1..(n + 1)  PROVE t[i] \in Range(s) \union {x}
    <3>1. CASE i \in 1..p
      BY <1>3, <1>7, <3>1 DEF Range
    <3>2. CASE i = p + 1
      BY <1>7, <3>2
    <3>3. CASE i \in (p + 2)..(n + 1)
      <4>1. i - 1 \in (p + 1)..n /\ (i - 1) + 1 = i /\ i - 1 \in DOMAIN s
        BY <1>3, <3>3
      <4>2. t[i] = s[i - 1]
        BY <1>7, <4>1
      <4> QED
        BY <4>1, <4>2 DEF Range
    <3> QED
      BY <1>3, <3>1, <3>2, <3>3
  <2>2. ASSUME NEW i \in 1..n  PROVE s[i] \in Range(t)
    <3>1. CASE i \in 1..p
      BY <1>3, <1>7, <3>1 DEF Range
    <3>2. CASE i \in (p + 1)..n
      <4>1. t[i + 1] = s[i] /\ i + 1 \in DOMAIN t
        BY <1>3, <1>7, <3>2
      <4> QED
        BY <4>1 DEF Range
    <3> QED
      BY <1>3, <3>1, <3>2
  <2>3. x \in Range(t)
    BY <1>3, <1>7 DEF Range
  <2>4. Range(t) \subseteq Range(s) \union {x}
    BY <1>7, <2>1 DEF Range
  <2>5. Range(s) \subseteq Range(t)
    BY <1>3, <2>2 DEF Range
  <2> QED
    BY <2>3, <2>4, <2>5
<1>9. ASSUME NEW k, NEW l, k # x, l # x, Ahead(s, k, l)  PROVE Ahead(t, k, l)
  <2>1. PICK i \in 1..n : s[i] = k /\ \A j \in 1..i : s[j] # l
    BY <1>1, <1>9 DEF Ahead
  <2>2. CASE i \in 1..p
    BY <1>3, <1>7, <2>1, <2>2 DEF Ahead
  <2>3. CASE i \in (p + 1)..n
    <3>1. i + 1 \in 1..Len(t) /\ t[i + 1] = k
      BY <1>3, <1>7, <2>1, <2>3
    <3>2. ASSUME NEW j \in 1..(i + 1)  PROVE t[j] # l
      <4>1. CASE j \in 1..p
        BY <1>3, <1>7, <2>1, <2>3, <4>1
      <4>2. CASE j = p + 1
        BY <1>7, <1>9, <4>2
      <4>3. CASE j \in (p + 2)..(i + 1)
        <5>1. j - 1 \in (p + 1)..n /\ (j - 1) + 1 = j /\ j - 1 \in 1..i
          BY <1>3, <2>3, <4>3
        <5>2. t[j] = s[j - 1]
          BY <1>7, <5>1
        <5> QED
          BY <2>1, <5>1, <5>2
      <4> QED
        BY <1>3, <2>3, <4>1, <4>2, <4>3
    <3> QED
      BY <3>1, <3>2 DEF Ahead
  <2> QED
    BY <1>3, <2>1, <2>2, <2>3
<1> QED
  BY <1>1, <1>5, <1>7, <1>8, <1>9

-----------------------------------------------------------------------------
(* place.                                                                   *)

\* A walk under way: the rows that are kept are all there, in their order.
Walks(K, kept) ==
  {a \in [rows : Seq(K), at : Nat] :
     /\ a.at <= Len(a.rows) /\ Range(kept) \subseteq Range(a.rows)
     /\ \A k, l \in Range(kept) : Ahead(kept, k, l) => Ahead(a.rows, k, l)}

Adds(w, a, k) == Range(w.rows) = Range(a.rows) \union {k}

(* Each step of the walk keeps the kept rows in order and adds its own row. *)
LEMMA WalkStays ==
  ASSUME NEW K, NEW kept \in Seq(K), NEW a \in Walks(K, kept), NEW k \in K
  PROVE  Walk(a, kept, k) \in Walks(K, kept) /\ Adds(Walk(a, kept, k), a, k)
<1>1. /\ a = [rows |-> a.rows, at |-> a.at] /\ a.rows \in Seq(K) /\ a.at \in 0..Len(a.rows)
      /\ Len(a.rows) \in Nat /\ Range(kept) \subseteq Range(a.rows)
      /\ \A m, l \in Range(kept) : Ahead(kept, m, l) => Ahead(a.rows, m, l)
  BY DEF Walks
<1>2. CASE Contains(kept, k)
  <2>1. k \in Range(kept) /\ k \in Range(a.rows)
    BY <1>1, <1>2, Members
  <2>2. PICK i : i = IndexOf(a.rows, k) + 1
    OBVIOUS
  <2>3. i \in 0..Len(a.rows)
    BY <1>1, <2>1, <2>2, IndexIs
  <2>4. Walk(a, kept, k) = [rows |-> a.rows, at |-> i]
    BY <1>1, <1>2, <2>2 DEF Walk
  <2>5. Walk(a, kept, k) \in Walks(K, kept)
    BY <1>1, <2>1, <2>3, <2>4 DEF Walks
  <2>6. Adds(Walk(a, kept, k), a, k)
    BY <2>1, <2>4 DEF Adds
  <2> QED
    BY <2>5, <2>6
<1>3. CASE ~Contains(kept, k)
  <2>1. k \notin Range(kept)
    BY <1>3, Members
  <2>2. PICK t : t = InsertAt(a.rows, a.at + 1, k)
    OBVIOUS
  <2>3. /\ t \in Seq(K) /\ Len(t) = Len(a.rows) + 1 /\ Range(t) = Range(a.rows) \union {k}
        /\ \A m, l : m # k /\ l # k /\ Ahead(a.rows, m, l) => Ahead(t, m, l)
    BY <1>1, <2>2, InsertIs
  <2>4. PICK n : n = a.at + 1
    OBVIOUS
  <2>5. Walk(a, kept, k) = [rows |-> t, at |-> n]
    BY <1>3, <2>2, <2>4 DEF Walk
  <2>6. n \in Nat /\ n <= Len(t)
    BY <1>1, <2>3, <2>4
  <2>7. \A m, l \in Range(kept) : Ahead(kept, m, l) => Ahead(t, m, l)
    BY <1>1, <2>1, <2>3
  <2>8. Range(kept) \subseteq Range(t)
    BY <1>1, <2>3
  <2>9. Walk(a, kept, k) \in Walks(K, kept)
    BY <2>3, <2>5, <2>6, <2>7, <2>8 DEF Walks
  <2>10. Adds(Walk(a, kept, k), a, k)
    BY <2>3, <2>5 DEF Adds
  <2> QED
    BY <2>9, <2>10
<1> QED
  BY <1>2, <1>3

(* The whole walk: the rows that are kept and those of the model, the kept  *)
(* ones in order.                                                           *)
LEMMA PlaceRuns ==
  ASSUME NEW K, NEW order \in Seq(K), NEW model \in Seq(K)
  PROVE  /\ Place(order, model) \in Seq(K)
         /\ Range(Place(order, model)) = Range(Only(order, Range(model))) \union Range(model)
         /\ \A k, l \in Range(Only(order, Range(model))) :
              Ahead(Only(order, Range(model)), k, l) => Ahead(Place(order, model), k, l)
<1>k. PICK kept : kept = Only(order, Range(model))
  OBVIOUS
<1>0. PICK N, X, base : N = Len(model) /\ X = Walks(K, kept) /\ base = [rows |-> kept, at |-> 0]
  OBVIOUS
<1>1. /\ N \in Nat /\ DOMAIN model = 1..N /\ (\A i \in 1..N : model[i] \in K)
      /\ kept \in Seq(K) /\ base \in X /\ base.rows = kept
  BY <1>k, <1>0, OnlyKeeps DEF Walks
<1>2. \A acc \in X, k \in K : Walk(acc, kept, k) \in X
  BY <1>0, <1>1, WalkStays
<1>3. PICK G : G = [p \in X \X K |-> Walk(p[1], kept, p[2])]
  OBVIOUS
<1>4. G \in [X \X K -> X] /\ \A acc \in X, k \in K : G[<<acc, k>>] = Walk(acc, kept, k)
  BY <1>2, <1>3
<1> DEFINE Runs(f) == f = [s \in SUBSET (DOMAIN model) |->
                            IF s = {} THEN [rows |-> kept, at |-> 0]
                            ELSE Walk(f[s \ {Max(s)}], kept, model[Max(s)])]
<1>5. \E f : Runs(f)
  <2>2. PICK f : Folds_(f, X, base, G, model)
    <3>1. base \in X /\ G \in [X \X K -> X]
      BY <1>1, <1>4
    <3> QED
      BY <3>1, FoldExists
  <2>3. ASSUME NEW s \in SUBSET (DOMAIN model), s # {}
        PROVE  G[<<f[s \ {Max(s)}], model[Max(s)]>>] = Walk(f[s \ {Max(s)}], kept, model[Max(s)])
    <3>1. Max(s) \in s
      BY <1>1, <2>3, LargestOf
    <3>2. s \ {Max(s)} \in SUBSET (DOMAIN model) /\ model[Max(s)] \in K
      BY <1>1, <3>1
    <3>3. f[s \ {Max(s)}] \in X
      BY <2>2, <3>2 DEF Folds_
    <3> QED
      BY <1>4, <3>2, <3>3
  <2>4. Runs(f)
    <3>1. ASSUME NEW s \in SUBSET (DOMAIN model)
          PROVE  f[s] = IF s = {} THEN [rows |-> kept, at |-> 0]
                        ELSE Walk(f[s \ {Max(s)}], kept, model[Max(s)])
      BY <1>0, <2>2, <2>3 DEF Folds_
    <3>2. f = [s \in SUBSET (DOMAIN model) |-> f[s]]
      BY <2>2 DEF Folds_
    <3> QED
      BY <3>1, <3>2
  <2> QED
    BY <2>4
<1>6. PICK f : Runs(f) /\ Place(order, model) = f[DOMAIN model].rows
  BY <1>5, <1>k DEF Place, FoldLeft, MapThenFoldSet
<1>7. f[1..0] = base /\ \A i \in 1..N : f[1..i] = Walk(f[1..(i - 1)], kept, model[i])
  <2>1. 1..0 \in SUBSET (DOMAIN model)
    OBVIOUS
  <2>2. f[1..0] = base
    BY <1>0, <1>6, <2>1
  <2>3. ASSUME NEW i \in 1..N  PROVE f[1..i] = Walk(f[1..(i - 1)], kept, model[i])
    <3>1. /\ 1..i \in SUBSET (DOMAIN model) /\ 1..i # {}
          /\ Max(1..i) = i /\ (1..i) \ {i} = 1..(i - 1)
      BY <1>1, FoldedSets
    <3>2. f[1..i] = Walk(f[(1..i) \ {Max(1..i)}], kept, model[Max(1..i)])
      BY <1>6, <3>1
    <3> QED
      BY <3>1, <3>2
  <2> QED
    BY <2>2, <2>3
<1> HIDE DEF Runs
<1> DEFINE Seen(n) == {model[i] : i \in 1..n}
           Good(n) == f[1..n] \in X /\ Range(f[1..n].rows) = Range(kept) \union Seen(n)
<1>8. Good(0)
  BY <1>1, <1>7
<1>9. ASSUME NEW n \in 0..N, Good(n), n < N  PROVE Good(n + 1)
  <2>1. PICK m, a, x : m = n + 1 /\ a = f[1..n] /\ x = model[m]
    OBVIOUS
  <2>2. m \in 1..N /\ m - 1 = n /\ x \in K /\ n \in Nat
    BY <1>1, <1>9, <2>1
  <2>3. a \in X /\ Range(a.rows) = Range(kept) \union Seen(n)
    BY <1>9, <2>1
  <2>4. f[1..m] = Walk(a, kept, x)
    BY <1>7, <2>1, <2>2
  <2>5. Seen(m) = Seen(n) \union {x}
    <3>1. \A i : i \in 1..m <=> i \in 1..n \/ i = m
      BY <2>1, <2>2
    <3> QED
      BY <2>1, <3>1
  <2> HIDE DEF Seen
  <2>6. Walk(a, kept, x) \in X /\ Range(Walk(a, kept, x).rows) = Range(a.rows) \union {x}
    <3>1. Walk(a, kept, x) \in X /\ Adds(Walk(a, kept, x), a, x)
      BY <1>0, <1>1, <2>2, <2>3, WalkStays
    <3> QED
      BY <3>1 DEF Adds
  <2> QED
    BY <2>1, <2>3, <2>4, <2>5, <2>6
<1> HIDE DEF Good
<1>10. 0..N \subseteq {n \in 0..N : Good(n)}
  <2>1. 0 \in {n \in 0..N : Good(n)}
    BY <1>1, <1>8
  <2>2. \A n \in 0..N : n \in {i \in 0..N : Good(i)} /\ n < N => n + 1 \in {i \in 0..N : Good(i)}
    BY <1>1, <1>9
  <2> QED
    BY <1>1, <2>1, <2>2, Climb
<1>11. Good(N)
  BY <1>1, <1>10
<1>12. Seen(N) = Range(model)
  BY <1>1 DEF Range
<1>13. f[1..N] \in X /\ Range(f[1..N].rows) = Range(kept) \union Range(model)
  BY <1>11, <1>12 DEF Good
<1>14. Place(order, model) = f[1..N].rows
  BY <1>1, <1>6
<1> QED
  BY <1>k, <1>0, <1>13, <1>14 DEF Walks

(* place shows the rows of the model, and leaves those it knew in order.     *)
LEMMA PlaceKeeps ==
  ASSUME NEW K, NEW order \in Seq(K), NEW model \in Seq(K)
  PROVE  /\ Place(order, model) \in Seq(K) /\ Range(Place(order, model)) = Range(model)
         /\ \A k, l \in Range(order) \intersect Range(model) :
              Ahead(order, k, l) => Ahead(Place(order, model), k, l)
<1>1. /\ Only(order, Range(model)) \in Seq(K)
      /\ Range(Only(order, Range(model))) = Range(order) \intersect Range(model)
      /\ \A k, l \in Range(model) : Ahead(order, k, l) => Ahead(Only(order, Range(model)), k, l)
  BY OnlyKeeps
<1>2. PICK kept : kept = Only(order, Range(model))
  OBVIOUS
<1>3. /\ Place(order, model) \in Seq(K)
      /\ Range(Place(order, model)) = Range(kept) \union Range(model)
      /\ \A k, l \in Range(kept) : Ahead(kept, k, l) => Ahead(Place(order, model), k, l)
  BY <1>2, PlaceRuns
<1>4. /\ Range(kept) = Range(order) \intersect Range(model)
      /\ \A k, l \in Range(model) : Ahead(order, k, l) => Ahead(kept, k, l)
  BY <1>1, <1>2
<1> QED
  BY <1>3, <1>4

-----------------------------------------------------------------------------
(* The members of a concatenation.                                          *)
LEMMA ConcatRange ==
  ASSUME NEW K, NEW s \in Seq(K), NEW t \in Seq(K)
  PROVE  s \o t \in Seq(K) /\ Range(s \o t) = Range(s) \union Range(t)
<1>1. PICK a, b, u : a = Len(s) /\ b = Len(t) /\ u = s \o t
  OBVIOUS
<1>2. /\ a \in Nat /\ b \in Nat /\ DOMAIN s = 1..a /\ DOMAIN t = 1..b
      /\ u \in Seq(K) /\ DOMAIN u = 1..(a + b)
      /\ \A i \in 1..(a + b) : u[i] = IF i <= a THEN s[i] ELSE t[i - a]
  BY <1>1, ConcatProperties
<1>3. ASSUME NEW i \in 1..(a + b)  PROVE u[i] \in Range(s) \union Range(t)
  <2>1. CASE i <= a
    BY <1>2, <2>1 DEF Range
  <2>2. CASE ~(i <= a)
    <3>1. i - a \in 1..b /\ u[i] = t[i - a]
      BY <1>2, <2>2
    <3> QED
      BY <1>2, <3>1 DEF Range
  <2> QED
    BY <2>1, <2>2
<1>4. ASSUME NEW i \in 1..a  PROVE s[i] \in Range(u)
  <2>1. i \in 1..(a + b) /\ u[i] = s[i]
    BY <1>2
  <2> QED
    BY <1>2, <2>1 DEF Range
<1>5. ASSUME NEW i \in 1..b  PROVE t[i] \in Range(u)
  <2>1. a + i \in 1..(a + b) /\ u[a + i] = t[i]
    BY <1>2
  <2> QED
    BY <1>2, <2>1 DEF Range
<1>6. Range(u) \subseteq Range(s) \union Range(t)
  BY <1>2, <1>3 DEF Range
<1>7. Range(s) \subseteq Range(u) /\ Range(t) \subseteq Range(u)
  BY <1>2, <1>4, <1>5 DEF Range
<1> QED
  BY <1>1, <1>2, <1>6, <1>7

(* The rows of all hosts, one after the other.                              *)
LEMMA FlattenIs ==
  ASSUME NEW K, NEW N \in Nat \ {0}, NEW seqs \in [1..N -> Seq(K)], Len(seqs) = N
  PROVE  /\ FlattenSeq(seqs) \in Seq(K)
         /\ Range(FlattenSeq(seqs)) = UNION {Range(seqs[i]) : i \in 1..N}
<1> DEFINE Runs(f, n) == f = [i \in 1..n |-> IF i = 1 THEN seqs[i] ELSE f[i - 1] \o seqs[i]]
           Some(n) == \E f : Runs(f, n)
<1>1. Some(0)
  <2>1. PICK f : f = [i \in 1..0 |-> seqs[i]]
    OBVIOUS
  <2>2. Runs(f, 0)
    BY <2>1
  <2> HIDE DEF Runs
  <2> QED
    BY <2>2
<1>2. ASSUME NEW n \in 0..N, Some(n), n < N  PROVE Some(n + 1)
  <2>1. PICK f : Runs(f, n)
    BY <1>2
  <2>2. PICK m : m = n + 1
    OBVIOUS
  <2>3. n \in Nat /\ m \in Nat /\ m - 1 = n
    BY <1>2, <2>2
  <2>4. PICK g : g = [i \in 1..m |-> IF i = 1 THEN seqs[i] ELSE f[i - 1] \o seqs[i]]
    OBVIOUS
  <2>5. \A i \in 1..n : g[i] = f[i]
    <3>1. \A i \in 1..n : i \in 1..m
      BY <2>2, <2>3
    <3>2. \A i \in 1..n : f[i] = IF i = 1 THEN seqs[i] ELSE f[i - 1] \o seqs[i]
      BY <2>1
    <3> QED
      BY <2>4, <3>1, <3>2
  <2>6. ASSUME NEW i \in 1..m  PROVE g[i] = IF i = 1 THEN seqs[i] ELSE g[i - 1] \o seqs[i]
    <3>1. CASE i = 1
      BY <2>4, <3>1
    <3>2. CASE i # 1
      <4>1. i - 1 \in 1..n
        BY <2>2, <2>3, <3>2
      <4> QED
        BY <2>4, <2>5, <3>2, <4>1
    <3> QED
      BY <3>1, <3>2
  <2>7. g = [i \in 1..m |-> g[i]]
    BY <2>4
  <2>8. Runs(g, m)
    BY <2>6, <2>7
  <2> HIDE DEF Runs
  <2> QED
    BY <2>2, <2>8
<1> HIDE DEF Some
<1>3. 0..N \subseteq {n \in 0..N : Some(n)}
  <2>1. 0 \in {n \in 0..N : Some(n)}
    BY <1>1
  <2>2. \A n \in 0..N : n \in {i \in 0..N : Some(i)} /\ n < N => n + 1 \in {i \in 0..N : Some(i)}
    BY <1>2
  <2> QED
    BY <2>1, <2>2, Climb
<1>4. Some(N)
  BY <1>3
<1>5. PICK f : Runs(f, N) /\ FlattenSeq(seqs) = f[N]
  <2>1. \E f : Runs(f, N)
    BY <1>4 DEF Some
  <2> QED
    BY <2>1 DEF FlattenSeq
<1>6. /\ f[1] = seqs[1]
      /\ \A i \in 1..N : i < N => f[i + 1] = f[i] \o seqs[i + 1]
  <2>1. \A i \in 1..N : f[i] = IF i = 1 THEN seqs[i] ELSE f[i - 1] \o seqs[i]
    BY <1>5
  <2>2. 1 \in 1..N
    OBVIOUS
  <2>3. \A i \in 1..N : i < N => i + 1 \in 1..N /\ i + 1 # 1 /\ (i + 1) - 1 = i
    OBVIOUS
  <2> QED
    BY <2>1, <2>2, <2>3
<1> HIDE DEF Runs
<1> DEFINE Whole(n) == UNION {Range(seqs[i]) : i \in 1..n}
           Good(n) == n = 0 \/ (f[n] \in Seq(K) /\ Range(f[n]) = Whole(n))
<1>7. ASSUME NEW n \in 0..N, Good(n), n < N  PROVE Good(n + 1)
  <2>1. PICK m, s : m = n + 1 /\ s = seqs[m]
    OBVIOUS
  <2>2. n \in Nat /\ m \in 1..N /\ s \in Seq(K)
    BY <1>7, <2>1
  <2>3. Whole(m) = Whole(n) \union Range(s)
    BY <2>1, <2>2
  <2>4. CASE n = 0
    <3>1. m = 1 /\ f[m] = s /\ Whole(0) = {}
      BY <1>6, <2>1, <2>4
    <3> HIDE DEF Whole
    <3> QED
      BY <2>1, <2>2, <2>3, <2>4, <3>1
  <2>5. CASE n # 0
    <3>1. PICK t : t = f[n]
      OBVIOUS
    <3>2. t \in Seq(K) /\ Range(t) = Whole(n) /\ f[m] = t \o s
      <4>1. t \in Seq(K) /\ Range(t) = Whole(n)
        BY <1>7, <2>5, <3>1
      <4>2. n \in 1..N /\ n < N
        BY <1>7, <2>2, <2>5
      <4>3. f[n + 1] = f[n] \o seqs[n + 1]
        BY <1>6, <4>2
      <4> QED
        BY <2>1, <3>1, <4>1, <4>3
    <3> HIDE DEF Whole
    <3>3. t \o s \in Seq(K) /\ Range(t \o s) = Range(t) \union Range(s)
      BY <2>2, <3>2, ConcatRange
    <3> QED
      BY <2>1, <2>3, <3>2, <3>3
  <2> QED
    BY <2>4, <2>5
<1> HIDE DEF Good
<1>8. 0..N \subseteq {n \in 0..N : Good(n)}
  <2>1. 0 \in {n \in 0..N : Good(n)}
    BY DEF Good
  <2>2. \A n \in 0..N : n \in {i \in 0..N : Good(i)} /\ n < N => n + 1 \in {i \in 0..N : Good(i)}
    BY <1>7
  <2> QED
    BY <2>1, <2>2, Climb
<1>9. Good(N)
  BY <1>8
<1> QED
  BY <1>5, <1>9 DEF Good

-----------------------------------------------------------------------------
(* What is listed, and what is drawn of it.                                 *)

(* A listing is a sequence of its host's sessions, no two of one owner and  *)
(* name.                                                                    *)
LEMMA ListingIs ==
  ASSUME NEW h \in HostSet, NEW s \in Listings[h]
  PROVE  /\ s \in Seq(Keys) /\ \A k \in Range(s) : HostOf[k] = h
         /\ \A k, l \in Range(s) : OwnerOf[k] = OwnerOf[l] /\ NameOf[k] = NameOf[l] => k = l
<1>1. PICK S : S = {k \in Keys : HostOf[k] = h}
  OBVIOUS
<1>2. /\ s \in SetToAllKPermutations(S)
      /\ \A k, l \in Range(s) : OwnerOf[k] = OwnerOf[l] /\ NameOf[k] = NameOf[l] => k = l
  BY <1>1 DEF Listings
<1>3. PICK t \in SUBSET S : s \in SetToSeqs(t)
  BY <1>2 DEF SetToAllKPermutations
<1>4. Cardinality(t) \in Nat
  <2>1. IsFiniteSet(Keys) /\ t \subseteq Keys
    BY <1>1, DashboardAssumption
  <2> QED
    BY <2>1, FS_Subset, FS_CardinalityType
<1>5. PICK n : n = Cardinality(t)
  OBVIOUS
<1>6. n \in Nat /\ s \in [1..n -> t]
  BY <1>3, <1>4, <1>5 DEF SetToSeqs
<1>7. s \in [1..n -> Keys] /\ \A k \in Range(s) : k \in S
  BY <1>1, <1>6 DEF Range
<1>8. s \in Seq(Keys)
  BY <1>6, <1>7
<1> QED
  BY <1>1, <1>2, <1>7, <1>8

(* select_dashboard_model selects from what is listed.                       *)
LEMMA ModelIs ==
  ASSUME NEW lists, \A h \in HostSet : lists[h] \in Seq(Keys), NEW f
  PROVE  /\ Model(lists, f) \in Seq(Keys)
         /\ \A k \in Range(Model(lists, f)) : \E h \in HostSet : k \in Range(lists[h])
<1>1. PICK N : N = Len(Places)
  OBVIOUS
<1>2. N \in Nat \ {0} /\ DOMAIN Places = 1..N
  <2>1. PICK P : P = Range(Peers) \union {Local}
    OBVIOUS
  <2>2. Peers \in Seq(P) /\ <<Local>> \in Seq(P)
    BY <2>1, DashboardAssumption
  <2>3. Len(Peers) \in Nat /\ Len(<<Local>>) = 1
    BY <2>2
  <2>4. Places \in Seq(P) /\ Len(Places) = 1 + Len(Peers)
    BY <2>2, <2>3, ConcatProperties DEF Places
  <2> QED
    BY <1>1, <2>3, <2>4
<1>3. PICK seqs : seqs = [i \in DOMAIN Places |-> lists[Places[i]]]
  OBVIOUS
<1>4. \A i \in 1..N : Places[i] \in HostSet
  BY <1>2 DEF HostSet, Range
<1>5. seqs \in [1..N -> Seq(Keys)] /\ Len(seqs) = N
  BY <1>2, <1>3, <1>4
<1>6. PICK all : all = FlattenSeq(seqs)
  OBVIOUS
<1>7. all \in Seq(Keys) /\ Range(all) = UNION {Range(seqs[i]) : i \in 1..N}
  BY <1>2, <1>5, <1>6, FlattenIs
<1>8. PICK keep : keep = IF f THEN Matching ELSE Keys
  OBVIOUS
<1>9. Model(lists, f) = Only(all, keep)
  BY <1>3, <1>6, <1>8, Zenon DEF Model
<1>10. Only(all, keep) \in Seq(Keys) /\ Range(Only(all, keep)) \subseteq Range(all)
  BY <1>7, OnlyKeeps
<1>11. \A k \in Range(all) : \E h \in HostSet : k \in Range(lists[h])
  BY <1>2, <1>3, <1>4, <1>7
<1> QED
  BY <1>9, <1>10, <1>11

(* The list shows rows of the order only.                                   *)
LEMMA DisplayedIs ==
  ASSUME NEW order \in Seq(Keys), NEW v, NEW f, NEW tab
  PROVE  Displayed(order, v, f, tab) \in Seq(Keys) /\ Range(Displayed(order, v, f, tab)) \subseteq Range(order)
BY OnlyKeeps DEF Displayed

(* refresh_dashboard shows what is listed, keeps the rows it knew in order,   *)
(* and never shows two rows of one host, user and name.                       *)
LEMMA RefreshShows ==
  ASSUME ListingsOK', rowOrder \in Seq(Keys), NEW waiting, Refresh(waiting)
  PROVE  /\ rowOrder' \in Seq(Keys) /\ rows' \in Seq(Keys)
         /\ Range(rowOrder') = Range(Model(listed', filtered'))
         /\ rows' = Displayed(rowOrder', view', filtered', activeTab')
         /\ \A k, l \in Range(rowOrder) \intersect Range(rowOrder') :
              Ahead(rowOrder, k, l) => Ahead(rowOrder', k, l)
         /\ \A k, l \in Range(rows') : Named(k) = Named(l) => k = l
<1>1. PICK L, f, m, o, r, b :
        /\ L = listed' /\ f = filtered' /\ m = Model(L, f) /\ o = rowOrder' /\ r = rows' /\ b = rowOrder
  OBVIOUS
<1>2. o = Place(b, m) /\ r = Displayed(o, view', filtered', activeTab')
  BY <1>1, Zenon DEF Refresh
<1>3. \A h \in HostSet : L[h] \in Listings[h]
  BY <1>1 DEF ListingsOK
<1>4. /\ m \in Seq(Keys)
      /\ \A k \in Range(m) : \E h \in HostSet : k \in Range(L[h])
  <2>1. \A h \in HostSet : L[h] \in Seq(Keys)
    BY <1>3, ListingIs
  <2> QED
    BY <1>1, <2>1, ModelIs
<1>5. /\ o \in Seq(Keys) /\ Range(o) = Range(m)
      /\ \A k, l \in Range(b) \intersect Range(m) : Ahead(b, k, l) => Ahead(o, k, l)
  BY <1>1, <1>2, <1>4, PlaceKeeps
<1>6. r \in Seq(Keys) /\ Range(r) \subseteq Range(o)
  BY <1>2, <1>5, DisplayedIs
<1>7. ASSUME NEW k \in Range(r), NEW l \in Range(r), Named(k) = Named(l)  PROVE k = l
  <2>1. PICK g \in HostSet, h \in HostSet : k \in Range(L[g]) /\ l \in Range(L[h])
    BY <1>4, <1>5, <1>6
  <2>2. HostOf[k] = HostOf[l] /\ OwnerOf[k] = OwnerOf[l] /\ NameOf[k] = NameOf[l]
    BY <1>7 DEF Named
  <2>3. HostOf[k] = g /\ HostOf[l] = h
    BY <1>3, <2>1, ListingIs
  <2> QED
    BY <1>3, <2>1, <2>2, <2>3, ListingIs
<1> QED
  BY <1>1, <1>2, <1>5, <1>6, <1>7

-----------------------------------------------------------------------------
(* A step redraws, or leaves all it does not show to be drawn.               *)
Redrawn == \E waiting : Refresh(waiting) /\ (Refocus \/ Repin)
Still ==
  /\ UNCHANGED <<rowOrder, rows, view, filtered, activeTab>>
  /\ dirty' = {} => dirty = {} /\ listed' = listed

(* A render that takes place redraws; one that does not leaves what it      *)
(* would draw as it was.                                                    *)
LEMMA RenderDraws ==
  ASSUME NEW due, NEW kinds, NEW seen, RenderIf(due, kinds, seen),
         dirty' = (IF due /\ Drawn(kinds) THEN {} ELSE kinds),
         kinds = {} => dirty = {} /\ listed' = listed
  PROVE  Redrawn \/ Still
<1>1. CASE due /\ Drawn(kinds)
  <2>1. Render(kinds, seen)
    BY <1>1, Zenon DEF RenderIf
  <2>2. Refresh(tabMsgs) /\ (Refocus \/ Repin)
    BY <2>1, Zenon DEF Render, ApplyLoadedCtx
  <2> QED
    BY <2>2, Zenon DEF Redrawn
<1>2. CASE ~(due /\ Drawn(kinds))
  <2>1. UNCHANGED <<rowOrder, rows, view, filtered, activeTab>> /\ dirty' = kinds
    BY <1>2 DEF RenderIf
  <2> QED
    BY <2>1 DEF Still
<1> QED
  BY <1>1, <1>2

(* So does a request, which stays waiting if it is not drawn at once.       *)
LEMMA RequestDraws ==
  ASSUME NEW kind, NEW seen, RequestRender(kind, seen)
  PROVE  Redrawn \/ Still
<1> DEFINE kinds == dirty \union {kind}
<1>1. Request(kind, Drawn(kinds)) /\ RenderIf(FiresOnRequest, kinds, seen)
  BY Zenon DEF RequestRender
<1>2. dirty' = IF FiresOnRequest /\ Drawn(kinds) THEN {} ELSE kinds
  BY <1>1, RequestLeaves, Zenon
<1>3. kinds # {}
  OBVIOUS
<1> HIDE DEF kinds
<1> QED
  BY <1>1, <1>2, <1>3, RenderDraws, Zenon

(* Every step redraws the list or leaves what is drawn as it was, or as     *)
(* waiting.                                                                 *)
LEMMA EveryStepDraws ==
  ASSUME ListingsOK, [Next]_vars
  PROVE  ListingsOK' /\ (Redrawn \/ Still)
<1>1. CASE LocalLands
  <2>1. PICK s \in Listings[Local] :
          listed' = [listed EXCEPT ![Local] = s] /\ RequestRender("main_ctx", seenUsers)
    BY <1>1, Zenon DEF LocalLands
  <2>2. ListingsOK'
    BY <2>1 DEF ListingsOK
  <2> QED
    BY <2>1, <2>2, RequestDraws
<1>2. CASE RemoteLands
  <2>1. PICK h \in HostSet : \E s \in Listings[h] :
          listed' = [listed EXCEPT ![h] = s] /\ RequestRender(RemoteKind(s), WithUsers(s))
    BY <1>2, Zenon DEF RemoteLands
  <2>2. PICK s \in Listings[h] :
          listed' = [listed EXCEPT ![h] = s] /\ RequestRender(RemoteKind(s), WithUsers(s))
    BY <2>1
  <2>3. ListingsOK'
    BY <2>2 DEF ListingsOK
  <2> QED
    BY <2>2, <2>3, RequestDraws
<1>3. CASE TimerExpires
  <2>1. listed' = listed /\ Fire(dirty, Drawn(dirty)) /\ RenderIf(TRUE, dirty, seenUsers)
    BY <1>3, Zenon DEF TimerExpires, TimerFires
  <2>2. dirty' = LeftUndrawn(dirty, Drawn(dirty))
    BY <2>1, Zenon DEF Fire
  <2>3. dirty' = IF TRUE /\ Drawn(dirty) THEN {} ELSE dirty
    BY <2>2 DEF LeftUndrawn
  <2> QED
    BY <2>1, <2>3, RenderDraws DEF ListingsOK
<1>4. CASE ToggleView \/ FilterChanged
  <2>1. listed' = listed /\ Refresh(tabMsgs) /\ Repin
    BY <1>4, Zenon DEF ToggleView, FilterChanged, OnMain, Untouched
  <2> QED
    BY <2>1, Zenon DEF Redrawn, ListingsOK
<1>5. CASE TabActivated
  <2>1. listed' = listed /\ dirty' = dirty /\ UNCHANGED <<view, filtered>> /\ activeTab' = Head(tabMsgs)
    BY <1>5 DEF TabActivated, Untouched, schedVars
  <2>2. CASE activeTab = Head(tabMsgs)
    <3>1. UNCHANGED <<rowOrder, rows>>
      BY <1>5, <2>2 DEF TabActivated
    <3> QED
      BY <2>1, <2>2, <3>1 DEF Still, ListingsOK
  <2>3. CASE activeTab # Head(tabMsgs)
    <3>1. Refresh(Tail(tabMsgs)) /\ Repin
      BY <1>5, <2>3, Zenon DEF TabActivated
    <3> QED
      BY <2>1, <3>1, Zenon DEF Redrawn, ListingsOK
  <2> QED
    BY <2>2, <2>3
<1>6. CASE Tick \/ ChangeTab \/ CursorDown \/ CursorUp \/ CursorJumps \/ HostNavigate \/ ModalSwitches \/ UNCHANGED vars
  <2>1. UNCHANGED <<rowOrder, rows, view, filtered, activeTab, listed, dirty>>
    BY <1>6 DEF Tick, SchedulerTick, ChangeTab, CursorDown, CursorUp, CursorJumps, HostNavigate, MovesCursor,
         ModalSwitches, OnMain, Untouched, schedVars, uiVars, vars
  <2> QED
    BY <2>1 DEF Still, ListingsOK
<1> QED
  BY <1>1, <1>2, <1>3, <1>4, <1>5, <1>6 DEF Next

(* So the list stays what is listed, or has something left to draw.         *)
LEMMA ShownStep ==
  ASSUME ShownInv, [Next]_vars
  PROVE  ShownInv'
<1>1. ListingsOK' /\ (Redrawn \/ Still)
  BY EveryStepDraws DEF ShownInv
<1>2. CASE Redrawn
  BY <1>1, <1>2, RefreshShows DEF Redrawn, ShownInv, ShownIsCurrent
<1>3. CASE Still
  BY <1>1, <1>3 DEF Still, ShownInv, ShownIsCurrent
<1> QED
  BY <1>1, <1>2, <1>3

(* Before the first fetch lands there is nothing to list and nothing drawn.  *)
LEMMA NothingYet ==
  ASSUME NEW s \in Seq(Keys), Range(s) = {}
  PROVE  s = <<>>
<1>1. Len(s) \in Nat /\ \A i \in 1..Len(s) : s[i] \in Range(s)
  BY DEF Range
<1>2. Len(s) = 0
  BY <1>1
<1> QED
  BY <1>2

(* At first nothing is listed and nothing is drawn.                         *)
LEMMA InitShows ==
  ASSUME Init
  PROVE  ShownInv
<1>1. \A h \in HostSet : listed[h] = <<>>
  BY DEF Init
<1>2. <<>> \in SetToSeqs({})
  <2>1. PICK n : n = Cardinality({})
    OBVIOUS
  <2>2. n = 0
    BY <2>1, FS_EmptySet
  <2>3. <<>> \in [1..n -> {}] /\ \A i, j \in 1..n : i # j => <<>>[i] # <<>>[j]
    BY <2>2
  <2> QED
    BY <2>1, <2>3 DEF SetToSeqs
<1>3. Range(<<>>) = {} /\ <<>> \in Seq(Keys)
  BY DEF Range
<1>4. ASSUME NEW h \in HostSet  PROVE <<>> \in Listings[h]
  <2>1. PICK S : S = {k \in Keys : HostOf[k] = h}
    OBVIOUS
  <2>2. <<>> \in SetToAllKPermutations(S)
    BY <1>2 DEF SetToAllKPermutations
  <2> QED
    BY <1>3, <2>1, <2>2 DEF Listings
<1>5. ListingsOK
  <2>1. DOMAIN listed = HostSet
    BY DEF Init
  <2> QED
    BY <1>1, <1>4, <2>1 DEF ListingsOK
<1>6. rowOrder = <<>> /\ rows = <<>>
  BY DEF Init
<1>7. Model(listed, filtered) = <<>>
  <2>1. PICK m : m = Model(listed, filtered)
    OBVIOUS
  <2>2. m \in Seq(Keys) /\ \A k \in Range(m) : \E h \in HostSet : k \in Range(listed[h])
    BY <1>1, <1>3, <2>1, ModelIs
  <2>3. Range(m) = {}
    BY <1>1, <1>3, <2>2
  <2> QED
    BY <2>1, <2>2, <2>3, NothingYet
<1>8. Displayed(rowOrder, view, filtered, activeTab) = <<>>
  <2>1. PICK d : d = Displayed(rowOrder, view, filtered, activeTab)
    OBVIOUS
  <2>2. d \in Seq(Keys) /\ Range(d) \subseteq Range(rowOrder)
    BY <1>3, <1>6, <2>1, DisplayedIs
  <2>3. Range(d) = {}
    BY <1>3, <1>6, <2>2
  <2> QED
    BY <2>1, <2>2, <2>3, NothingYet
<1>9. ShownIsCurrent
  BY <1>3, <1>6, <1>7, <1>8 DEF ShownIsCurrent
<1> QED
  BY <1>3, <1>5, <1>6, <1>9 DEF ShownInv

(* Landings, renders that are refused or coalesced, filters, views and tabs:  *)
(* what is drawn and what is left to draw together are what is listed.       *)
THEOREM ShownInvariant == Spec => []ShownInv
<1>1. Init => ShownInv
  BY InitShows
<1>2. ShownInv /\ [Next]_vars => ShownInv'
  BY ShownStep
<1> QED
  BY <1>1, <1>2, PTL DEF Spec

(* With nothing left to draw, the list is what the sources last delivered.   *)
THEOREM ListIsCurrent == Spec => []ShownIsCurrent
<1>1. ShownInv => ShownIsCurrent
  BY DEF ShownInv
<1> QED
  BY <1>1, ShownInvariant, PTL

(* place: rows that stay never change places.                                *)
THEOREM RowsStayInOrder == Spec => EstablishedRowsKeepOrder
<1>1. ASSUME ShownInv, [Next]_vars, rowOrder' # rowOrder,
             NEW k \in Range(rowOrder) \intersect Range(rowOrder'),
             NEW l \in Range(rowOrder) \intersect Range(rowOrder'),
             IndexOf(rowOrder, k) < IndexOf(rowOrder, l)
      PROVE  IndexOf(rowOrder', k) < IndexOf(rowOrder', l)
  <2>1. ListingsOK' /\ Redrawn
    BY <1>1, EveryStepDraws DEF ShownInv, Still
  <2>2. PICK waiting : Refresh(waiting)
    BY <2>1, Zenon DEF Redrawn
  <2>3. rowOrder \in Seq(Keys) /\ rowOrder' \in Seq(Keys) /\ (Ahead(rowOrder, k, l) => Ahead(rowOrder', k, l))
    BY <1>1, <2>1, <2>2, RefreshShows DEF ShownInv
  <2> QED
    BY <1>1, <2>3, IndexOrder
<1>2. ShownInv /\ [Next]_vars =>
        [rowOrder' # rowOrder =>
           \A k, l \in Range(rowOrder) \cap Range(rowOrder') :
             IndexOf(rowOrder, k) < IndexOf(rowOrder, l)
               => IndexOf(rowOrder', k) < IndexOf(rowOrder', l)]_vars
  BY <1>1
<1> QED
  BY <1>2, ShownInvariant, PTL DEF Spec, EstablishedRowsKeepOrder

(* pin_cursor_to, _focus_key: the cursor stays on its row as long as that is  *)
(* shown, also when it is found again by name.                               *)
THEOREM CursorStays == Spec => CursorKeepsItsRow
<1>1. ASSUME ShownInv, [Next]_vars, rows' # rows, RowAt(rows, cursor) # NoRow,
             Contains(rows', RowAt(rows, cursor).key)
      PROVE  RowAt(rows', cursor') = RowAt(rows, cursor)
  <2>1. ListingsOK' /\ Redrawn
    BY <1>1, EveryStepDraws DEF ShownInv, Still
  <2>2. PICK waiting : Refresh(waiting) /\ (Refocus \/ Repin)
    BY <2>1, Zenon DEF Redrawn
  <2>3. rows' \in Seq(Keys) /\ \A k, l \in Range(rows') : Named(k) = Named(l) => k = l
    BY <1>1, <2>1, <2>2, RefreshShows DEF ShownInv
  <2>4. PICK r, c, row, x : r = rows' /\ c = cursor' /\ row = RowAt(rows, cursor) /\ x = row.key
    OBVIOUS
  <2>5. row = [key |-> x] /\ row # NoRow
    <3>1. row # NoRow /\ row = IF cursor < Len(rows) THEN [key |-> rows[cursor + 1]] ELSE NoRow
      BY <1>1, <2>4 DEF RowAt
    <3>2. PICK y : y = rows[cursor + 1]
      OBVIOUS
    <3>3. row = [key |-> y] /\ row.key = y
      BY <3>1, <3>2
    <3> QED
      BY <2>4, <3>1, <3>3
  <2>6. r \in Seq(Keys) /\ Contains(r, x) /\ x \in Range(r)
    BY <1>1, <2>3, <2>4, Members
  <2>7. \A i \in 1..Len(r) : r[i] = x => RowAt(r, i - 1) = row
    BY <2>5, <2>6 DEF RowAt
  <2>8. CASE Repin
    <3>1. c = IndexOf(r, x)
      BY <2>4, <2>5, <2>6, <2>8 DEF Repin, PinCursor
    <3>2. IndexOf(r, x) \in 0..(Len(r) - 1) /\ r[IndexOf(r, x) + 1] = x
      BY <2>6, IndexIs
    <3>3. PICK i : i = c + 1
      OBVIOUS
    <3>4. i \in 1..Len(r) /\ r[i] = x /\ i - 1 = c
      BY <2>6, <3>1, <3>2, <3>3
    <3>5. RowAt(r, c) = row
      BY <2>7, <3>4
    <3> QED
      BY <2>4, <3>5
  <2>9. CASE Refocus /\ ~Repin
    <3>1. PICK T : T = {i \in DOMAIN r : row # NoRow /\ Named(r[i]) = Named(x)}
      OBVIOUS
    <3>2. SameName(row) = T
      BY <2>4, <3>1 DEF SameName
    <3>3. T # {} /\ c = Min(T) - 1
      BY <2>4, <2>9, <3>2 DEF Refocus
    <3>4. T \in SUBSET Nat /\ T \subseteq 1..Len(r)
      BY <2>6, <3>1
    <3>5. PICK i : i = Min(T)
      OBVIOUS
    <3>6. i \in T
      BY <3>3, <3>4, <3>5, LeastOf
    <3>7. i \in 1..Len(r) /\ Named(r[i]) = Named(x)
      BY <3>1, <3>4, <3>6
    <3>8. r[i] \in Range(r)
      BY <2>6, <3>7, Members
    <3>9. r[i] = x
      BY <2>3, <2>4, <2>6, <3>7, <3>8
    <3>10. RowAt(r, c) = row
      BY <2>7, <3>3, <3>5, <3>7, <3>9
    <3> QED
      BY <2>4, <3>10
  <2> QED
    BY <2>2, <2>8, <2>9
<1>2. ShownInv /\ [Next]_vars =>
        [rows' # rows /\ RowAt(rows, cursor) # NoRow =>
           \/ ~Contains(rows', RowAt(rows, cursor).key)
           \/ RowAt(rows', cursor') = RowAt(rows, cursor)]_vars
  BY <1>1
<1> QED
  BY <1>2, ShownInvariant, PTL DEF Spec, CursorKeepsItsRow
=============================================================================
