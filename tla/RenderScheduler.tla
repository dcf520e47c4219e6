-------------------------- MODULE RenderScheduler --------------------------
(***************************************************************************)
(* The trailing debounce in front of the dashboard's renders               *)
(* (tui/render_scheduler.py).  Time passes in ticks; the ages are those of *)
(* the code's batch_start and last_fire against its monotonic clock, cut   *)
(* off where they no longer matter.  A render may be refused: the module   *)
(* that draws says so in the parameter "drawn".                            *)
(***************************************************************************)
EXTENDS Integers

CONSTANTS
  Debounce,    \* quiet time between a request and its render
  MaxLatency   \* a batch of requests waits no longer than this

ASSUME SchedulerAssumption == Debounce \in Nat \ {0} /\ MaxLatency \in Nat

RenderKinds == {"main_ctx", "remote"}
None == -1

VARIABLES
  dirty,      \* kinds of render asked for and not yet drawn
  timer,      \* ticks until the timer fires, or None
  batchAge,   \* age of the batch the timer belongs to, or None
  fireAge,    \* age of the last render drawn; Debounce stands for anything older
  owed        \* history: age of the oldest request not yet tried, or None

schedVars == <<dirty, timer, batchAge, fireAge, owed>>

SchedulerTypeOK ==
  /\ dirty \subseteq RenderKinds
  /\ timer \in 0..Debounce \union {None}
  /\ batchAge \in 0..MaxLatency \union {None}
  /\ fireAge \in 0..Debounce
  /\ owed \in Nat \union {None}

SchedulerInit ==
  /\ dirty = {} /\ timer = None /\ batchAge = None
  /\ fireAge = Debounce /\ owed = None

Lesser(a, b) == IF a < b THEN a ELSE b

\* Mutant of Delay: every request waits the full quiet time.
DelayUncapped(age) == Debounce
Delay(age) == Lesser(Debounce, MaxLatency - age)

\* Mutant of LeftUndrawn: a refused render is forgotten.
ForgetUndrawn(d, drawn) == {}
LeftUndrawn(d, drawn) == IF drawn THEN {} ELSE d

\* _fire, reached with d dirty; without anything dirty nothing is rendered.
Fire(d, drawn) ==
  /\ timer' = None /\ batchAge' = None /\ owed' = None
  /\ dirty' = LeftUndrawn(d, drawn)
  /\ fireAge' = IF drawn THEN 0 ELSE fireAge

\* The age the batch has after a request joined it.
JoinedAge == IF timer # None THEN batchAge ELSE 0

\* request draws at once when nothing was drawn lately, or when the batch
\* has waited long enough; otherwise it moves the timer.
FiresOnRequest ==
  \/ timer = None /\ fireAge >= Debounce
  \/ Delay(JoinedAge) <= 0

Request(kind, drawn) ==
  IF FiresOnRequest
  THEN Fire(dirty \union {kind}, drawn)
  ELSE /\ dirty' = dirty \union {kind}
       /\ timer' = Delay(JoinedAge)
       /\ batchAge' = JoinedAge
       /\ owed' = IF owed = None THEN 0 ELSE owed
       /\ UNCHANGED fireAge

TimerFires(drawn) ==
  /\ timer = 0
  /\ Fire(dirty, drawn)

\* The loop runs a timer that is due before time goes on.
SchedulerTick ==
  /\ timer # 0
  /\ timer' = IF timer = None THEN None ELSE timer - 1
  /\ batchAge' = IF batchAge = None THEN None ELSE batchAge + 1
  /\ owed' = IF owed = None THEN None ELSE owed + 1
  /\ fireAge' = Lesser(fireAge + 1, Debounce)
  /\ UNCHANGED dirty

SchedulerNext ==
  \/ \E kind \in RenderKinds, drawn \in BOOLEAN : Request(kind, drawn)
  \/ \E drawn \in BOOLEAN : TimerFires(drawn)
  \/ SchedulerTick

SchedulerSpec == SchedulerInit /\ [][SchedulerNext]_schedVars

(***************************************************************************)
(* A request is drawn, or tried and refused, within MaxLatency, however    *)
(* many requests follow it (request, _reschedule): one that waits has a    *)
(* timer.                                                                  *)
(***************************************************************************)
RenderedInTime ==
  owed # None => timer # None /\ owed + timer <= MaxLatency

(* Why: a request that waits belongs to a batch at least as old, and the     *)
(* timer of a batch never reaches past its latency.                          *)
ScheduleInv ==
  /\ SchedulerTypeOK
  /\ timer # None <=> batchAge # None
  /\ timer # None => batchAge + timer <= MaxLatency
  /\ owed # None => timer # None /\ owed <= batchAge
=============================================================================
