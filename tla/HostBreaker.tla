---------------------------- MODULE HostBreaker ----------------------------
(***************************************************************************)
(* One peer's circuit breaker (domain/host_breaker.py) as operators over a *)
(* breaker record.  The clock is abstracted: "due" says that the monotonic *)
(* clock has reached next_attempt_at, and the module that owns the breaker *)
(* sets it some time after the window opened.  Only the length of the      *)
(* window is kept; its jitter never reorders two windows of one breaker.   *)
(***************************************************************************)
EXTENDS Naturals, FiniteSetsExt

Factor == 2
CapSeconds == 60
TripAfter == 3
CompatibilityCooldown == 300
InitialBackoff == Max({CapSeconds \div Factor, 1})

BreakerStates == {"closed", "open", "half_open"}
Breaker ==
  [state     : BreakerStates,
   backoff   : {InitialBackoff, CapSeconds, CompatibilityCooldown},
   due       : BOOLEAN,
   in_flight : BOOLEAN,
   failures  : 0..TripAfter - 1]   \* read while closed, and kept only then

NewBreaker ==
  [state |-> "closed", backoff |-> InitialBackoff, due |-> TRUE,
   in_flight |-> FALSE, failures |-> 0]

OnSuccess(b) == NewBreaker

\* on_failure of an incompatible peer: open at once, for the fixed cooldown.
OnIncompatible(b) ==
  [state |-> "open", backoff |-> CompatibilityCooldown, due |-> FALSE,
   in_flight |-> FALSE, failures |-> 0]

OpenFor(b, window) ==
  [b EXCEPT !.state = "open", !.in_flight = FALSE, !.due = FALSE,
            !.backoff = window, !.failures = 0]

Capped(seconds) == Min({seconds, CapSeconds})

\* on_failure of a transient error.  Below the trip threshold only the
\* counter moves and in_flight stays as it is.
OnTransient(b) ==
  IF b.state = "closed"
  THEN IF b.failures + 1 < TripAfter
       THEN [b EXCEPT !.failures = @ + 1]
       ELSE OpenFor(b, InitialBackoff)
  ELSE OpenFor(b, Capped(b.backoff * Factor))

OnFailure(b, incompatible) ==
  IF incompatible THEN OnIncompatible(b) ELSE OnTransient(b)

\* Mutant of Admits: an open window is never left by a scheduled probe.
AdmitsWhileClosed(b) == ~b.in_flight /\ b.state = "closed"

\* should_attempt: its answer, and the breaker it leaves behind.
Admits(b) == ~b.in_flight /\ (b.state = "open" => b.due)
AfterAttempt(b) ==
  IF b.state = "open" /\ b.due THEN [b EXCEPT !.state = "half_open"] ELSE b

MarkInflight(b) == [b EXCEPT !.in_flight = TRUE]
ClearInflight(b) == [b EXCEPT !.in_flight = FALSE]
=============================================================================
