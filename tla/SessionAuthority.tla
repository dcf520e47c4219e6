-------------------------- MODULE SessionAuthority --------------------------
(***************************************************************************)
(* What the launch records promise, with tmux, timeouts and rollbacks left  *)
(* out.  A launch is declared, then sealed, then closed.  Its agent starts  *)
(* only from a sealed declaration, and while an agent runs its declaration  *)
(* stays sealed - unless the launch was disowned: its controller is undoing *)
(* it, or its session's marker was overwritten.                             *)
(***************************************************************************)
CONSTANT Launches

VARIABLES
  phase,       \* "fresh", "declared", "void" (closed unsealed), "sealed", "closed"
  running,     \* launches whose agent runs
  disowned     \* launches given up by their controller or their user

avars == <<phase, running, disowned>>

Init ==
  /\ phase = [l \in Launches |-> "fresh"]
  /\ running = {}
  /\ disowned = {}

Open == {"declared", "sealed"}

Closing(p) == IF p = "sealed" THEN "closed" ELSE "void"

Move(l, from, to) ==
  /\ phase[l] = from
  /\ phase' = [phase EXCEPT ![l] = to]
  /\ UNCHANGED <<running, disowned>>

\* A launch declares itself, or fails to.
Declare(l) == Move(l, "fresh", "declared") \/ Move(l, "fresh", "void")

Seal(l) == Move(l, "declared", "sealed")

\* Declarations are closed together, but never that of a running agent, save a
\* disowned one's.
Close(S) ==
  /\ \A l \in S : phase[l] \in Open /\ (l \in running => l \in disowned)
  /\ phase' = [l \in Launches |-> IF l \in S THEN Closing(phase[l]) ELSE phase[l]]
  /\ UNCHANGED <<running, disowned>>

\* A launch is given up, and its declaration closed with it or left behind.
Disown(l) ==
  /\ disowned' = disowned \cup {l}
  /\ \/ UNCHANGED phase
     \/ phase[l] \in Open /\ phase' = [phase EXCEPT ![l] = Closing(@)]
  /\ UNCHANGED running

Start(l) ==
  /\ \/ phase[l] = "sealed"
     \/ phase[l] = "closed" /\ l \in disowned
  /\ l \notin running
  /\ running' = running \cup {l}
  /\ UNCHANGED <<phase, disowned>>

\* Agents end one by one, or many at once with their server.
Stop(S) ==
  /\ running' = running \ S
  /\ UNCHANGED <<phase, disowned>>

Next ==
  \/ \E l \in Launches : Declare(l) \/ Seal(l) \/ Disown(l) \/ Start(l)
  \/ \E S \in SUBSET Launches : Close(S) \/ Stop(S)

Spec == Init /\ [][Next]_avars

=============================================================================
