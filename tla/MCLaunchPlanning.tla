-------------------------- MODULE MCLaunchPlanning --------------------------
(***************************************************************************)
(* An instance of LaunchPlanning: two projects of one basename, of which   *)
(* the first may not exist yet; two branches of one slug; profile here of  *)
(* the caller, and boxed of bob, who may see the second project where the  *)
(* caller sees the first.                                                  *)
(***************************************************************************)
EXTENDS LaunchPlanning

CONSTANTS ann, bob, here, boxed, hub, near, far, q1, q2, c1, c2, topic, topic2

OnlyTopic == [b \in Branches |-> "topic"]
OnlyFoo == [p \in Places |-> "foo"]
InOrder == <<here, boxed>>
Launching == [f \in Profiles |-> IF f = boxed THEN bob ELSE None]
OnHub == [f \in Profiles |-> [allowed |-> {hub}, default |-> IF f = boxed THEN hub ELSE None]]
Rules == [p \in Places |->
  IF p = near
  THEN [allowed |-> InOrder, default |-> boxed, git |-> [allowed |-> {hub}, default |-> None]]
  ELSE [allowed |-> <<here>>, default |-> None, git |-> [allowed |-> {}, default |-> None]]]
Leading == [u \in Users |-> [q \in Paths |->
  IF q = q2 THEN {far} ELSE {near, far}]]

Job(cmd, path, branch, profile, git) ==
  [cmd |-> cmd, path |-> path, branch |-> branch, profile |-> profile, git |-> git]
Pair(first, second) == [c \in Clients |-> IF c = c1 THEN first ELSE second]
\* Two that create one project, one of them perhaps without a repository; one
\* that goes on without after it failed; two whose worktrees share a path, two
\* whose sessions share a name, and one whose profile depends on the place.
Asked ==
  {Pair({Job("new", q1, None, None, "default")}, {Job("create", q1, None, None, hub)}),
   Pair({Job("new", q1, None, boxed, None)}, {Job("create", q1, None, None, hub)}),
   Pair({Job("new", q1, None, None, "default"), Job("new", q1, None, boxed, None)}, {}),
   Pair({Job("run", q1, topic, here, None)},
        {Job("new", q1, topic2, here, None), Job("run", q2, topic, here, None)}),
   Pair({Job("new", q1, None, here, None)},
        {Job("run", q2, None, here, None), Job("open", q2, None, None, None)}),
   Pair({Job("run", q1, None, None, None)}, {})}
=============================================================================
