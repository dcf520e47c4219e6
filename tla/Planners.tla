------------------------------ MODULE Planners ------------------------------
(***************************************************************************)
(* Clients that plan a launch (app/run.py, app/new.py, app/tui_planning.py)*)
(* and what they share: project directories with their git state, linked   *)
(* worktrees, the git host, workload runtimes and the users' tmux servers. *)
(* A planner goes from stage to stage; every stage may fail, and what the  *)
(* stages before it have done stays.                                       *)
(***************************************************************************)
EXTENDS ProfilePolicy, Naturals, FiniteSets

CONSTANTS Clients,      \* the planners
          Commands,     \* the commands each may be given, again and again
          Branches, SlugOf,
          OutOfTree,    \* worktree_root is set
          BaseOf,       \* slug of a place's basename
          Creatable     \* the places that may not exist yet

VARIABLES
  asks,    \* the commands its user gives each planner
  at,      \* the stage a planner is in
  job,     \* its command
  res,     \* its resolved launch profile
  known,   \* what a probe told it that a later stage relies on
  pick,    \* the session it has chosen or created
  repo,    \* a directory and its repository
  tree,    \* linked worktrees by path
  remote,  \* who created the repository of a name on the git host
  box,     \* the workload runtime's resource for a place
  sess     \* sessions of all users

worldVars == <<repo, tree, remote, box, sess, view>>
planVars == <<asks, at, job, res, known, pick, worldVars>>

NoJob == [branch |-> None, git |-> None]
NoPlan == [place |-> None]
NoSession == [id |-> 0]
Absent == [dir |-> FALSE, git |-> "none", branches |-> {}, excluded |-> 0,
           origin |-> FALSE, pushed |-> FALSE]
Cloned == [dir |-> TRUE, git |-> "committed", branches |-> {}, excluded |-> 0,
           origin |-> TRUE, pushed |-> TRUE]

\* compute_worktree_path: branches that share a slug share a path, and under
\* worktree_root so do repositories that share a basename.
TreePath(p, b) == <<IF OutOfTree THEN BaseOf[p] ELSE p, SlugOf[b]>>
TreePaths == {TreePath(p, b) : p \in Places, b \in Branches}
NoTree == [of |-> None, branch |-> None]

InTree(j) == j.branch # None
MakesRemote(j) == j.git # None

\* What the command line accepts (cli/parsing.py:65-110).
ASSUME CommandsAssumption ==
  /\ IsFiniteSet(Clients) /\ None \notin Clients
  /\ \A given \in Commands : \A c \in Clients : \A j \in given[c] :
       /\ j.path \in Paths /\ j.branch \in Branches \union {None}
       /\ j.profile \in Profiles \union {None}
       /\ InTree(j) => j.cmd \in {"run", "new"} /\ ~MakesRemote(j)
       /\ MakesRemote(j) => j.cmd \in {"new", "create"}

\* The directory a planner launches in, and the stem of its session's name.
Root(c) == IF InTree(job[c]) THEN TreePath(res[c].place, job[c].branch) ELSE <<res[c].place>>
Stem(c) == IF InTree(job[c]) THEN <<BaseOf[res[c].place], SlugOf[job[c].branch]>>
                             ELSE <<BaseOf[res[c].place]>>

Repo(c) == repo[res[c].place]

\* The stages, in the order of the commands.
AfterResolve(j) ==
  CASE InTree(j) /\ j.cmd = "new" -> "compat"
    [] InTree(j) /\ j.cmd = "run" -> "gate"
    [] ~InTree(j) /\ j.cmd \in {"new", "create"} -> "mkdir"
    [] OTHER -> "snapshot"

\* ensure_runtime_ready does nothing for the direct runtime.
RuntimeOr(c, next) == IF res[c].profile \in Direct THEN next ELSE "probe"

AfterProject(c) == IF job[c].cmd = "create" THEN RuntimeOr(c, "snapshot") ELSE "snapshot"
AfterRuntime(j) == IF InTree(j) \/ j.cmd = "create" THEN "snapshot" ELSE "launch"

\* Open, in the TUI, has its runtime prepared by the flow that asks for it.
AfterSnapshot(c) ==
  IF InTree(job[c]) \/ job[c].cmd \in {"create", "open"} THEN "launch" ELSE RuntimeOr(c, "launch")

Prepared == {"copy", "probe", "prepare", "agent", "snapshot", "launch", "handshake"}

Becomes(c, stage) == at' = [at EXCEPT ![c] = stage]
Goes(c, from, to) == at[c] = from /\ Becomes(c, to)
KeepsPlan(c) == UNCHANGED <<asks, job, res, known, pick>>
Learns(c, fact) == known' = [known EXCEPT ![c] = fact] /\ UNCHANGED <<asks, job, res, pick, worldVars>>
Changes(c, field, value) ==
  repo' = [repo EXCEPT ![res[c].place][field] = value] /\ UNCHANGED <<tree, remote, box, sess, view>>

PlannersInit ==
  /\ asks \in Commands
  /\ at = [c \in Clients |-> "idle"]
  /\ job = [c \in Clients |-> NoJob]
  /\ res = [c \in Clients |-> NoPlan]
  /\ known = [c \in Clients |-> None]
  /\ pick = [c \in Clients |-> NoSession]
  /\ \E missing \in SUBSET Creatable :
       repo = [p \in Places |-> IF p \in missing THEN Absent ELSE Cloned]
  /\ tree = [w \in TreePaths |-> NoTree]
  /\ remote = [q \in Paths |-> None]
  /\ box = [p \in Places |-> "absent"]
  /\ sess = {}
  /\ view = CHOOSE v \in Views : TRUE   \* Repoint leads to the others

\* A command fails, or the planner ends, in any stage; it leaves what it did.
Ends(c) ==
  /\ at[c] # "idle" /\ Becomes(c, "idle")
  /\ job' = [job EXCEPT ![c] = NoJob] /\ res' = [res EXCEPT ![c] = NoPlan]
  /\ known' = [known EXCEPT ![c] = None] /\ pick' = [pick EXCEPT ![c] = NoSession]
  /\ UNCHANGED <<asks, worldVars>>

\* The command is given, again or for the first time.
Start(c) ==
  /\ Goes(c, "idle", "resolve")
  /\ \E j \in asks[c] : job' = [job EXCEPT ![c] = j]
  /\ UNCHANGED <<asks, res, known, pick, worldVars>>

\* resolve_launch_profile and the checks on the target (ensure_launch_target_allowed,
\* git_repo_root_as_user): new and create may name a directory yet to be made.
TargetExists(j, p) ==
  /\ j.cmd \notin {"new", "create"} \/ InTree(j) => repo[p].dir
  /\ InTree(j) => repo[p].git # "none"

Resolve(c) ==
  LET j == job[c] IN
  /\ at[c] = "resolve"
  /\ \E r \in Resolutions(j.profile, j.path, j.git) :
       /\ TargetExists(j, r.place)
       /\ res' = [res EXCEPT ![c] = r]
  /\ Becomes(c, AfterResolve(j))
  /\ UNCHANGED <<asks, job, known, pick, worldVars>>

\* mkdir -p.
MakeDirectory(c) ==
  /\ Goes(c, "mkdir", "revalidate")
  /\ Changes(c, "dir", TRUE) /\ KeepsPlan(c)

\* Mutant of SameResolution: the profile is compared, the place is not.
SameProfile(r, s) == r.profile = s.profile

\* revalidate_launch_profile: the same answer, now that the target exists.
SameResolution(r, s) == r = s

\* The answer of the second resolution replaces that of the first.
Revalidate(c) ==
  /\ at[c] = "revalidate"
  /\ \E r \in Resolutions(job[c].profile, job[c].path, job[c].git) :
       SameResolution(r, res[c]) /\ res' = [res EXCEPT ![c] = r]
  /\ Becomes(c, CASE InTree(job[c]) -> "copy"
                  [] MakesRemote(job[c]) -> "hasgit"
                  [] OTHER -> AfterProject(c))
  /\ UNCHANGED <<asks, job, known, pick, worldVars>>
=============================================================================
