-------------------------- MODULE ProjectCreation --------------------------
(***************************************************************************)
(* A repository on the git host for a new project (gitremote/create.py and *)
(* its backends): the local repository is made first, the remote one after *)
(* it, then the two are wired and pushed.  Nothing is taken back when a    *)
(* stage fails.  gh and token ask the same of the host.                    *)
(***************************************************************************)
EXTENDS Planners

\* _has_git_dir: an existing repository is refused.
HasGitDir(c) ==
  /\ Goes(c, "hasgit", "preflight") /\ KeepsPlan(c) /\ UNCHANGED worldVars
  /\ Repo(c).git = "none"

\* The backend's preflight: the name must be free on the host.
Preflight(c) ==
  /\ Goes(c, "preflight", "init") /\ KeepsPlan(c) /\ UNCHANGED worldVars
  /\ remote[job[c].path] = None

\* git init; it accepts a repository that has come to exist.
GitInit(c) ==
  /\ Goes(c, "init", "commit")
  /\ Changes(c, "git", IF Repo(c).git = "none" THEN "empty" ELSE Repo(c).git) /\ KeepsPlan(c)

\* git commit --allow-empty.
GitCommit(c) ==
  /\ Goes(c, "commit", "create")
  /\ Changes(c, "git", "committed") /\ KeepsPlan(c)

\* Mutant of AfterCreate: a name that is taken counts as created.
TakenIsCreated(created) == "wire"

AfterCreate(created) == IF created THEN "wire" ELSE "failed"

\* gh repo create, or the POST of the token backend.  The host refuses a name
\* it has; a client that times out does not learn that it was created.
CreateRemote(c) ==
  LET free == remote[job[c].path] = None IN
  /\ at[c] = "create"
  /\ \E answered \in (IF free THEN BOOLEAN ELSE {TRUE}) :
       Becomes(c, AfterCreate(free /\ answered))
  /\ remote' = [remote EXCEPT ![job[c].path] = IF free THEN c ELSE @]
  /\ KeepsPlan(c) /\ UNCHANGED <<repo, tree, box, sess, view>>

\* git remote add origin: refused when there is one.
AddOrigin(c) ==
  /\ Goes(c, "wire", "push")
  /\ ~Repo(c).origin
  /\ Changes(c, "origin", TRUE) /\ KeepsPlan(c)

\* git push -u origin main.
Push(c) ==
  /\ at[c] = "push" /\ Becomes(c, AfterProject(c))
  /\ Changes(c, "pushed", TRUE) /\ KeepsPlan(c)

CreatesProject(c) ==
  \/ HasGitDir(c) \/ Preflight(c) \/ GitInit(c) \/ GitCommit(c)
  \/ CreateRemote(c) \/ AddOrigin(c) \/ Push(c)

\* Somebody else takes the name.  It matters only once a planner wants it, so
\* it happens only then; Repoint and BoxChanges are put off in the same way.
Wanted == {job[c].path : c \in {d \in Clients : MakesRemote(job[d])}}

OtherCreates(q) ==
  /\ remote[q] = None /\ q \in Wanted
  /\ remote' = [remote EXCEPT ![q] = "other"]
  /\ UNCHANGED <<asks, at, job, res, known, pick, repo, tree, box, sess, view>>
=============================================================================
