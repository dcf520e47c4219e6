--------------------------- MODULE LaunchPlanning ---------------------------
(***************************************************************************)
(* Planning a launch from the command to the terminal: uxon run, uxon new, *)
(* both with -w, and the TUI's create and open.  Session names are chosen  *)
(* from a listing, and by the time they are used the listing is old.       *)
(***************************************************************************)
EXTENDS ProjectCreation, WorktreePlan, RuntimeReadiness, FiniteSetsExt

CONSTANT MaxSessions   \* how many sessions there ever are

\* A session is known by its id; its name is its stem, its profile and an
\* index.  It is "pending" until its launch record is verified.
Mine(c) == {s \in sess : s.user = res[c].user}
Named(c, i) == {s \in Mine(c) : s.stem = Stem(c) /\ s.profile = res[c].profile /\ s.index = i}
Stemmed(c) == {s \in Mine(c) : s.stem = Stem(c) /\ s.profile = res[c].profile}

\* session_path_compatible: a directory, or a worktree in its tree.
Under(root, top) == root = top \/ (Len(top) = 1 /\ Len(root) = 2 /\ root[1] = top[1])

\* compatible_indexed_sessions: a verified session of the name elsewhere is a
\* conflict; one that has ended in its pane is not offered.
Verified(s) == s.state # "pending"
Conflicting(c) == \E s \in Stemmed(c) : Verified(s) /\ ~Under(s.root, Root(c))
Compatible(c) == {s \in Stemmed(c) : s.state = "live"}

\* choose_attach_session.
AttachTarget(c) == CHOOSE s \in Compatible(c) : \A t \in Compatible(c) : s.index <= t.index

\* allocate_session_name: the least free index, and no conflict below it.
FreeIndex(c) == Min({i \in 1..(Cardinality(sess) + 1) : Named(c, i) = {}})
AllocationConflicts(c) ==
  \E i \in 1..(FreeIndex(c) - 1) : \E s \in Named(c, i) : ~Under(s.root, Root(c))

NewName(c, next) ==
  /\ ~AllocationConflicts(c)
  /\ pick' = [pick EXCEPT ![c] = [id |-> 0, stem |-> Stem(c), index |-> FreeIndex(c)]]
  /\ Becomes(c, next)

ToAttach(c) == pick' = [pick EXCEPT ![c] = AttachTarget(c)] /\ Becomes(c, "attach")

\* new -w asks before it makes the worktree; the answer "new" goes on.
Compare(c) ==
  /\ at[c] = "compat" /\ ~Conflicting(c)
  /\ \/ Compatible(c) # {} /\ ToAttach(c)
     \/ Becomes(c, "gate") /\ UNCHANGED pick
  /\ UNCHANGED <<asks, job, res, known, worldVars>>

\* One listing serves the decision and the name.  new may attach; create and
\* open only refuse a conflict; run and worktrees only allocate.
Snapshot(c) ==
  /\ at[c] = "snapshot"
  /\ InTree(job[c]) \/ job[c].cmd = "run" \/ ~Conflicting(c)
  /\ \/ ~InTree(job[c]) /\ job[c].cmd = "new" /\ Compatible(c) # {} /\ ToAttach(c)
     \/ NewName(c, AfterSnapshot(c))
  /\ UNCHANGED <<asks, job, res, known, worldVars>>

Ids == {s.id : s \in sess} \union {pick[c].id : c \in Clients}
NewId == Min(1..(Cardinality(Ids) + 1) \ Ids)

\* new-session: tmux refuses a name it has.  The launch handshake that follows
\* is SessionLifecycle's.
Launch(c) ==
  /\ at[c] = "launch" /\ Named(c, pick[c].index) = {}
  /\ NewId <= MaxSessions
  /\ LET s == [id |-> NewId, user |-> res[c].user, stem |-> pick[c].stem, profile |-> res[c].profile,
               index |-> pick[c].index, root |-> Root(c), state |-> "pending"]
     IN  sess' = sess \union {s} /\ pick' = [pick EXCEPT ![c] = s]
  /\ Becomes(c, "handshake")
  /\ UNCHANGED <<asks, job, res, known, repo, tree, remote, box, view>>

InState(s, state) == [s EXCEPT !.state = state]

\* The record is finalized and the agent released.
Handshake(c) ==
  /\ at[c] = "handshake" /\ pick[c] \in sess
  /\ sess' = (sess \ {pick[c]}) \union {InState(pick[c], "live")}
  /\ Becomes(c, "done")
  /\ KeepsPlan(c) /\ UNCHANGED <<repo, tree, remote, box, view>>

\* Mutant of Reaches: the session of the captured name is entered.
ReachesByName(captured, s) ==
  s.user = captured.user /\ s.stem = captured.stem /\ s.index = captured.index

\* attach_session enters what it captured, or fails.
Reaches(captured, s) == s.id = captured.id

Attach(c) ==
  /\ at[c] = "attach"
  /\ \E s \in sess : Reaches(pick[c], s) /\ pick' = [pick EXCEPT ![c] = s]
  /\ Becomes(c, "done")
  /\ UNCHANGED <<asks, job, res, known, worldVars>>

Decides(c) == Compare(c) \/ Snapshot(c) \/ Launch(c) \/ Handshake(c) \/ Attach(c)

\* Agents end and leave their screen, or go with it.
SessionChanges(s) ==
  /\ \/ s.state = "live" /\ sess' = (sess \ {s}) \union {InState(s, "exited")}
     \/ sess' = sess \ {s}
  /\ UNCHANGED <<asks, at, job, res, known, pick, repo, tree, remote, box, view>>

\* A link, or a mount, comes to lead elsewhere for a user.
Looking(q) ==
  {u \in Users : \E c \in Clients :
     /\ at[c] \in {"resolve", "revalidate"} /\ job[c].path = q
     /\ job[c].profile # None => u = UserOf(job[c].profile)}

Repoint(u, q) ==
  /\ u \in Looking(q)
  /\ \E p \in LeadsTo[u][q] \ {view[u][q]} : view' = [view EXCEPT ![u][q] = p]
  /\ UNCHANGED <<asks, at, job, res, known, pick, repo, tree, remote, box, sess>>

Plans(c) ==
  \/ Start(c) \/ Resolve(c) \/ MakeDirectory(c) \/ Revalidate(c) \/ Ends(c)
  \/ CreatesProject(c) \/ PlansWorktree(c) \/ ReadiesRuntime(c) \/ Decides(c)

Environment ==
  \/ \E q \in Paths : OtherCreates(q)
  \/ \E w \in TreePaths : RemovesTree(w)
  \/ \E p \in Places, b \in Branches : DeletesBranch(p, b)
  \/ \E p \in Places : BoxChanges(p)
  \/ \E s \in sess : SessionChanges(s)
  \/ \E q \in Paths : \E u \in Users : Repoint(u, q)

Next == (\E c \in Clients : Plans(c)) \/ Environment
Spec == PlannersInit /\ [][Next]_planVars

(* Properties.                                                             *)

\* plan_worktree_launch, revalidate_launch_profile, write_uxon_exclude_entry:
\* from git worktree add to the launch a planner's directory is a worktree of
\* its repository with its branch, whatever other planners, whose branches may
\* share the path, have done since it looked; and no repository shows its
\* worktrees as untracked, or lists the entry twice.
WorktreeReady ==
  /\ \A c \in Clients : InTree(job[c]) /\ at[c] \in Prepared \union {"revalidate"} =>
       tree[Path(c)] = [of |-> res[c].place, branch |-> job[c].branch]
  /\ \A p \in Places : repo[p].excluded <= 1
  /\ OutOfTree \/ \A w \in TreePaths : tree[w] # NoTree => repo[tree[w].of].excluded = 1

\* create_project_remote: a planner that goes on from the creation of a
\* repository has created it itself and has committed, wired and pushed; it
\* never wires a project to a repository somebody else made.
CreatedIsWhole ==
  \A c \in Clients : MakesRemote(job[c]) =>
    /\ at[c] \in {"wire", "push"} => remote[job[c].path] = c
    /\ at[c] \in (Prepared \ {"copy"}) \union {"attach", "done"} =>
         /\ remote[job[c].path] = c
         /\ Repo(c).git = "committed" /\ Repo(c).origin /\ Repo(c).pushed

\* choose_attach_session, allocate_session_name, attach_session: the session
\* the terminal ends in is of the planner's own user and profile and in the
\* planner's own directory, however old the listing it was chosen from.
EntersItsOwn ==
  \A c \in Clients : at[c] = "done" =>
    /\ pick[c].user = res[c].user /\ pick[c].profile = res[c].profile
    /\ Under(pick[c].root, Root(c))

\* resolve_launch_profile: a profile is settled on only where the rule of the
\* place its own user sees permits it, and its git profile with it.
Authorized(j, r) ==
  /\ r.user = UserOf(r.profile) /\ r.place = view[r.user][j.path]
  /\ Permitted(r.profile, r.place)
  /\ r.git # None => r.git \in GitAllowed(r.profile, r.place)

SettlesAuthorized ==
  [][\A c \in Clients : res'[c] \notin {res[c], NoPlan} => Authorized(job[c], res'[c])]_planVars

-----------------------------------------------------------------------------
(* Why: a planner is in a stage of what it was asked for, no stage undoes    *)
(* what an earlier one relies on, and an id names one session for ever.      *)

TreeStages == {"compat", "gate", "branch", "readexclude", "writeexclude", "fetch", "add", "copy"}
RemoteStages == {"hasgit", "preflight", "init", "commit", "create", "wire", "push"}
Planned(c) == at[c] \notin {"idle", "resolve"}

Repositories ==
  [dir : BOOLEAN, git : {"none", "empty", "committed"}, branches : SUBSET Branches,
   excluded : {0, 1}, origin : BOOLEAN, pushed : BOOLEAN]

PlanTypes ==
  /\ asks \in Commands /\ view \in Views
  /\ repo \in [Places -> Repositories]
  /\ tree \in [TreePaths -> [of : Places, branch : Branches] \union {NoTree}]
  /\ DOMAIN remote = Paths
  /\ at = [c \in Clients |-> at[c]] /\ job = [c \in Clients |-> job[c]]
  /\ res = [c \in Clients |-> res[c]] /\ known = [c \in Clients |-> known[c]]
  /\ pick = [c \in Clients |-> pick[c]]

StagesFit == \A c \in Clients :
  /\ at[c] = "idle" => job[c] = NoJob
  /\ at[c] # "idle" => job[c] \in asks[c]
  /\ Planned(c) => res[c].place \in Places
  /\ at[c] \in TreeStages => InTree(job[c])
  /\ at[c] \in RemoteStages => MakesRemote(job[c])
  /\ at[c] = "mkdir" => ~InTree(job[c])

ExcludedFirst ==
  OutOfTree \/ \A c \in Clients : at[c] \in {"fetch", "add"} => Repo(c).excluded = 1

CreationProgress == \A c \in Clients :
  /\ at[c] \in {"create", "wire", "push"} => Repo(c).git = "committed"
  /\ at[c] = "push" => Repo(c).origin

Matches(s, c) == s.user = res[c].user /\ s.profile = res[c].profile /\ Under(s.root, Root(c))
SameSession(s, t) == s.user = t.user /\ s.profile = t.profile /\ s.root = t.root

NamePicked(c) ==
  \/ at[c] = "launch"
  \/ at[c] \in {"probe", "prepare", "agent"} /\ AfterRuntime(job[c]) = "launch"

SessionsKnown ==
  /\ IsFiniteSet(sess)
  /\ \A s \in sess :
       /\ s = [id |-> s.id, user |-> s.user, stem |-> s.stem, profile |-> s.profile, index |-> s.index,
               root |-> s.root, state |-> s.state]
       /\ s.id \in Nat \ {0} /\ s.index \in Nat
       /\ \A t \in sess : s.id = t.id => s = t
  /\ \A c \in Clients :
       /\ pick[c].id \in Nat
       /\ \A s \in sess : s.id = pick[c].id => SameSession(s, pick[c])
       /\ NamePicked(c) => pick[c].index \in Nat
       /\ at[c] \in {"attach", "handshake", "done"} => Matches(pick[c], c)

PlanInv ==
  /\ PlanTypes /\ StagesFit /\ ExcludedFirst /\ WorktreeReady
  /\ CreationProgress /\ CreatedIsWhole /\ SessionsKnown
=============================================================================
