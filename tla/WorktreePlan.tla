---------------------------- MODULE WorktreePlan ----------------------------
(***************************************************************************)
(* A linked worktree for a launch (app/launch.py plan_worktree_launch,     *)
(* infra/git.py).  Each stage is a command of its own, and other planners, *)
(* or the user's git, come in between.                                     *)
(***************************************************************************)
EXTENDS Planners

CONSTANT RemoteBase   \* worktree_base = "remote"

Path(c) == TreePath(res[c].place, job[c].branch)
CheckedOut(p, b) == \E w \in TreePaths : tree[w] = [of |-> p, branch |-> b]

\* The path must be free before anything is done.
Gate(c) ==
  /\ Goes(c, "gate", "branch") /\ KeepsPlan(c) /\ UNCHANGED worldVars
  /\ tree[Path(c)] = NoTree

AfterBranch == IF OutOfTree THEN IF RemoteBase THEN "fetch" ELSE "add" ELSE "readexclude"
AfterExclude == IF RemoteBase THEN "fetch" ELSE "add"

\* _branch_exists: which form of git worktree add will be used.
ProbeBranch(c) ==
  /\ Goes(c, "branch", AfterBranch)
  /\ Learns(c, IF job[c].branch \in Repo(c).branches THEN "branch" ELSE "no branch")

\* write_uxon_exclude_entry reads .git/info/exclude; the branch probe's answer
\* stays known.
ReadExclude(c) ==
  /\ Goes(c, "readexclude", IF Repo(c).excluded > 0 THEN AfterExclude ELSE "writeexclude")
  /\ KeepsPlan(c) /\ UNCHANGED worldVars

\* The file becomes what was read, which had no entry, and the entry.
WriteExclude(c) ==
  /\ Goes(c, "writeexclude", AfterExclude)
  /\ Changes(c, "excluded", 1) /\ KeepsPlan(c)

\* git fetch origin.
Fetch(c) ==
  /\ Goes(c, "fetch", "add") /\ KeepsPlan(c) /\ UNCHANGED worldVars
  /\ Repo(c).origin

\* git worktree add: with -b the branch must not exist, and is created before
\* an occupied path is refused; without it the branch must exist and be
\* checked out nowhere.
BranchUsable(c) ==
  IF known[c] = "branch"
  THEN job[c].branch \in Repo(c).branches /\ ~CheckedOut(res[c].place, job[c].branch)
  ELSE job[c].branch \notin Repo(c).branches /\ Repo(c).git = "committed"

AfterAdd(added) == IF added THEN "revalidate" ELSE "failed"

AddWorktree(c) ==
  LET free == tree[Path(c)] = NoTree
      added == free /\ BranchUsable(c)
  IN  /\ Goes(c, "add", AfterAdd(added))
      /\ repo' = [repo EXCEPT ![res[c].place].branches =
                    IF BranchUsable(c) THEN @ \union {job[c].branch} ELSE @]
      /\ tree' = [tree EXCEPT ![Path(c)] =
                    IF added THEN [of |-> res[c].place, branch |-> job[c].branch] ELSE @]
      /\ known' = [known EXCEPT ![c] = None]
      /\ UNCHANGED <<asks, job, res, pick, remote, box, sess, view>>

\* copy_worktreeinclude_matches: its files are not told apart.
CopyIncludes(c) ==
  /\ at[c] = "copy" /\ Becomes(c, RuntimeOr(c, "snapshot"))
  /\ KeepsPlan(c) /\ UNCHANGED worldVars

PlansWorktree(c) ==
  \/ Gate(c) \/ ProbeBranch(c) \/ ReadExclude(c) \/ WriteExclude(c) \/ Fetch(c)
  \/ AddWorktree(c) \/ CopyIncludes(c)

InUse(w) ==
  \/ \E s \in sess : s.root = w
  \/ \E c \in Clients : at[c] \in Prepared \union {"revalidate"} /\ InTree(job[c]) /\ Path(c) = w

\* The user's git worktree remove and git branch -D.
RemovesTree(w) ==
  /\ tree[w] # NoTree /\ ~InUse(w)
  /\ tree' = [tree EXCEPT ![w] = NoTree]
  /\ UNCHANGED <<asks, at, job, res, known, pick, repo, remote, box, sess, view>>

DeletesBranch(p, b) ==
  /\ b \in repo[p].branches /\ ~CheckedOut(p, b)
  /\ repo' = [repo EXCEPT ![p].branches = @ \ {b}]
  /\ UNCHANGED <<asks, at, job, res, known, pick, tree, remote, box, sess, view>>
=============================================================================
