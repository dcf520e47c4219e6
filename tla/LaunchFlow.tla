----------------------------- MODULE LaunchFlow -----------------------------
(***************************************************************************)
(* From a key press in the TUI to the terminal handed to a session: the    *)
(* chain of modals and off-loop callbacks of tui/screens/launch_flow.py,   *)
(* the pending launch of tui/app.py, and the outer loop of tui/runner.py   *)
(* that runs it between two app instances.                                 *)
(*                                                                         *)
(* A callback runs in a worker thread while the user goes on: its          *)
(* continuation finds whatever modals and flows there are by then.  A flow *)
(* that waits for a callback shows nothing, so the user may begin another. *)
(***************************************************************************)
EXTENDS Naturals, Sequences, FiniteSets

CONSTANTS MaxFlows,          \* bound: flows begun in one app instance
          MaxProbes,         \* bound: probes of the directory in one instance
          GitCreateEnabled   \* git_create_enabled

ASSUME FlowAssumption ==
  MaxFlows \in Nat /\ MaxProbes \in Nat /\ GitCreateEnabled \in BOOLEAN

VARIABLES
  loop,        \* the outer loop, and the app instance it runs
  quit,        \* quit_rc is set
  pending,     \* pending_launch
  generation,  \* LaunchFlow._generation
  stack,       \* the modals above the main screen, bottom first
  jobs,        \* off-loop callbacks whose continuation has not run
  unready,     \* history: flows whose runtime is not known to be ready
  unasked,     \* history: flows that must not prepare it without consent
  probes,      \* probes of the directory under way, with what they found
  cwd          \* cwd_probe_generation and state.cwd_writable

vars == <<loop, quit, pending, generation, stack, jobs, unready, unasked, probes, cwd>>
flowVars == <<generation, stack, jobs, unready, unasked>>
loopVars == <<loop, quit, pending>>
cwdVars == <<probes, cwd>>

\* A flow: when it was begun, by which row, and what it has come to launch in.
Flows == [gen : 0..MaxFlows, row : {"cwd", "new", "existing", "session"},
          place : {"unknown", "folder", "worktree", "branch", "project"}]
Screens == {"name", "project", "options", "git", "workspace", "branch",
            "choice", "confirm", "other"}
Tasks == {"git_options", "worktrees", "sessions", "gate", "prepare", "commit", "attach"}
NoRequest == [gen |-> 0, row |-> "none", place |-> "unknown"]
NoFlow == [gen |-> 0, row |-> "session", place |-> "unknown"]
Blank == [generation |-> 0, ready |-> FALSE, of |-> 0]

\* An app instance that has just been made.
NewInstance ==
  /\ loop' = "running" /\ quit' = FALSE /\ pending' = NoRequest
  /\ generation' = 0 /\ stack' = <<>> /\ jobs' = {} /\ unready' = {} /\ unasked' = {}
  /\ probes' = {} /\ cwd' = Blank

FlowInit ==
  /\ loop = "running" /\ quit = FALSE /\ pending = NoRequest
  /\ generation = 0 /\ stack = <<>> /\ jobs = {} /\ unready = {} /\ unasked = {}
  /\ probes = {} /\ cwd = Blank

(* The screens.                                                            *)

Alive == loop \in {"running", "closing"}
MainOnTop == stack = <<>>
Top(screen) == stack # <<>> /\ stack[Len(stack)].screen = screen
TopFlow == stack[Len(stack)].flow
Below == SubSeq(stack, 1, Len(stack) - 1)
Shown(screen, flow) == [screen |-> screen, flow |-> flow]
Job(task, flow) == [task |-> task, flow |-> flow]

\* Screens and jobs after a step; nothing else of the flows changes.
Becomes(screens, work) ==
  /\ stack' = screens /\ jobs' = work
  /\ UNCHANGED <<loopVars, generation, unready, unasked, cwdVars>>

\* A row of the main screen begins a flow.
Begin(screen, row) ==
  /\ Alive /\ MainOnTop /\ generation < MaxFlows
  /\ generation' = generation + 1
  /\ stack' = <<Shown(screen, [gen |-> generation + 1, row |-> row, place |-> "unknown"])>>
  /\ UNCHANGED <<loopVars, jobs, unready, unasked, cwdVars>>

LaunchCwd == cwd.ready /\ Begin("options", "cwd")
LaunchNew == Begin("name", "new")
LaunchExisting == Begin("project", "existing")

\* A session row, or a modal outside the flows (settings, a removal).
AttachRow ==
  /\ Alive /\ MainOnTop
  /\ Becomes(stack, jobs \union {Job("attach", NoFlow)})
OpenOther ==
  /\ Alive /\ MainOnTop
  /\ Becomes(<<Shown("other", NoFlow)>>, jobs)

Dismiss ==
  /\ Alive /\ ~MainOnTop
  /\ Becomes(Below, jobs)

EnterName ==
  /\ Alive /\ Top("name")
  /\ Becomes(Append(Below, Shown("options", TopFlow)), jobs)

\* begin_launch_in_folder, a generation of its own after launch_existing's.
PickProject ==
  /\ Alive /\ Top("project") /\ generation < MaxFlows
  /\ generation' = generation + 1
  /\ stack' = Append(Below, Shown("options", [TopFlow EXCEPT !.gen = generation + 1]))
  /\ UNCHANGED <<loopVars, jobs, unready, unasked, cwdVars>>

\* after_opts, in a folder and for a new project.
PickOptions ==
  /\ Alive /\ Top("options")
  /\ LET f == TopFlow
         next == IF f.row # "new" THEN Job("worktrees", f)
                 ELSE Job(IF GitCreateEnabled THEN "git_options" ELSE "sessions",
                          [f EXCEPT !.place = "project"])
     IN  Becomes(Below, IF f.gen = generation THEN jobs \union {next} ELSE jobs)

PickGitProfile ==
  /\ Alive /\ Top("git")
  /\ Becomes(Below, jobs \union {Job("sessions", TopFlow)})

\* dispatch_workspace
PickWorkspace ==
  /\ Alive /\ Top("workspace")
  /\ IF TopFlow.gen # generation THEN Becomes(Below, jobs)
     ELSE \/ \E place \in {"folder", "worktree"} :
               Becomes(Below, jobs \union {Job("sessions", [TopFlow EXCEPT !.place = place])})
          \/ Becomes(Append(Below, Shown("branch", [TopFlow EXCEPT !.place = "branch"])), jobs)

EnterBranch ==
  /\ Alive /\ Top("branch")
  /\ Becomes(Below, jobs \union {Job("commit", TopFlow)})

\* commit_with_runtime_gate, except for a directory that does not exist yet.
NeedsGate(f) == f.place \in {"folder", "worktree"}

OnNew(f) == Job(IF NeedsGate(f) THEN "gate" ELSE "commit", f)

\* SessionChoiceScreen: attach to what is there, or start alongside it.
PickSession ==
  /\ Alive /\ Top("choice")
  /\ \/ Becomes(Below, jobs \union {Job("attach", TopFlow)})
     \/ /\ stack' = Below /\ jobs' = jobs \union {OnNew(TopFlow)}
        /\ unready' = IF NeedsGate(TopFlow) THEN unready \union {TopFlow} ELSE unready
        /\ UNCHANGED <<loopVars, generation, unasked, cwdVars>>

\* The prompt of a runtime that is to be started or created.
Consent ==
  /\ Alive /\ Top("confirm")
  /\ stack' = Below /\ jobs' = jobs \union {Job("prepare", TopFlow)}
  /\ unasked' = unasked \ {TopFlow}
  /\ UNCHANGED <<loopVars, generation, unready, cwdVars>>

(* The continuations of the callbacks: on__off_loop_callback_done.         *)

Ends(task) == {j \in jobs : j.task = task}

\* on_error of any of them is a toast.
CallbackFails ==
  /\ Alive
  /\ \E j \in jobs : Becomes(stack, jobs \ {j})

\* Mutant of Superseded: a later flow is not noticed.
SupersededByModal(f) == ~MainOnTop

\* after_probe drops the answer for a flow that is not the last one begun,
\* or when anything covers the main screen.
Superseded(f) == f.gen # generation \/ ~MainOnTop

WorktreesProbed ==
  /\ Alive
  /\ \E j \in Ends("worktrees") :
       IF Superseded(j.flow) THEN Becomes(stack, jobs \ {j})
       ELSE \/ Becomes(Append(stack, Shown("workspace", j.flow)), jobs \ {j})
            \/ Becomes(stack, (jobs \ {j})
                                \union {Job("sessions", [j.flow EXCEPT !.place = "folder"])})

GitOptionsProbed ==
  /\ Alive
  /\ \E j \in Ends("git_options") :
       \/ Becomes(Append(stack, Shown("git", j.flow)), jobs \ {j})
       \/ Becomes(stack, (jobs \ {j}) \union {Job("sessions", j.flow)})

\* on_probed of maybe_show_session_choice
SessionsProbed ==
  /\ Alive
  /\ \E j \in Ends("sessions") :
       \/ Becomes(Append(stack, Shown("choice", j.flow)), jobs \ {j})
       \/ /\ jobs' = (jobs \ {j}) \union {OnNew(j.flow)}
          /\ unready' = IF NeedsGate(j.flow) THEN unready \union {j.flow} ELSE unready
          /\ UNCHANGED <<loopVars, generation, stack, unasked, cwdVars>>

\* The answers of on_runtime_gate: no runtime or one that runs; one outside
\* the policy; one to prepare, with a prompt or without.
GateAnswers == {"ready", "outside_policy", "prompt", "automatic"}

\* Mutant of AfterGate: an answer that is not a prompt is taken for consent.
AfterGateLeniently(answer, f) ==
  [screens |-> IF answer = "prompt" THEN Append(stack, Shown("confirm", f)) ELSE stack,
   work |-> IF answer = "automatic" THEN {Job("prepare", f)}
            ELSE IF answer = "prompt" THEN {} ELSE {Job("commit", f)}]

\* Mutant of AfterGate: the prompt is shown and the preparation begun.
AfterGateTwice(answer, f) ==
  [screens |-> IF answer = "prompt" THEN Append(stack, Shown("confirm", f)) ELSE stack,
   work |-> {Job(IF answer = "ready" THEN "commit" ELSE "prepare", f)}]

\* on_gate
AfterGate(answer, f) ==
  [screens |-> IF answer = "prompt" THEN Append(stack, Shown("confirm", f)) ELSE stack,
   work |-> IF answer = "ready" THEN {Job("commit", f)}
            ELSE IF answer = "automatic" THEN {Job("prepare", f)} ELSE {}]

GateProbed ==
  /\ Alive
  /\ \E j \in Ends("gate"), answer \in GateAnswers :
       \E next \in {AfterGate(answer, j.flow)} :
         /\ stack' = next.screens
         /\ jobs' = (jobs \ {j}) \union next.work
         /\ unready' = IF answer = "ready" THEN unready \ {j.flow} ELSE unready
         /\ unasked' = IF answer = "prompt" THEN unasked \union {j.flow} ELSE unasked
  /\ UNCHANGED <<loopVars, generation, cwdVars>>

RuntimePrepared ==
  /\ Alive
  /\ \E j \in Ends("prepare") :
       /\ jobs' = (jobs \ {j}) \union {Job("commit", j.flow)}
       /\ unready' = unready \ {j.flow}
  /\ UNCHANGED <<loopVars, generation, stack, unasked, cwdVars>>

\* Mutant of MayRequest: the last request wins.
MayRequestAgain == TRUE

\* request_launch, the continuation of a commit and of an attach.
MayRequest == pending = NoRequest
Planned ==
  /\ Alive
  /\ \E j \in Ends("commit") \union Ends("attach") :
       /\ jobs' = jobs \ {j}
       /\ IF MayRequest
          THEN /\ pending' = j.flow
               /\ stack' = <<>>             \* pop_until_main
               /\ loop' = "closing"
          ELSE UNCHANGED <<pending, stack, loop>>
  /\ UNCHANGED <<quit, generation, unready, unasked, cwdVars>>

(* The directory the TUI was started in.                                   *)

\* kick_cwd_writable: on mount, on a manual refresh, and when a rebuilt
\* context changes the directory or who would launch in it.
KickCwd ==
  /\ Alive /\ cwd.generation < MaxProbes
  /\ cwd' = [Blank EXCEPT !.generation = cwd.generation + 1]
  /\ probes' = probes \union {[generation |-> cwd.generation + 1, found |-> "nothing"]}
  /\ UNCHANGED <<loopVars, flowVars>>

ProbeAnswers ==
  /\ Alive
  /\ \E p \in probes, found \in {"yes", "no"} :
       /\ p.found = "nothing"
       /\ probes' = (probes \ {p}) \union {[p EXCEPT !.found = found]}
  /\ UNCHANGED <<loopVars, flowVars, cwd>>

\* Mutant of Current: any answer counts.
CurrentAnyway(p) == TRUE

\* on__cwd_writable_updated
Current(p) == p.generation = cwd.generation
CwdUpdated ==
  /\ Alive
  /\ \E p \in probes :
       /\ p.found # "nothing"
       /\ probes' = probes \ {p}
       /\ cwd' = IF Current(p)
                 THEN [cwd EXCEPT !.ready = (p.found = "yes"), !.of = p.generation] ELSE cwd
  /\ UNCHANGED <<loopVars, flowVars>>

(* The outer loop.                                                         *)

\* action_quit, and the watcher of a terminal that has gone.
Quit ==
  /\ Alive /\ MainOnTop
  /\ quit' = TRUE /\ loop' = "closing"
  /\ UNCHANGED <<pending, flowVars, cwdVars>>
TerminalGone ==
  /\ loop = "running"
  /\ loop' = "closing"
  /\ UNCHANGED <<quit, pending, flowVars, cwdVars>>

\* The app is unmounted; run() looks at what it left.  Callbacks that are
\* still under way have lost their continuation.
Unmount ==
  /\ loop = "closing"
  /\ loop' = IF quit \/ pending = NoRequest THEN "ended" ELSE "handed_off"
  /\ UNCHANGED <<quit, pending, flowVars, cwdVars>>

\* run_launch_request ends, and a failure waits for Enter; or it raises.
LaunchEnds ==
  /\ loop = "handed_off"
  /\ loop' \in {"refreshing", "paused", "ended"}
  /\ UNCHANGED <<quit, pending, flowVars, cwdVars>>
EnterPressed ==
  /\ loop = "paused"
  /\ loop' = "refreshing"
  /\ UNCHANGED <<quit, pending, flowVars, cwdVars>>
Reopen == loop = "refreshing" /\ NewInstance

UserStep ==
  \/ LaunchCwd \/ LaunchNew \/ LaunchExisting \/ AttachRow \/ OpenOther \/ Dismiss
  \/ EnterName \/ PickProject \/ PickOptions \/ PickGitProfile \/ PickWorkspace
  \/ EnterBranch \/ PickSession \/ Consent \/ Quit \/ EnterPressed
Continuation ==
  \/ CallbackFails \/ WorktreesProbed \/ GitOptionsProbed \/ SessionsProbed
  \/ GateProbed \/ RuntimePrepared \/ Planned
CwdStep == KickCwd \/ ProbeAnswers \/ CwdUpdated
LoopStep == TerminalGone \/ Unmount \/ LaunchEnds \/ Reopen

FlowNext == UserStep \/ Continuation \/ CwdStep \/ LoopStep

\* The app closes once it is asked to, and the loop goes on; the user may
\* do nothing, except that a session is left some day.
FlowSpec ==
  /\ FlowInit /\ [][FlowNext]_vars
  /\ WF_vars(Unmount) /\ WF_vars(LaunchEnds) /\ WF_vars(Reopen) /\ WF_vars(Continuation)

(* Correctness.                                                            *)

\* A choice of workspaces, and the branch of a new worktree, is asked only of
\* the flow the user began last and straight above the main screen, whatever
\* probes of abandoned flows answer late: a worktree is never created in the
\* repository of a flow the user has left.
WorkspaceOfCurrentFlow ==
  \A i \in DOMAIN stack : stack[i].screen \in {"workspace", "branch"} =>
    i = 1 /\ stack[i].flow.gen = generation

\* Nothing is launched in an existing directory before its workload runtime
\* has said it is ready or has been prepared, and one that asks for approval
\* is prepared only after the user's yes, across the callbacks in between.
RuntimeGated ==
  /\ \A j \in jobs : j.task = "commit" => j.flow \notin unready
  /\ \A j \in jobs : j.task = "prepare" => j.flow \notin unasked

\* A flow is in one place: one modal or one callback.  So one choice of the
\* user never leads to two launches, or to a launch and a prompt.
InFlow(g) ==
  Cardinality({i \in DOMAIN stack : stack[i].flow.gen = g})
    + Cardinality({j \in jobs : j.flow.gen = g})
OneStepPerFlow == \A g \in 1..MaxFlows : InFlow(g) <= 1

\* The row that launches in the TUI's directory is enabled only by a probe of
\* what the directory and the profiles are now, in whatever order the probes
\* that overlap answer.
CwdReadyIsCurrent == cwd.ready => cwd.of = cwd.generation

\* Who has been promised a session gets it: the first launch requested of an
\* app instance is the one that its loop hands the terminal to, unless the
\* user quits first, although plans of other flows come back, the terminal's
\* watcher fires and the app shuts down meanwhile (request_launch, run).
RequestReachesTerminal ==
  \A g \in 0..MaxFlows :
    Alive /\ pending # NoRequest /\ pending.gen = g
      ~> quit \/ (loop = "handed_off" /\ pending.gen = g)

(* What makes these inductive.                                               *)

FlowTypeOK ==
  /\ generation \in 0..MaxFlows
  /\ stack \in Seq([screen : Screens, flow : Flows])
  /\ jobs \subseteq [task : Tasks, flow : Flows]
  /\ unready \subseteq Flows /\ unasked \subseteq Flows
  /\ cwd \in [generation : Nat, ready : BOOLEAN, of : Nat]

\* Every modal of a flow and every callback belongs to a flow that has begun.
Begun ==
  /\ \A i \in DOMAIN stack :
       /\ stack[i].flow.gen <= generation
       /\ stack[i].screen # "other" => stack[i].flow.gen # 0
  /\ \A j \in jobs :
       j.flow.gen <= generation /\ (j.task # "attach" => j.flow.gen # 0)
  /\ \A u \in unasked : u.gen # 0 /\ u.gen <= generation

\* A flow's first questions are asked straight above the main screen; only
\* those of a session, a git profile or a prompt may cover them.
Bottoms ==
  \A i \in DOMAIN stack :
    stack[i].screen \notin {"git", "choice", "confirm"} => i = 1

\* One modal or one callback of each flow.
Apart ==
  /\ \A i, k \in DOMAIN stack :
       stack[i].flow.gen = stack[k].flow.gen /\ stack[i].flow.gen # 0 => i = k
  /\ \A j, k \in jobs : j.flow.gen = k.flow.gen /\ j.flow.gen # 0 => j = k
  /\ \A i \in DOMAIN stack, j \in jobs :
       stack[i].flow.gen = j.flow.gen => j.flow.gen = 0

\* A flow is unasked while its prompt is up, or when it was dismissed; one
\* that never needs a runtime is never unready.
Gated ==
  /\ \A u \in unready : NeedsGate(u)
  /\ \A i \in DOMAIN stack : stack[i].screen = "branch" => ~NeedsGate(stack[i].flow)
  /\ \A j \in jobs : j.task = "commit" => j.flow \notin unready
  /\ \A u \in unasked, j \in jobs : j.flow.gen # u.gen
  /\ \A u \in unasked : \A i \in DOMAIN stack :
       stack[i].flow.gen = u.gen => stack[i] = Shown("confirm", u)

FlowInv ==
  /\ FlowTypeOK /\ Begun /\ Bottoms /\ Apart /\ Gated
  /\ WorkspaceOfCurrentFlow /\ CwdReadyIsCurrent

=============================================================================
