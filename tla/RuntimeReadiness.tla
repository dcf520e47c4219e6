-------------------------- MODULE RuntimeReadiness --------------------------
(***************************************************************************)
(* The workload runtime of a launch outside the TUI's prompt (app/launch.py*)
(* ensure_runtime_ready): probe, act as far as on_missing permits, look for*)
(* the agent.  The resource is the operator's and changes under it.        *)
(***************************************************************************)
EXTENDS Planners

CONSTANT OnMissing   \* "off", "start" or "create"

Box(c) == box[res[c].place]

\* decide_runtime_action.
RuntimeAction(state) ==
  CASE state = "running" -> "exec"
    [] state = "stopped" -> IF OnMissing \in {"start", "create"} THEN "start" ELSE "fail"
    [] state = "absent" -> IF OnMissing = "create" THEN "create" ELSE "fail"

\* plan_runtime; the probes of readiness and of existence are one.
ProbeRuntime(c) ==
  /\ Goes(c, "probe", IF RuntimeAction(Box(c)) = "exec" THEN "agent" ELSE "prepare")
  /\ RuntimeAction(Box(c)) # "fail"
  /\ Learns(c, IF RuntimeAction(Box(c)) = "exec" THEN None ELSE RuntimeAction(Box(c)))

\* run_prepare: the operator's command for the state that was probed, which
\* fails on a resource of another state.
Prepare(c) ==
  /\ Goes(c, "prepare", "agent")
  /\ (known[c] = "create") => Box(c) = "absent"
  /\ (known[c] = "start") => Box(c) # "absent"
  /\ box' = [box EXCEPT ![res[c].place] = "running"]
  /\ known' = [known EXCEPT ![c] = None]
  /\ UNCHANGED <<asks, job, res, pick, repo, tree, remote, sess, view>>

\* probe_agent_in_runtime runs inside the resource.
ProbeAgent(c) ==
  /\ at[c] = "agent" /\ Becomes(c, AfterRuntime(job[c]))
  /\ Box(c) = "running"
  /\ KeepsPlan(c) /\ UNCHANGED worldVars

ReadiesRuntime(c) == ProbeRuntime(c) \/ Prepare(c) \/ ProbeAgent(c)

\* The operator stops or removes the resource.
Awaited == {res[c].place : c \in {d \in Clients : at[d] \in {"probe", "prepare", "agent"}}}

BoxChanges(p) ==
  /\ p \in Awaited
  /\ \/ box[p] = "running" /\ box' = [box EXCEPT ![p] = "stopped"]
     \/ box[p] = "stopped" /\ box' = [box EXCEPT ![p] = "absent"]
  /\ UNCHANGED <<asks, at, job, res, known, pick, repo, tree, remote, sess, view>>
=============================================================================
