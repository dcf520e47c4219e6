---------------------------- MODULE ConfigParts ----------------------------
(***************************************************************************)
(* The structured tables of the operator's configuration: agents, the      *)
(* execution backends, git-remote profiles, workload runtimes, launch      *)
(* profiles with their path rules, and remote hosts.  PartsOK is what the  *)
(* loader accepts (config_loader.py and the validators it calls); Usable is*)
(* what the commands take for granted of a configuration that has loaded.  *)
(*                                                                         *)
(* A table that holds an unknown key, a value of another type than the     *)
(* schema asks for, or an id that is not tmux-safe, is not wellFormed.     *)
(***************************************************************************)
EXTENDS Naturals, Sequences

None == "none"
Names(s) == {s[i] : i \in DOMAIN s}
Distinct(s) == \A i, j \in DOMAIN s : s[i] = s[j] => i = j

-----------------------------------------------------------------------------
(* Agents: id -> [wellFormed, own, modes]; own tells whether the table      *)
(* lists modes, which then replace those that are shipped.                  *)

Shipped == {"claude", "codex", "cursor"}
ShippedModes(a) == IF a = "cursor" THEN <<"normal", "yolo">> ELSE <<"normal", "auto", "yolo">>

Catalog(p) == Shipped \union DOMAIN p.agents
Modes(p, a) == IF a \in DOMAIN p.agents /\ p.agents[a].own THEN p.agents[a].modes
               ELSE ShippedModes(a)

AgentOK(p, a) ==
  /\ p.agents[a].wellFormed
  /\ p.agents[a].own \/ a \in Shipped
  /\ p.agents[a].own => p.agents[a].modes # <<>> /\ Distinct(p.agents[a].modes)

-----------------------------------------------------------------------------
(* Execution: [default, byUser, backends], a backend being [wellFormed,     *)
(* kind, program, users, timeout, leads]: the first word of its command     *)
(* prefix, how often the prefix names the user, and where it leads.         *)

Backends(p) == {"local"} \union DOMAIN p.execution.backends

BackendOK(b) ==
  /\ b.wellFormed /\ b.kind = "command"
  /\ b.program = "absolute" /\ b.users = 1
  /\ b.timeout > 0

ExecutionOK(p) ==
  /\ "local" \notin DOMAIN p.execution.backends
  /\ \A b \in DOMAIN p.execution.backends : BackendOK(p.execution.backends[b])
  /\ p.execution.default \in Backends(p)
  /\ "" \notin DOMAIN p.execution.byUser
  /\ \A u \in DOMAIN p.execution.byUser : p.execution.byUser[u] \in Backends(p)

\* backend_for_user, on which every command that acts for a user relies.
BackendFor(p, u) ==
  IF u \in DOMAIN p.execution.byUser THEN p.execution.byUser[u] ELSE p.execution.default

Local == [kind |-> "local", leads |-> "host"]
BackendSpec(p, b) == IF b = "local" THEN Local ELSE p.execution.backends[b]

\* ExecutionBackendSpec.fingerprint: its id, its prefix and its probe timeout.
Fingerprint(p, u) == <<BackendFor(p, u), BackendSpec(p, BackendFor(p, u))>>

-----------------------------------------------------------------------------
(* Git-remote profiles and remote hosts, each a sequence of tables with a   *)
(* name.                                                                    *)

GitNames(p) == {p.gits[i].name : i \in DOMAIN p.gits}

GitOK(g) ==
  /\ g.wellFormed
  /\ g.auth \in {"gh", "token"} /\ (g.tokenFile <=> g.auth = "token")
  /\ g.visibility \in {"private", "public"}

HostPlaceholders == {"ssh_alias", "remote_uxon", "connect_timeout", "ssh_control_dir",
                     "remote_command", "ssh_control_persist_seconds"}

\* template holds the placeholders of command_template, if there is one.
HostOK(h) ==
  /\ h.wellFormed
  /\ h.template \subseteq HostPlaceholders
  /\ ~({"remote_command", "remote_uxon"} \subseteq h.template)
  /\ \A d \in DOMAIN h.durations : h.durations[d] > 0

Named(s) == Distinct([i \in DOMAIN s |-> s[i].name])

-----------------------------------------------------------------------------
(* Workload runtimes: id -> [wellFormed, kind, scope, onMissing, approval,  *)
(* telemetry, timeouts, templates, mapped].  templates gives, for the name  *)
(* and for every command that is configured, the placeholders it holds;     *)
(* mapped tells whether the path map consists of clean absolute paths.      *)

Runtimes(p) == {"direct"} \union DOMAIN p.runtimes

Common == {"user", "launch_profile", "runtime", "agent", "project_slug"}
Placeholders(field) ==
  Common \union (CASE field = "name" -> {}
                   [] field = "stop" -> {"resource", "pidfile"}
                   [] OTHER -> {"resource", "runtime_dir"})

RuntimeOK(r) ==
  /\ r.wellFormed /\ r.kind = "command" /\ r.mapped
  /\ r.scope \in {"global", "per_user"} /\ {"name", "exec"} \subseteq DOMAIN r.templates
  /\ r.onMissing \in {"fail", "start", "create"}
  /\ r.approval \in {"prompt", "auto"} /\ r.telemetry \in {"none", "cgroup"}
  /\ "stop" \in DOMAIN r.templates => "identity" \in DOMAIN r.templates
  /\ r.onMissing \in {"start", "create"} => {"ready", "exists", "start"} \subseteq DOMAIN r.templates
  /\ r.onMissing = "create" => "create" \in DOMAIN r.templates
  /\ \A t \in DOMAIN r.timeouts : r.timeouts[t] > 0
  /\ \A f \in DOMAIN r.templates : r.templates[f] \subseteq Placeholders(f)

\* Mutant of RuntimesOK: on_missing = "create" asks for no create_command.
RuntimesUnchecked(p) ==
  /\ "direct" \notin DOMAIN p.runtimes
  /\ \A i \in DOMAIN p.runtimes : p.runtimes[i].onMissing # "create" => RuntimeOK(p.runtimes[i])

RuntimesOK(p) ==
  "direct" \notin DOMAIN p.runtimes /\ \A i \in DOMAIN p.runtimes : RuntimeOK(p.runtimes[i])

\* plan_runtime: what the probes that are configured say of a resource, and
\* decide_runtime_action on their answer.
SeenRunning(r, state) == "ready" \in DOMAIN r.templates /\ state = "running"
SeenThere(r, state) ==
  SeenRunning(r, state) \/ ("exists" \in DOMAIN r.templates /\ state # "absent")
ReadinessAction(r, state) ==
  CASE SeenRunning(r, state) -> "exec"
    [] ~SeenRunning(r, state) /\ SeenThere(r, state) ->
         IF r.onMissing \in {"start", "create"} THEN "start" ELSE "fail"
    [] ~SeenThere(r, state) -> IF r.onMissing = "create" THEN "create" ELSE "fail"

-----------------------------------------------------------------------------
(* Launch: [enabled, default, profiles, rules], a profile being             *)
(* [wellFormed, agent, user, runtime, git] and a rule [wellFormed, prefix,  *)
(* allowed, default, git]; the git policy of a rule narrows the profile's   *)
(* only if it lists names.                                                  *)

NoGit == [allowed |-> {}, default |-> None]
AutoMode(p) == p.launch.enabled = <<>>
Enabled(p) == IF AutoMode(p) THEN <<"claude", "codex", "cursor">> ELSE p.launch.enabled
Profiles(p) == Shipped \union DOMAIN p.launch.profiles
Profile(p, f) ==
  IF f \in DOMAIN p.launch.profiles THEN p.launch.profiles[f]
  ELSE [wellFormed |-> TRUE, agent |-> f, user |-> None, runtime |-> "direct", git |-> NoGit]

ProfileOK(p, f) ==
  LET l == p.launch.profiles[f]
  IN  /\ l.wellFormed
      /\ AutoMode(p) => f \notin Shipped
      /\ l.agent \in Catalog(p) /\ l.runtime \in Runtimes(p)
      /\ l.git.default \in l.git.allowed \union {None} /\ l.git.allowed \subseteq GitNames(p)

\* The git-remote policy of a profile where a rule governs.
AllowedUnder(p, r, f) ==
  IF r.git.narrows THEN Profile(p, f).git.allowed \intersect r.git.allowed
  ELSE Profile(p, f).git.allowed
WantedUnder(p, r, f) ==
  IF r.git.default # None THEN r.git.default ELSE Profile(p, f).git.default

RuleOK(p, r) ==
  /\ r.wellFormed /\ r.prefix = "absolute"
  /\ Names(r.allowed) # {} /\ Names(r.allowed) \subseteq Names(Enabled(p))
  /\ r.default \in Names(r.allowed) \union {None}
  /\ r.git.narrows => r.git.allowed \subseteq GitNames(p)
  /\ r.git.default \in GitNames(p) \union {None}
  /\ \A f \in Names(r.allowed) : WantedUnder(p, r, f) \in AllowedUnder(p, r, f) \union {None}

LaunchOK(p) ==
  /\ \A f \in DOMAIN p.launch.profiles : ProfileOK(p, f)
  /\ Names(p.launch.enabled) \subseteq Profiles(p)
  /\ p.launch.default \in Names(Enabled(p)) \union {None}
  /\ \A i \in DOMAIN p.launch.rules : RuleOK(p, p.launch.rules[i])

-----------------------------------------------------------------------------
PartsOK(p) ==
  /\ \A a \in DOMAIN p.agents : AgentOK(p, a)
  /\ ExecutionOK(p)
  /\ Named(p.gits) /\ \A i \in DOMAIN p.gits : GitOK(p.gits[i])
  /\ RuntimesOK(p)
  /\ LaunchOK(p)
  /\ Named(p.hosts) /\ \A i \in DOMAIN p.hosts : HostOK(p.hosts[i])

(* What the commands take for granted.                                      *)

\* Every user's commands go through a backend that is there.
BackendsFound(p, users) == \A u \in users : BackendFor(p, u) \in Backends(p)

\* Every enabled profile has an agent with a default mode, and its runtime.
ProfilesComplete(p) == \A f \in Names(Enabled(p)) :
  /\ Profile(p, f).agent \in Catalog(p) /\ Modes(p, Profile(p, f).agent) # <<>>
  /\ Profile(p, f).runtime \in Runtimes(p)

\* Whatever state a runtime's resource is in, the action chosen is the one for
\* that state and its command is configured; one that can be stopped can be
\* told from another of its name.
RuntimesActRightly(p) == \A i \in DOMAIN p.runtimes :
  LET r == p.runtimes[i]
  IN  /\ \A state \in {"running", "stopped", "absent"} :
           /\ ReadinessAction(r, state) # "fail" => ReadinessAction(r, state) \in DOMAIN r.templates
           /\ ReadinessAction(r, state) = "create" => state = "absent"
           /\ ReadinessAction(r, state) = "start" => state = "stopped"
      /\ "stop" \in DOMAIN r.templates => "identity" \in DOMAIN r.templates

\* Under every rule some profile may be launched, and a default there is one
\* the rule allows.
RulesServe(p) == \A i \in DOMAIN p.launch.rules :
  LET r == p.launch.rules[i]
  IN  /\ Names(r.allowed) # {} /\ Names(r.allowed) \subseteq Profiles(p)
      /\ r.default # None => r.default \in Names(r.allowed)
      /\ \A f \in Names(r.allowed) :
           WantedUnder(p, r, f) # None => WantedUnder(p, r, f) \in AllowedUnder(p, r, f)

Usable(p, users) ==
  BackendsFound(p, users) /\ ProfilesComplete(p) /\ RuntimesActRightly(p) /\ RulesServe(p)
=============================================================================
