# A TLA+ verification of uxon

uxon launches coding agents in tmux sessions, lists them, hands the terminal
over to them and removes them, for one user or several, on this host or on
peers over ssh. What makes it delicate is that it keeps no daemon: every client
(`uxon run`, `uxon kill`, `uxon list`, the TUI) is a process of its own, several
run at once, any can die between two steps, and they share only the tmux server,
a directory of *launch records*, the project directories and one configuration
file. Every command to the server, to a peer or to a runtime has a timeout, and
a client that timed out does not know whether its command ran.

This directory holds TLA+ modules of the program, TLC configurations that check
them, and TLAPS proofs about them. Paths below are relative to `src/src/uxon/`
unless they start with `src/`. `PROJECT.json` maps every definition to the lines
it models and every hazard to the properties that watch it.

## 1. Inventory

For each component: the state it keeps, its operations, what is hard about it,
what makes it correct, and where it is modelled.

| component | state | operations | hard behaviour | correct when | modules |
|---|---|---|---|---|---|
| Launch handshake (`infra/tmux.py`, `infra/launch_bootstrap.py`) | controller's step, metadata it read; the pane's process | create record, new-session, query, finalize, release; roll back; the bootstrap's wait, exec and self-removal | every command can time out and still run, or run late; the bootstrap's 60 s wait races the signal; the controller can die anywhere | no agent starts before its record is final; a rollback ends its own session or none; no pane blocks for good | `ManagedLaunch` |
| Launch-record store (`infra/launch_records.py`) | one JSON file per launch: pending or finalized, session id, creation second, nonce | exclusive create and then write, atomic replace, verified read, unlink, collection by age | replaced but not fsynced; unlinked by another client; collected against a stale listing | a running agent keeps its record; a stale record that was written goes | `LaunchRecords` |
| Managed removal (`app/kill.py`) | captured identity, prepared teardown | verify record, prove present, conditional kill, prove absent, re-read record, stop workload, delete record | lost acknowledgements, two removals at once, a missing record that may or may not mean "done" | it touches only the captured session; success means nothing is left; a failure keeps the record | `KillPath` |
| Tmux control commands (`infra/tmux.py`, `infra/process.py`) | none of their own | identity guard, exact-identity proof | ids and creation seconds repeat when the server restarts | a guard matches one launch's session at most | `TmuxHost` |
| Session enumeration (`infra/sessions_probe.py`) | rows of one answer | list, inspect panes, collect records, resolve a name | what it saw is old when it collects, or when the row it chose is used | only an authoritative listing collects; a managed session answers to its name | `LaunchRecords`, `SessionCommands` |
| Workload runtime (`infra/runtime.py`, `domain/runtime.py`) | container resource and epoch, pidfile by nonce | probe, prepare, wrap the exec, resolve identity, stop | the workload survives its severed exec; the container restarts or goes between probe and use | a stop ends the recorded workload only; an orphan can still be found | `TmuxHost`, `KillPath`, `RuntimeReadiness` |
| Session handoff and exit diagnostics (`app/session_handoff.py`, `infra/tmux_diagnostics.py`) | death number and acknowledgement per pane | pane-died hook, acknowledge, guarded dismissal, cleanup | a respawn between acknowledgement and dismissal; sibling panes; an id used again by a restarted server | an unread death is never dismissed; a session on screen keeps its record | `ExitDiagnostics`, `SessionHandoff` |
| Remote removal and attach (`app/kill.py`, `app/attach.py`) | a captured remote identity | ssh to the peer's conditional kill; an interactive ssh | the timeout is ambiguous; the ssh master is shared with the poller | success is the peer's own; a wedged poller never hangs a terminal | `RemoteControl` |
| Remote collection (`infra/remote/`) | the ssh master of a host | fetch, envelope, own-only retry, master recovery | wedged master, partial answer, an answer of another version | a peer never blocks its siblings | `Validation`, `RemoteFetch`, `RemotePeers`, `RemoteSlots` |
| Refresh admission (`domain/host_breaker.py`, `tui/workers.py`) | breaker, in-flight mark, attempt ids, worker handles | kick, spawn, land, cancel | late and cancelled attempts, threads that die, half-open probes | one fetch per host at a time; a slot is always freed; a peer that answers is shown | `HostBreaker`, `RemoteRefresh` |
| TUI loop and launch flow (`tui/app.py`, `tui/runner.py`, `tui/screens/launch_flow.py`) | modal stack, off-loop callbacks, pending launch | choose, probe, prompt, prepare, commit, exit, hand off, recreate | a callback answers after the user has gone on | consent precedes preparation; the first request stands | `LaunchFlow` |
| TUI refresh state and presentation (`tui/slot_state.py`, `tui/render_scheduler.py`, `tui/screens/main.py`, `tui/dashboard/`, `tui/widgets/`) | listed sessions, dirty set, timer, row order, cursor | land, request, fire, filter, change view and tab | refused and coalesced renders, partial renders, rows that come and go under the cursor | what changed is drawn, in time; rows and cursor stay put | `RenderScheduler`, `RowOrder`, `Dashboard` |
| Session identity and names (`domain/session.py`) | none | parse, allocate, choose | two launches allocate the same name; a listing is old | the terminal ends in the planner's own session | `TmuxHost`, `LaunchPlanning`, `SessionCommands` |
| Launch planning (`app/launch.py`, `app/new.py`, `app/run.py`, `app/tui_planning.py`, `infra/git.py`, `infra/worktrees.py`) | directories, repositories, worktrees | gate, mkdir, fetch, worktree add, exclude, revalidate, allocate, launch | failures half way, other planners and the user's git in between | a worktree is ready before a launch in it | `Planners`, `WorktreePlan`, `LaunchPlanning` |
| Git remote creation (`gitremote/`) | local .git, remote repository | preflight, init, commit, create, wire, push | a failure half way and a retry | nothing existing is overwritten; what goes on is whole | `ProjectCreation` |
| Launch profiles, authorization (`app/launch_profile.py`, `domain/launch_profiles.py`, `domain/git_profiles.py`) | configuration | resolve, revalidate | profile, user and place depend on each other; links move | what runs is what is permitted where it runs | `ProfilePolicy` |
| Configuration and settings (`infra/config_loader.py`, `domain/config_schema.py`, `infra/settings.py`, `infra/config_renderer.py`, `tui/screens/settings*.py`) | one file, what the disk keeps of it | load, edit, reset, render, install | unlocked read-modify-write, crashes around the rename, sections that replace their defaults | a save is exact and is kept; what loads is usable | `ConfigParts`, `HostConfig`, `SettingsEditor`, `HostOperation` |
| Command line (`cli/`, `app/attach.py`, `app/kill.py`) | none between commands | attach, kill, kill-all | configuration and sessions change under a running command | the session chosen is the one acted on | `SessionCommands` |
| Execution backends (`domain/execution.py`, `infra/execution.py`) | none | choose a backend, build arguments, probe | - | every user has a backend | `ConfigParts` |
| Audit and events, probes, doctor, listing, demo | no protocol state | logging, reports | - | - | not modelled |

How they interact: a launch is planned (profile, target, name), then
`prepare_managed_launch` runs the handshake against the server and the store;
the handoff attaches the terminal and closes the error screens it left.
Enumeration reads the server and the store and collects records. Removal takes
an identity some enumeration showed, and needs the record as its authority. The
TUI calls all of them from modals and off-loop callbacks, the remote parts run
them on a peer, and every one of them begins by loading the configuration the
settings screens write.

## 2. Plan

Written, in this order, because each rests on those before it:

1. the session's identity and record: `TmuxHost`, `LaunchRecords`,
   `ManagedLaunch`, `KillPath`, their composition `SessionLifecycle`, the
   abstract promise `SessionAuthority`, and two proof modules;
2. the peers: `RemoteFetch`, `RemotePeers`, `HostBreaker`, `RemoteRefresh` with
   the abstract `RemoteSlots` it implements, and `RemoteControl`, which uses the
   abstract one;
3. the TUI: `LaunchFlow`, `RenderScheduler`, `RowOrder`, `Dashboard`;
4. the handoff: `ExitDiagnostics`, `SessionHandoff`;
5. planning: `ProfilePolicy`, `Planners`, `ProjectCreation`, `WorktreePlan`,
   `RuntimeReadiness`, composed in `LaunchPlanning`;
6. operation: `ConfigParts`, `HostConfig`, `SettingsEditor`, `SessionCommands`,
   composed in `HostOperation`, and its proof module.

The proofs follow the components, each in a module of its own: the lifecycle, the
refresh and the commands to peers, the launch flow, the dashboard, the handoff,
planning, operation (section 5).

Every safety invariant and every action property that a run checks is proved. Left
to prove is the type invariant of `Dashboard`, which says above all that no session is
listed twice: it needs that `FlattenSeq` and `Place` repeat nothing. Liveness stays
with TLC.

## 3. The modules

### The session lifecycle

`TmuxHost` is the environment: one user's tmux server, the process in each
pane, the workload behind a command runtime, the clock second tmux stamps
sessions with. A launch stands for its random nonce; a launch creates at most
one session. `terminal[l]` is its session's `$id` and creation second, `pane[l]`
its process (`waiting` on the release channel, `woken`, `agent`, ...). `Guarded`
is the `if-shell` guard, `ExactIdentity` the set of answers
`exact_identity_exists` can give. `Send` is the heart of it: a command with a timeout
either is acknowledged, or ends in an error after which it has run, never runs,
or is in `late` and runs whenever `LateCommand` lets it - against whatever server
and sessions exist by then. When the last session ends the server does too, and
ids start from 0 again.

`LaunchRecords` is the store (`record[l]`: absent, opened and not yet written, pending,
finalized with identity) and enumeration (`seen`, `listing`: between `list-sessions` and the
collection that ends it). `expired` abstracts the retention.

`ManagedLaunch` has one action per step of `prepare_managed_launch` and its rollback,
with `lpc[l]` as the step and `meta[l]` as the metadata the controller has read,
and the bootstrap's actions on `pane[l]`. `sealed` is a history variable: the
launches whose record was finalized at some time.

`KillPath` has one action per step of `kill_expected` and
`finish_killed_session`; `kpc[k]`, `target[k]` and `teardown[k]` are the removal's step,
captured identity and prepared stop.

`SessionLifecycle` interleaves all of them and states the properties;
`SessionAuthority` is what the records promise with tmux, timeouts and rollbacks
left out: an agent starts only from a sealed declaration, and its declaration
stays sealed while it runs unless the launch was disowned. The refinement
mapping (`Phase` and the instance `Authority`) reads the phase off the record and `sealed`.

Abstractions, and why they lose nothing the properties tell apart:

- A release channel's flag is not state of its own. A bootstrap waits once, when
  its pane starts, and the channel carries its nonce: a signal either finds it
  waiting or is never read. Signals by third parties are outside the
  documented boundary (`src/docs/explain/architecture.md`).
- The branch of `prepare_managed_launch` that runs the plain release command is not taken:
  `diagnostics_prefix` is always set (`infra/tmux.py:736`). Both would be the
  same action anyway, with the guard dropped.
- Reads of files and of the server are single steps, as one system call or one
  server command answers them; what a client does with the answer is a later step.
- A removal's checks on profile, execution backend and fingerprint are the ways
  to refuse or to skip; their reasons are not told apart.
- One pass of the collection is atomic and covers the store (up to 1,024
  records); the cursor of larger stores is not modelled.
- A session has one pane here. Splitting it does not change what ends the
  session; `SessionHandoff` has the panes.
- No launch and no enumeration lasts as long as a record's retention (ten
  minutes): every command in them has a timeout of ten seconds or less. A wall
  clock that jumps by that much is outside the model.

### The peers

`Validation` and `RemoteFetch` are operators: what decoding an envelope gives,
what one ssh command comes to, the own-only retry, the snapshot that results.
`RemotePeers` is the environment: what a peer lists, whether it answers, and the
ssh master the commands to it share. `HostBreaker` is one breaker as operators
on a record, its clock reduced to `due`.

`RemoteRefresh` is `WorkerCoordinator`: `Tick` and the manual refresh reserve a
host with an attempt, `ThreadStep` runs the fetch command by command in a worker thread,
`Land` folds the result into the slot on the event loop, `Cancel` and `Dies` are
a worker that is dropped before or while its thread runs (more often than the
app does it). It implements `RemoteSlots`: one read of a host at a time, the slot
showing the outcomes in order.

`RemoteControl` composes `RemoteSlots` with the commands sent to a peer
meanwhile: the conditional kill from a row of the slot to the reported result,
with its timeouts and the master recovery that follows, and interactive attach,
which does not multiplex. A recovery takes every multiplexed command of the host
down with it.

### The TUI

`LaunchFlow`: `stack` is the modal stack, `jobs` the off-loop callbacks under
way (a set: two equal attach jobs are one), `pending` the launch the app exits
with, `loop` the runner's stage. One action per handler; a callback's
continuation finds whatever modals there are by then. A continuation of the
session choice, the git options or the runtime prompt may put its modal over
another flow's: the code checks nothing there and the model does the same.
Callbacks in flight lose their continuation when the app is left. A commit whose
request is dropped keeps what it has created.

`RenderScheduler` is the trailing debounce: time in ticks, timers that are due fire
before time goes on, a render may be refused. `RowOrder` holds `place`, the
blocks, the displayed rows and the cursor as operators on sequences. `Dashboard`
composes them: sessions land from the local rebuild and the peers, users filter,
change view and tab, have modals up. A change of tab is a message in `tabMsgs`.
A filter drops hidden rows from `rowOrder`, so they come back as new ones; a
first remote landing that brings a second user before the local data is refused
until something asks again.

### The handoff

`ExitDiagnostics` is tmux as far as error screens go: dead panes, the option
that numbers a pane's deaths, the acknowledgement that copies the number, the
guarded `kill-pane`, respawns, a restarted server that hands out one session id
again (pane ids are used again only then). `SessionHandoff` is
`run_launch_request`: a client starts or selects a session, arms its controls, attaches,
and after exit code 125 dismisses pane by pane, cleaning up if the session is gone; its
kill-pane commands may run late. The recheck after the attach is
part of the step that uses it. Direct runtime; `KillPath` has the others.

### Planning

`ProfilePolicy` is profile selection as operators: who sees which place (`view`),
what a rule permits, the two views of `resolve_launch_profile`, the git policy.
`Planners` has the shared world - repositories, worktrees, the git host, runtime
resources, sessions - and the stages common to `run`, `new`, and the TUI's create and
open. `ProjectCreation`, `WorktreePlan` and `RuntimeReadiness` are the
sub-pipelines, one action per command they run; `LaunchPlanning` adds the listing, the choice
of a session or a name, the launch (its handshake is `SessionLifecycle`'s) and what others do:
links and mounts move, worktrees and branches go, runtimes come and go, another
client creates a repository. Any stage may fail (`Ends`) and a command may be
given again. A worktree's rule and view are taken to be its repository's;
"worktree target changed" is one of the failures. Changes nobody looks at
(`OtherCreates`, `Repoint`, `BoxChanges`) are taken only when a planner is about to look.

### Operation

`ConfigParts` has the structured tables and `PartsOK`, what the loader accepts of
them; `Usable` is what the commands take for granted. Texts are reduced to what
the checks ask: a prefix is `absolute` or not, a template is the set of its
placeholders. `HostConfig` is the file: the settings by path, the tables that are
there, `Merged` (a section that is there replaces the whole default section,
`Fallbacks` fill it), `Loads`, and the writers `Updated`, `Removed` and `Rendered`.

`SettingsEditor` is the settings screen (list, modal, read, write beside,
rename, sync the directory, report), the renderer, an operator who installs or
copies whole files, and a crash after which the disk holds one of the files it
may hold. `SessionCommands` is `attach`, `kill` and `kill-all`: load, list,
inspect, resolve, confirm, act, while sessions come and go. A session's home is the
socket and where its user's backend leads; its record says in which directory it is and
through which backend the session was launched, and counts only as long as the
configuration says the same (`Verified`). `HostOperation`
interleaves them: a command holds the configuration it loaded while the file
changes.

## 4. The runs

| run | instance | distinct states | checks |
|---|---|---|---|
| `handshake` | two launches of one name, one removal, one clock second | 846,625 | `DurableBeforeExec`, `OnlyOwnSessionEnds`, `CleanupAfterTerminal`, `TypeOK` |
| `removal` | one launch of any runtime kind, two removals, one enumeration, a marker that may be overwritten | 1,451,368 | `RunningAgentKeepsRecord`, `OrphanKeepsRecord`, `ReportedRemovalIsComplete`; `SessionLifecycle` implements `SessionAuthority` |
| `liveness` | one launch, one removal, one enumeration, two clock seconds, with fairness | 103,968 | `PaneDecides`, `StaleRecordReclaimed` |
| `remote_refresh` | one peer, two attempts, a peer that answers, lists only one's own or hangs | 245,169 | `OneFetchPerHost`, `ReservationCoversResult`, `ReservationEnds`, `PeerConverges`; `RemoteRefresh` implements `RemoteSlots` |
| `remote_control` | one peer of five conditions, one kill, one terminal | 348,345 | `RemoteSuccessIsReal`, `AttachIsNotHung` |
| `launch_flow` | two flows, two probes of the TUI's directory | 533,766 | `WorkspaceOfCurrentFlow`, `RuntimeGated`, `OneStepPerFlow`, `CwdReadyIsCurrent`, `RequestReachesTerminal` |
| `dashboard` | one peer, two users, four sessions of which one succeeds another of its name | 442,944 | `ShownIsCurrent`, `RenderedInTime`, `UserColumnShown`, `CursorKeepsItsRow`, `EstablishedRowsKeepOrder` |
| `handoff` | two launches, two panes, two clients, three deaths | 2,094,197 | `RecordWhileOnScreen`, `CleanReturnClosed`, `OnlyReadDeathsClosed` |
| `planning` | two planners in six scenarios, two profiles of two users, two repositories | 1,252,805 | `WorktreeReady`, `CreatedIsWhole`, `EntersItsOwn`, `SettlesAuthorized` |
| `operation` | six scenes of screens, rendered and copied files and commands, two writes | 308,419 | `SavedIsKept`, `WritersAreExact`, `LoadedIsUsable`, `ManagedStaysReachable` |
| `failed_release` | one launch | violated at depth 10 | a documented statement the code does not keep |
| `unloadable_setting` | one setting on one screen | violated | what the settings screen asks for and the loader refuses |

### Bounds, and why they are enough

*Lifecycle.* Two launches of the same name in the same second, on a server whose
ids restart, is the case in which name, id and creation second all coincide and
only the nonce tells the sessions apart: a third launch adds no new kind of
coincidence. A clock that stays in one second (`MaxSecond` 0) makes every
coincidence possible; the `liveness` run lets it move once, which separates ids that
repeat from seconds that do not. Two removals are the fewest that race for a
record; no definition tells one from another, so the `removal` run uses that
symmetry. One enumeration is enough because an enumeration keeps nothing between two
rounds. `late` is not bounded: a client sends each command once, so the set is
small by itself. The environment is as hostile as tmux and its user can be
without touching the record store: `SessionsEnd` ends any set of sessions at any
time (a user's `kill-session`, a reboot), `Tamper` overwrites a marker,
`RuntimeRestarts` restarts a container, `Interrupted` and `ControllerCrashes` stop a
client between any two steps.

*Peers.* Hosts share nothing but the coordinator, which keeps everything per
host, so one host shows a host's behaviour. Two attempts are one that is
reserved and one left over from before, the fewest that overlap; an identity is
reused only when no thread, result or reservation holds it.

*TUI.* Two flows are the one the user has left and the current one: everything
that can go wrong is between these. Two probes of the directory are the fewest
that overlap. The dashboard's debounce of one tick and latency of two are the
smallest for which a request can be postponed once and then no further;
`MaxPosted` is one change of tab whose message is under way. The four sessions
give two users, two hosts, two ages and a name that comes back on another session.

*Handoff.* A session with an error on one pane and something else on the other,
two clients on it, and a third death that follows the acknowledgement of an
earlier one. Launches, panes and clients are symmetric.

*Planning.* Two planners are the fewest that race. The six scenarios pair the
commands that share something: two creations of a project with a remote, a
creation in a directory that has a profile rule, a command that is given again,
two branches that share a worktree path while another repository is worked on,
an open next to a run, and a run left to its defaults. The instance has
both a profile of the caller and one of another user with a runtime, a base
branch that is fetched and a runtime that is created when it is missing.

*Operation.* A scene fixes who acts and what they may ask: two writers of two
settings; one writer of every setting next to rendered files; the prefix under a
running command; whole files under a running command; files that void its records;
two commands. Within a
scene everything interleaves. A free product of the scenes would multiply states
without letting any definition see more, since commands see only the file and
writers see no command. Two writes are the fewest of which one undoes another.

Deadlock is checked in `operation`. Elsewhere it is off because the system may
really stop: every client has ended and nothing is left on the server, in flight
or waiting.

The type invariants of `RemoteRefresh`, `RemoteControl`, `LaunchFlow`,
`Dashboard` and `SessionHandoff` are stated in the modules as the reader's
declaration of the state; the runs spend their time on the properties. Those of
all but `Dashboard` are proved (section 5).

### Properties

Lifecycle:

- `DurableBeforeExec`: no pane is released, no agent runs, no workload runs, unless the
  record was finalized before.
- `OnlyOwnSessionEnds`: when a session ends, no step of a launch, a removal or a late command
  of any other launch did it.
- `CleanupAfterTerminal`: a removal that has begun to clean up has a target that is gone for good.
- `RunningAgentKeepsRecord`: a running agent's record is finalized and names its session,
  except where its own launch rolled back or its marker was overwritten.
- `OrphanKeepsRecord`: a workload that survives its terminal keeps its record until it is
  stopped or its retention has passed.
- `ReportedRemovalIsComplete`: success means no session, no record, no stoppable workload.
- `PaneDecides`, `StaleRecordReclaimed`: a pane that waits decides in the end; a
  record that was written and that nothing needs is collected.

Peers:

- `OneFetchPerHost`: a peer is asked by one fetch at a time, whatever was
  cancelled, died or was asked for again by hand.
- `ReservationCoversResult`: a running fetch and a waiting result belong to the
  host's present reservation, so no result of an attempt that was taken back
  reaches the event loop; `ReservationEnds`: none is held for ever.
- `PeerConverges`: a peer that answers for good is shown as it is in the end,
  whatever breaker, connection and attempts were left in.
- `RemoteSuccessIsReal`: a kill is reported as done only when the captured session
  is gone from the peer. `AttachIsNotHung`: a stuck master hangs no
  terminal.

TUI:

- `WorkspaceOfCurrentFlow`: a worktree is never created in the repository of a
  flow the user has left. `RuntimeGated`: nothing is launched in a directory
  before its runtime is ready, or prepared with the user's yes. `OneStepPerFlow`: one
  choice never leads to two launches. `CwdReadyIsCurrent`: probes that overlap
  never enable the launch row for an older state. `RequestReachesTerminal`: the
  launch that was requested first is the one the terminal is handed to, unless the
  user quits, whatever comes back or happens to the terminal while the app closes.
- `ShownIsCurrent`, `RenderedInTime`: with nothing left to draw the list is
  what the sources delivered last, and a request is served within `MaxLatency`.
  `UserColumnShown`, `CursorKeepsItsRow`, `EstablishedRowsKeepOrder`: what the user
  sees stays put.

Handoff:

- `OnlyReadDeathsClosed`: uxon closes a pane only if somebody acknowledged its
  latest death, however late tmux runs the command. `CleanReturnClosed`: a clean
  return has closed the error it acknowledged. `RecordWhileOnScreen`: a session
  on screen keeps its record.

Planning:

- `WorktreeReady`: from `git worktree add` to the launch, the directory is a
  worktree of its repository with the planner's branch, and excluded exactly
  once. `CreatedIsWhole`: who goes on from a creation has created, committed, wired
  and pushed. `EntersItsOwn`: the terminal ends in a session of the planner's user,
  profile and directory. `SettlesAuthorized`: a profile is settled on only where
  its own user's view of the place permits it, and its git profile with it.

Operation:

- `SavedIsKept`: a reported save survives a crash. `WritersAreExact`: a writer
  changes what it was asked to and nothing else. `LoadedIsUsable`: what loads can
  be relied on. `ManagedStaysReachable`: a session whose record counts under the file
  that was loaded answers to its full name, alone, whatever prefixes were configured
  since. A record counts if it is in the directory configured now and the backend of
  its user is, to its prefix and timeout, the one it was launched through.

Each has a mutant in `PROJECT.json`, a plausible slip in the mapped code for which
TLC finds the property violated: the nonce left out of the guard, a refused query
taken for absence, a breaker slot that is not freed on cancellation, a probe's
answer that is not compared with its generation, an edit that rewrites the
file instead of updating it, and so on.

### Fairness

`liveness`: weak fairness of a controller, a bootstrap and a removal: each is a
process that goes on until it ends or is killed, and each wait in it has a timeout.
Crashes stay possible: a crashed controller has no step left to be fair to.
Enumeration is asked for again and again (the TUI's cadence, `uxon list`) and
succeeds again and again although it may fail any number of times in between:
strong fairness of `Collect`. Time passes: strong fairness of `Expires`, which is
disabled while a launch or an enumeration is under way. Nothing is assumed of the
environment, of removals being asked for, or of late commands ever running.

`remote_refresh`: weak fairness of the cadence's tick, of the end of a backoff,
of ssh giving up a master that is stuck (`ServerAliveInterval`), of every worker thread
(each of its commands has a timeout) and of the event loop's handling of results.
`PeerConverges` supposes that nothing is cancelled, dies or gets stuck any more from some
time on; `ReservationEnds` supposes nothing.

`remote_control`: weak fairness of the terminal's ssh, which runs to an answer;
nothing is assumed of peers, masters or commands. `launch_flow`: weak fairness of
the closing app and of the runner's loop, which is what an `exit()` that was asked for
does; callbacks end some day, and the user may do nothing. The others state none.

### Where code and documentation disagree

*Failed release.* `src/docs/explain/architecture.md:115-116` says of an ambiguous
release failure that uxon kills the exact new session and removes its pending record. In
the `failed_release` run the release times out for its client but takes effect, the
bootstrap execs the agent, and the rollback's kill is lost: its failure is
ignored (`infra/tmux.py:918-927`), the record, finalized by then, is unlinked all the
same, and the agent runs on with no record, which a managed kill then refuses.
`RunningAgentKeepsRecord`, `OrphanKeepsRecord` and the abstract `Disown` name this
case as the one exception instead of hiding it.

*Unloadable setting.* The settings screen asks for "integer seconds. Must be > 0."
(`infra/settings.py:127-128`), its modal parses a float
(`tui/screens/settings_modals.py:181-185`), nothing validates what is saved, and the
loader takes an int only. In the `unloadable_setting` run a positive number is saved and the
configuration does not load any more. The settings screen still lists a file that
parses but does not load, so a reset there, or an editor, mends it.

Smaller ones, without a run:

- `src/docs/reference/configuration.md:250-253` says that the collection's cursor guarantees
  eventual examination and that pending records expire after ten minutes when no
  matching live session exists. A record is opened under its final name and then
  written (`infra/launch_records.py:546-566`); if the client is killed in between, the
  empty or partial file is examined and passed over by every collection, whatever its
  age (383-384, 399-400). `Torn` is that file in the model: a crash at `lpc[l] = "write"`
  leaves it, `Collectable` excludes it, and `StaleRecordReclaimed` speaks of the records
  that were written. It is authority over nothing, so the safety properties hold with
  it. A replacement that is interrupted leaves a temporary file likewise, which does
  not end in `.json` and which no collection looks at; it is not in the model.
- `src/docs/reference/cli.md:127-135` does not mention that a name resolves by unique
  prefix: `uxon kill myproj`, given again after it ended, may resolve to a session
  named `myproj-next` or to another profile's.
- `src/docs/reference/cli.md:314-315` speaks of the "same worktree branch" where the guard
  compares slug and path; of branches that share a slug, both can pass the check for an
  occupied path (339-340) before either has made it.
- `gitremote/create.py:44-45` suggests to fix the credentials and rerun, which refuses an
  existing `.git`; its stages are named differently from the errors raised, and a
  `subprocess.TimeoutExpired` passes through uncaught.
- `src/docs/explain/worktrees.md:16-18`: repositories of equal base names with branches of
  equal names conflict on the session's name after the worktree is added.
- `infra/git.py` serialises uxon's own writers of the exclude file; a line that
  another program appends in between is lost.
- `place` can put a peer's first session inside this host's block
  (`tui/dashboard/order.py:49-57`); a refresh between a change of tab and its message makes
  two messages chase each other (`tui/screens/main.py:690-702`).

## 5. Proofs

Eight modules `*_proofs` hold the theorems. None uses a bound of section 4:
launches, hosts, attempts, flows, clients, planners, screens, commands and their
inputs are arbitrary sets, counters arbitrary numbers. What is assumed of the
constants are the named `ASSUME`s of the modules, which TLC evaluates in every run:
that stand-ins (`Foreign`, `Unset`, `NoLaunch`, `None`) are none of the things they stand
beside, that bounds are numbers, that a peer may at least answer
(`PeersAssumption`), that places and rules are configured as the loader requires and
a path leads every user somewhere (`PolicyAssumption`), that commands are those
`cli/parsing.py` accepts, asked by finitely many clients (`CommandsAssumption`),
that every file has the parts of a file and a modal offers allowed values only
(`FilesAssumption`, `EditorAssumption`), that sessions are finitely many, each with a host, an
owner and a name, and peers a sequence with one place in it each
(`DashboardAssumption`).

Each module proves an inductive invariant, then what follows from it. An
invariant is stated beside the properties, in the component's module, as
a conjunction of named parts; TLC checked it on the component's run before it was
proved. Each proof has one step per action and, under it, one per conjunct that
the action can disturb.

### Lifecycle: `SessionLifecycle_proofs`

`DurableInvariant` (`DurableInv`), `TypeCorrect` (`TypeOK`), `ExecIsDurable`
(`DurableBeforeExec`). `DurableBeforeExec` is not inductive alone: a pane can be woken by
a release sent long ago by a client that gave up on it. `ReleaseIsSealed` says that a
release about to be sent, or in `late`, is for an identity whose nonce has been sealed.
`IdentityKnown` types what a client past its lookup holds, and `PaneHasSession`
says a process in a pane has a session. The argument: the release is sent
only from the step that follows finalization under the launch's own nonce; the guard
acts only on the session with that nonce, and the marker a session carries is its
launch's or foreign (`GuardedIsOwn`); the bootstrap execs only when woken.

`OwnershipInvariant` (`OwnershipInv`), `CleanupIsAfterTerminal`
(`CleanupAfterTerminal`), `OnlyOwnersEnd` (`OnlyOwnSessionEnds`). A removal that finds its
target gone must know that it cannot come back: names, ids and creation
seconds do. What does not is a launch's session. `CreatedOnce`: a launch with a live
session is `Spent`, its create command has been sent and can no longer run.
`TargetIsSpent`: the launch a removal has captured is spent and its session, if it
lives, still has the captured id and second. `KillIsOwned`: a kill about to be
sent, or late, carries the nonce of a launch, a rollback's that of its own. From
the first, a step can end a spent launch's session but never change or renew it
(`EveryTerminalStep`); from the second, an absence of the captured identity is one
for good (`AbsentIsGone`); from the third, what a guarded kill ends is its own
launch's session (`EveryEndIsOwn`), which is the action property.

`RecordInvariant` (`RecordInv`), `AgentKeepsRecord` (`RunningAgentKeepsRecord`),
`OrphanRecordStays` (`OrphanKeepsRecord`), `RemovalIsComplete`
(`ReportedRemovalIsComplete`). A record is deleted by a rollback, a removal or a collection,
each on evidence that is old by then. `ListedIsSeen` says what an
enumeration's listing may still claim about a launch and `RecordHistory` what a record has
been, so that a collector's absence is of a session that was never there or has ended;
`MetaIsOwn` that a controller's metadata is its own launch's; `RemovalProgress` that
past each step of a removal what that step established still holds.

`LifecycleKeepsPromise`: `Spec => ImplementsAuthority`, the refinement of
`SessionAuthority`: each of the actions maps to a step of the abstract one or to a
stutter, under the mapping of `SessionLifecycle`. It rests on `RecordInv`.

### Peers: `RemoteRefresh_proofs`, `RemoteControl_proofs`

`ReservationInvariant` (`ReservationInv`), `OneFetch` (`OneFetchPerHost`),
`ResultIsCovered` (`ReservationCoversResult`). The invariant is the reservation
protocol. `HolderReserves`: who fetches holds its host's breaker, which names the holder's
attempt id. `MessageReserves`: so does a result that waits to be handled.
`OneMessageEach`: an attempt has one message. `AttemptFlags` and
`RecoversTimeouts` tie a thread's step to what it has read. Cancelling, dying, and
asking again by hand each take a reservation back or leave its holder in place;
none does half of it. Decoding is by lemma: whatever a peer wrote ends in one of the codes
(`EnvelopeCodes`), since the first check that fails decides (`FirstFailureIs`).

`RefreshKeepsPromise`: `RemoteSpec => ReadsInOrder`, the refinement of `RemoteSlots`:
breakers, attempts, threads and messages implement one read at a time per host
whose outcomes are shown in order.

`ControlInvariant` (`ControlInv`), `RemovalIsReal` (`RemoteSuccessIsReal`). The remote kill is chosen from a slot that
may be old. The invariant follows the captured session through the slot, the
reading under way and the command (`ReadFromPeer`, `TargetWasRead`): the peer
has it or had it. A kill is delivered only once (`RunsOnceSent`), and
what it reports it did (`RunIsTrue`); what has ended on a peer never
comes back (`EndedForGood`). A timeout reports failure whatever became of the command, so
success is the peer's own.

### TUI: `LaunchFlow_proofs`, `Dashboard_proofs`

`FlowInvariant` (`FlowInv`), `WorkspaceIsCurrent` (`WorkspaceOfCurrentFlow`),
`CwdRowIsCurrent` (`CwdReadyIsCurrent`), `LaunchesAreGated` (`RuntimeGated`),
`OneStepOfEachFlow` (`OneStepPerFlow`). `Begun`: every
modal and every callback belongs to a flow that has begun, none to a later one.
`Apart`: a flow has one modal or one callback. `Bottoms`: a
flow's first questions are asked straight above the main screen. `Gated`: what is asked or committed after the gate has passed
it. Callbacks outlive the modals they came from and even the flow; that a late one
does nothing is `Begun` with the comparison of generations in the code.

`ScheduleInvariant` (`ScheduleInv`), `DrawnInTime` (`RenderedInTime`): a request that waits
belongs to a batch at least as old, and the timer of a batch never reaches past
the batch's latency. `Debounce` and `MaxLatency` are any numbers, the debounce not
zero. `ColumnIsRight` (`UserColumnShown`) by `ColumnInv`: a peer's users are
counted as they land, this host's with the context, which stays to be drawn until then.

`ShownInvariant` (`ShownInv`), `ListIsCurrent` (`ShownIsCurrent`), `RowsStayInOrder`
(`EstablishedRowsKeepOrder`), `CursorStays` (`CursorKeepsItsRow`). `ShownInv` is
`ShownIsCurrent` with what it needs of the data: each host's listing is one it can
give (`ListingsOK`). A step either leaves alone what the list is drawn from, or
leaves something to draw, or is a refresh (`EveryStepDraws`). What remains is what a
refresh returns for every order and model: `Only` keeps exactly the rows it is given to
keep, in their order (`OnlyKeeps`); `Place` returns the rows of the model and swaps no two
that were there (`PlaceKeeps`, by what each step of its walk keeps, `WalkStays`); a
model holds nothing that is not listed (`ModelIs`). These are facts about folds. The
library's induction theorems cannot be instantiated here, so each is derived from
well-founded minima: a property that holds at 0 and climbs holds up to N
(`Climb`, no least counterexample), and the function by which the community modules define
a fold exists (`FoldExists`). The cursor argument adds that no two rows of one
host, user and name are shown at once, so finding by name finds the row.

### Handoff: `SessionHandoff_proofs`

`HandoffInvariant` (`HandoffInv`), `RecordStays` (`RecordWhileOnScreen`),
`CleanReturn` (`CleanReturnClosed`), `UnreadStays` (`OnlyReadDeathsClosed`). `UsedOnce`: a launch has the id once. `DeathsNumbered`: a number
acknowledged is that of the pane's latest death, which somebody has read. `AckFollowed`: as long as the
death a client acknowledged is the one on screen, the client is in a step that goes
on to close it. A dismissal that arrives late compares numbers; a respawn has
raised them.

### Planning: `LaunchPlanning_proofs`

`PlanInvariant` (`PlanInv`), `WorktreeStaysReady` (`WorktreeReady`), `CreationIsWhole`
(`CreatedIsWhole`), `EntryIsOwn` (`EntersItsOwn`). `StagesFit` says a planner is only in
stages its command has and has resolved a place before it touches one;
`ExcludedFirst` that the exclude line is there before the worktree, once;
`CreationProgress` what each step of a creation has left for the next;
`SessionsKnown` that ids are unique, that a pick is never the id of a session of other
user, profile and directory, and that who enters one has picked its own. The proof is rely-guarantee:
what one planner's step leaves of the world for another is one lemma (repositories
keep their worktrees and their history, ids of sessions are not used twice), so that
each action is looked at for its own planner only.

`ProfilesAreAuthorized` (`SettlesAuthorized`) is about `resolve_launch_profile` for any
rules, users and views: it follows the resolution through its cycle of profile,
user and place.

### Operation: `HostOperation_proofs`

`AcceptedIsUsable`: tables that `PartsOK` accepts are `Usable`. One lemma per
kind of table: every user is given a backend that is there (`BackendFound`), every
enabled profile is complete and its agent and runtime known (`EnabledKnown`,
`ProfileComplete`), a runtime has the commands its policy asks for (`RuntimeActs`), a rule
leaves something to launch (`RuleServes`). The run sees a handful of files, the lemma
all of them. `LoadedInvariant` (`LoadedInv`), `LoadedUsable` (`LoadedIsUsable`): what
a command holds was accepted when it loaded it, of the copy it keeps, since the
file has changed by then.

`EditorInvariant` (`EditorInv`), `SavedStays` (`SavedIsKept`), `WritersExact`
(`WritersAreExact`). `DiskIsRecent` and `ScreensAreRecent`: write numbers only grow, and
nothing the disk may fall back to is older than what has been reported.
`OneChange`: a screen's new text is one change to the text it read. `DraftIsRendered`: a
draft is one rendering of an accepted payload. That an edit changes the effective
value of its setting and of no other is a chain of lemmas about `Updated`,
`Removed` and `Rendered` for any file and setting.

`NamesInvariant` (`NamesInv`), `ReachableByName` (`ManagedStaysReachable`): who opens a
session takes a name that is free at its place, so names tell sessions of a place
apart; and of the rules of `resolve_session` the full name comes first, and decides if
anybody has it (`FullNameDecides`), however many prefixes would fit the name too.

### What is only model-checked

- Liveness (`PaneDecides`, `StaleRecordReclaimed`, `ReservationEnds`, `PeerConverges`,
  `AttachIsNotHung`, `RequestReachesTerminal`): fairness rests on `ENABLED`, which the prover does not handle.
- The type invariant of `Dashboard`, which the run `dashboard` does not spend its time on:
  it is used by no other proof.
- The two documented statements that are violated.

## 6. Not modelled

Whole components: audit and events, the loop guard, host probes, doctor, listing
and demo data. They keep no state another component acts on; they build
arguments, log and report.

Within the modelled ones:

- *Lifecycle*: file ownership and modes of the store, the collection cursor
  (above 1,024 records), a clock that jumps by the retention, the rendering and
  streaming of the tmux configuration that rides with the release, dry runs.
- *Peers*: the CLI's attach by friendly name, which first resolves the name by a
  multiplexed fetch.
- *TUI*: the fallback of a screen switch, `launch_existing` with no projects, a
  worker that raises while it is started, the modal that says no agent is there,
  the epoch check (`tui/app.py:499`), which defends against what the runner already
  excludes. In the dashboard: peers are fixed, the scheduler's `shutdown()`, focus of
  the strip, the kill prompt beyond its being a modal, an index Enter carries.
- *Handoff*: its audit record, the copy of ssh diagnostics, `switch-client`, copy mode.
- *Planning*: allowed roots, the host probe, permission modes, the guard against
  a legacy socket, runtimes whose names collide, the gate on `path_map`, the contents of
  `.worktreeinclude`; panes do not change directory; a failed `git worktree add -b` leaves
  no stray branch; the runtime of an Open in the TUI is prepared in `LaunchFlow`.
- *Operation*: derived fallbacks of single settings (`session_users` from
  `default_launch_user`, stripping of names). Two writers of the unlocked file
  can lose an update: the model has that behaviour, and what is checked is that each writer
  is exact about the text it read. Some configurations load and cannot launch:
  `default_launch_mode` fixed with no user (`uxon doctor` reports it), a runtime that must be
  there and has no ready command. A changed socket template hides older
  sessions, as `src/docs/reference/configuration.md:255-257` says, and so does a backend
  that leads elsewhere. A changed `launch_record_dir`, or a change to the backend of a
  user, if only to its probe timeout, voids the records of the sessions that run: they
  are listed while their prefix is known, cannot be removed, and are not listed any
  more once it is dropped (`infra/sessions_probe.py:448-464`, `app/kill.py:805-818`).
  Sessions of a dropped prefix whose records count answer to their full names only. Files that are copied by hand
  arrive whole.

## 7. Running

    tlc -workers 2 -config Handshake.cfg MCSessionLifecycle
    tlc -workers 2 -config Removal.cfg MCSessionLifecycle
    tlc -workers 2 -config Liveness.cfg MCSessionLifecycle
    tlc -workers 2 -config FailedRelease.cfg MCSessionLifecycle
    tlc -workers 2 -config RemoteRefresh.cfg RemoteRefresh
    tlc -workers 2 -config RemoteControl.cfg RemoteControl
    tlc -workers 2 -config LaunchFlow.cfg LaunchFlow
    tlc -workers 2 -config Dashboard.cfg MCDashboard
    tlc -workers 2 -config SessionHandoff.cfg MCSessionHandoff
    tlc -workers 2 -config LaunchPlanning.cfg MCLaunchPlanning
    tlc -workers 2 -config Operation.cfg MCHostOperation
    tlc -workers 2 -config UnloadableSetting.cfg MCHostOperation
    tlapm SessionLifecycle_proofs.tla
    tlapm RemoteRefresh_proofs.tla
    tlapm RemoteControl_proofs.tla
    tlapm LaunchFlow_proofs.tla
    tlapm Dashboard_proofs.tla
    tlapm SessionHandoff_proofs.tla
    tlapm LaunchPlanning_proofs.tla
    tlapm HostOperation_proofs.tla
