-------------------------- MODULE MCHostOperation --------------------------
(***************************************************************************)
(* A host with a caller and another user, two screens and two commands.    *)
(***************************************************************************)
EXTENDS HostOperation

CONSTANTS e1, e2, c1, c2

MCEditors == {e1, e2}
MCRoot == {e1, e2}
MCCommands == {c1, c2}
MCUsers == {"alice", "bob"}

MCEdited == {<<"session_prefix">>, <<"tmux", "manage_options">>, <<"tui", "table", "columns">>,
             <<"ssh_control_persist_seconds">>, <<"launch_user_by_caller">>}
MCTyped == <<"session_prefix">> :> {"ux-", ""} @@ <<"tmux", "manage_options">> :> {TRUE} @@
           <<"tui", "table", "columns">> :> {<<"name">>} @@
           <<"ssh_control_persist_seconds">> :> {"positive", "zero"} @@
           <<"launch_user_by_caller">> :> {"mapped"}
PersistEdited == {<<"ssh_control_persist_seconds">>}

MCLaunches == {[stem |-> "api", profile |-> "claude", managed |-> TRUE],
               [stem |-> "api", profile |-> "boxed", managed |-> FALSE]}

MCAsks ==
  {[op |-> "kill-all", id |-> <<>>, user |-> NotAsked, force |-> FALSE],
   [op |-> "kill", id |-> <<"api">>, user |-> NotAsked, force |-> FALSE],
   [op |-> "kill", id |-> <<"api">>, user |-> "bob", force |-> FALSE],
   [op |-> "attach", id |-> <<"uxon-", "api">>, user |-> NotAsked, force |-> FALSE],
   [op |-> "kill", id |-> <<"2">>, user |-> NotAsked, force |-> TRUE]}

-----------------------------------------------------------------------------
(* Files.                                                                   *)

Dev == [wellFormed |-> TRUE, kind |-> "command", mapped |-> TRUE, scope |-> "per_user",
        onMissing |-> "create", approval |-> "prompt", telemetry |-> "none",
        timeouts |-> [probe |-> 5, create |-> 60],
        templates |-> [name |-> {"user", "project_slug"}, exec |-> {"resource", "runtime_dir"},
                       ready |-> {"resource"}, exists |-> {"resource"}, start |-> {"resource"},
                       create |-> {"resource", "agent"}, stop |-> {"resource"},
                       identity |-> {"resource"}]]

Parts ==
  [agents |-> [claude |-> [wellFormed |-> TRUE, own |-> TRUE, modes |-> <<"normal">>]],
   execution |-> [default |-> "local", byUser |-> [bob |-> "box"],
                  backends |-> [box |-> [wellFormed |-> TRUE, kind |-> "command",
                                         program |-> "absolute", users |-> 1, timeout |-> 5,
                                         leads |-> "box"]]],
   gits |-> <<[name |-> "work", wellFormed |-> TRUE, auth |-> "gh", tokenFile |-> FALSE,
               visibility |-> "private"]>>,
   hosts |-> <<[name |-> "peer", wellFormed |-> TRUE, template |-> {"ssh_alias", "remote_command"},
                durations |-> [timeout |-> 5]]>>,
   runtimes |-> [dev |-> Dev],
   launch |-> [enabled |-> <<"claude", "boxed">>, default |-> "claude",
               profiles |-> [boxed |-> [wellFormed |-> TRUE, agent |-> "claude", user |-> "bob",
                                        runtime |-> "dev",
                                        git |-> [allowed |-> {"work"}, default |-> "work"]]],
               rules |-> <<[wellFormed |-> TRUE, prefix |-> "absolute", allowed |-> <<"boxed">>,
                            default |-> "boxed",
                            git |-> [narrows |-> TRUE, allowed |-> {"work"}, default |-> None]]>>]]

\* What an installation starts with: one table, one legacy prefix.
MCFirstFile ==
  [state |-> "toml", tables |-> {<<"tmux">>},
   leaf |-> <<"legacy_session_prefixes">> :> List(<<"old-">>) @@
            <<"tmux", "set_terminal_title">> :> Bool(FALSE) @@
            <<"launch_user_by_caller">> :> Table("empty"),
   parts |-> Parts]

Missing == [state |-> "missing", tables |-> {}, leaf |-> <<>>, parts |-> Parts]
Torn == [state |-> "broken", tables |-> {}, leaf |-> <<>>, parts |-> Parts]

\* Files of a kind an operator gets wrong.
NoCreate == [Dev EXCEPT !.templates = [f \in {"name", "exec", "ready", "exists", "start"} |-> @[f]]]
HalfARuntime == [MCFirstFile EXCEPT !.parts.runtimes = [dev |-> NoCreate]]
OtherDefault == [MCFirstFile EXCEPT !.parts.launch.rules[1].default = "claude"]
NoBackend == [MCFirstFile EXCEPT !.parts.execution.backends = <<>>]
\* ... and some that are fine.
Moved == [MCFirstFile EXCEPT !.leaf = <<"tmux_socket_template">> :> Str("elsewhere") @@ @]
Fixed == [MCFirstFile EXCEPT !.tables = {<<"tui">>, <<"audit">>},
            !.leaf = <<"default_launch_mode">> :> Str("fixed") @@ <<"default_launch_user">> :> Str("bob") @@
                     <<"audit", "enabled">> :> Bool(FALSE) @@ <<"session_prefix">> :> Str("ux-")]
\* ... or void the records of the sessions that run.
Relocated == [MCFirstFile EXCEPT !.leaf = <<"launch_record_dir">> :> Str("absolute") @@
                                          <<"session_prefix">> :> Str("ux-") @@ @]
Retimed == [Fixed EXCEPT !.parts.execution.backends.box.timeout = 9,
                         !.leaf = <<"session_prefix">> :> Str("") @@ @]
Plain == [MCFirstFile EXCEPT !.tables = {<<"tui">>, <<"tui", "table">>}, !.leaf = <<>>]
Nobody == [MCFirstFile EXCEPT !.leaf = <<"default_launch_mode">> :> Str("fixed")]

MCCopied == {Torn, HalfARuntime, OtherDefault, NoBackend, Moved, Relocated, Retimed}
MCPayloads == {Fixed, Plain, Nobody}

Quiet == [editors |-> {}, keys |-> {}, files |-> {}, commands |-> {}, asks |-> {}]
KillAll == {ask \in MCAsks : ask.op = "kill-all"}
KillOwnApi == {ask \in MCAsks : ask.op = "kill" /\ ask.id = <<"api">> /\ ask.user = NotAsked}

MCScenes ==
  {\* two writers on two settings of one file, which may be torn
   [Quiet EXCEPT !.editors = {e1, e2}, !.files = {Torn},
                 !.keys = {<<"session_prefix">>, <<"tmux", "manage_options">>}],
   \* every setting by one writer, and files rendered from a payload
   [Quiet EXCEPT !.editors = {e1}, !.keys = MCEdited, !.files = MCPayloads],
   \* the prefix of names, under a running command
   [Quiet EXCEPT !.editors = {e1}, !.commands = {c1}, !.asks = KillOwnApi,
                 !.keys = {<<"session_prefix">>}],
   \* files that are replaced under a running command
   [Quiet EXCEPT !.commands = {c1}, !.asks = KillAll,
                 !.files = {HalfARuntime, OtherDefault, NoBackend, Moved, Fixed}],
   \* ... and that void its records
   [Quiet EXCEPT !.commands = {c1}, !.asks = KillAll, !.files = {Relocated, Retimed, Fixed}],
   \* two commands
   [Quiet EXCEPT !.commands = {c1, c2}, !.asks = MCAsks]}

Symmetry == Permutations({e1, e2}) \union Permutations({c1, c2})
=============================================================================
