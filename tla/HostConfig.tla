----------------------------- MODULE HostConfig -----------------------------
(***************************************************************************)
(* The host-wide operator configuration, /etc/uxon/config.toml, as its     *)
(* readers and writers see it.  A file is missing, broken (no TOML) or toml*)
(* and holds, by path, the tables and the scalar settings that are written *)
(* in it, and the structured tables as parts.  A setting has a type and    *)
(* says something: a text, a list, or one of "positive", "zero" and        *)
(* "infinite" for a number.                                                *)
(***************************************************************************)
EXTENDS ConfigParts, TLC

Str(s)  == [type |-> "str", says |-> s]
Bool(b) == [type |-> "bool", says |-> b]
List(s) == [type |-> "list", says |-> s]
Table(s) == [type |-> "table", says |-> s]
Whole(n) == [type |-> "int", says |-> n]
Real(n) == [type |-> "float", says |-> n]

\* Values that settings share.
On == Bool(TRUE)
Off == Bool(FALSE)
NoText == Str("")
Nothing == List(<<>>)

Section(k) == <<k[1]>>
Ancestors(k) == {SubSeq(k, 1, n) : n \in 1 .. Len(k) - 1}

\* DEFAULT_CONFIG.
DefaultEntries ==
  {<< <<"default_launch_user">>, NoText>>, << <<"default_launch_mode">>, Str("caller")>>,
   << <<"enable_all_users_list">>, Off>>, << <<"launch_user_by_caller">>, Table("empty")>>,
   << <<"session_users">>, Nothing>>, << <<"allowed_roots">>, Nothing>>,
   << <<"session_prefix">>, Str("uxon-")>>, << <<"legacy_session_prefixes">>, Nothing>>,
   << <<"new_project_root">>, Str("absolute")>>, << <<"repeat_noninteractive_mode">>, Str("fail")>>,
   << <<"worktree_root">>, NoText>>, << <<"worktree_base">>, Str("local")>>,
   << <<"tmux_socket_template">>, Str("per_user")>>, << <<"launch_record_dir">>, NoText>>,
   << <<"tui_refresh_interval_seconds">>, Real("positive")>>,
   << <<"tui_ssh_refresh_interval_seconds">>, Real("positive")>>,
   << <<"ssh_multiplex">>, Str("auto")>>, << <<"ssh_control_persist_seconds">>, Whole("positive")>>,
   << <<"fetch_concurrency">>, Whole("positive")>>, << <<"git_create_enabled">>, Off>>,
   << <<"tui", "table", "columns">>, Nothing>>,
   << <<"tui", "table", "default_view">>, Str("flat")>>,
   << <<"tui", "search", "fields">>, List(<<"name", "user">>)>>,
   << <<"tui", "color_palette">>, List(<<"cyan", "blue">>)>>,
   << <<"local_host", "color">>, Str("green")>>, << <<"audit", "enabled">>, On>>,
   << <<"audit", "syslog_facility">>, Str("user")>>,
   << <<"tmux", "set_terminal_title">>, On>>, << <<"tmux", "manage_options">>, Off>>,
   << <<"tmux", "options">>, Table("recommended")>>,
   << <<"tmux", "server_options">>, Table("recommended")>>,
   << <<"tmux", "append_server_options">>, Table("recommended")>>}

\* A table is a set of pairs of a path and a value.
Lookup(entries, k) == (CHOOSE e \in entries : e[1] = k)[2]

Keys == {e[1] : e \in DefaultEntries}
Defaults == [k \in Keys |-> Lookup(DefaultEntries, k)]
KnownTables == UNION {Ancestors(k) : k \in Keys}

\* What _parse_config_or_fail falls back on where a section is there and the
\* setting is not: it reads every one with a default of its own.
FallbackEntries ==
  {<< <<"tui", "table", "columns">>, Nothing>>,
   << <<"tui", "table", "default_view">>, Str("flat")>>,
   << <<"tui", "search", "fields">>, List(<<"name", "user">>)>>,
   << <<"tui", "color_palette">>, List(<<"cyan", "blue">>)>>,
   << <<"local_host", "color">>, Str("green")>>, << <<"audit", "enabled">>, On>>,
   << <<"audit", "syslog_facility">>, Str("user")>>,
   << <<"tmux", "set_terminal_title">>, On>>, << <<"tmux", "manage_options">>, Off>>,
   << <<"tmux", "options">>, Table("recommended")>>,
   << <<"tmux", "server_options">>, Table("recommended")>>,
   << <<"tmux", "append_server_options">>, Table("recommended")>>}

Fallbacks == [k \in {e[1] : e \in FallbackEntries} |-> Lookup(FallbackEntries, k)]

\* merge_config replaces a section as a whole.
Merged(f, k) ==
  CASE k \in DOMAIN f.leaf -> f.leaf[k]
    [] k \notin DOMAIN f.leaf /\ Len(k) > 1 /\ Section(k) \in f.tables -> Fallbacks[k]
    [] OTHER -> Defaults[k]

\* What the file sets, whether or not it can be accepted.
Settings(f) == [k \in Keys |-> Merged(f, k)]

-----------------------------------------------------------------------------
(* What the loader accepts.                                                 *)

Intervals == {<<"tui_refresh_interval_seconds">>, <<"tui_ssh_refresh_interval_seconds">>}
Counts == {<<"ssh_control_persist_seconds">>, <<"fetch_concurrency">>}

\* validate_public_config: types are never coerced.
TypeRight(k, v) ==
  IF k \in Intervals THEN v.type \in {"int", "float"} /\ v.says # "infinite"
  ELSE v.type = Defaults[k].type

AllowedEntries ==
  {<< <<"default_launch_mode">>, {"caller", "fixed"}>>,
   << <<"repeat_noninteractive_mode">>, {"fail", "attach", "new"}>>,
   << <<"worktree_base">>, {"local", "remote"}>>, << <<"ssh_multiplex">>, {"auto", "off"}>>,
   << <<"tui", "table", "default_view">>, {"by_host", "flat"}>>}
Allowed == [k \in {e[1] : e \in AllowedEntries} |-> Lookup(AllowedEntries, k)]

ValueRight(k, v) ==
  CASE k \in DOMAIN Allowed -> v.says \in Allowed[k]
    [] k \in Intervals \union Counts -> v.says = "positive"
    [] k = <<"new_project_root">> -> v.says = "absolute"
    [] k = <<"launch_record_dir">> -> v.says \in {"", "absolute"}
    [] k = <<"allowed_roots">> -> Names(v.says) \subseteq {"absolute"}
    [] k \in {<<"tmux_socket_template">>, <<"local_host", "color">>} -> v.says # ""
    [] k = <<"tui", "search", "fields">> -> Names(v.says) \subseteq {"name", "user", "host", "path", "cmd"}
    [] k = <<"tui", "color_palette">> -> "" \notin Names(v.says)
    [] OTHER -> TRUE

\* load_config.  Unknown keys are refused at every level.
Loads(f) ==
  /\ f.state # "broken"
  /\ DOMAIN f.leaf \subseteq Keys /\ f.tables \subseteq KnownTables
  /\ \A k \in DOMAIN f.leaf : TypeRight(k, f.leaf[k])
  /\ \A k \in Keys : ValueRight(k, Merged(f, k))
  /\ PartsOK(f.parts)

\* The prefixes that make a session's name one of uxon's.
SessionPrefixes(f) ==
  LET own == Merged(f, <<"session_prefix">>).says
  IN  <<own>> \o SelectSeq(Merged(f, <<"legacy_session_prefixes">>).says,
                           LAMBDA p : p # "" /\ p # own)

-----------------------------------------------------------------------------
(* The writers.                                                             *)

\* Mutant of Updated: set_dotted makes the tables on the way anew.
UpdatedAnew(f, k, v) ==
  [f EXCEPT !.state = "toml", !.tables = @ \union Ancestors(k),
            !.leaf = k :> v @@ [j \in {i \in DOMAIN @ : Section(i) # Section(k) \/ Len(k) = 1} |-> @[j]]]

\* update_operator_config_text and set_dotted: one setting, and the tables on
\* the way to it that are not there yet.
Updated(f, k, v) ==
  [f EXCEPT !.state = "toml", !.tables = @ \union Ancestors(k),
            !.leaf = [j \in DOMAIN @ \union {k} |-> IF j = k THEN v ELSE @[j]]]

\* remove_operator_key: the table stays, be it empty.
Removed(f, k) == [f EXCEPT !.leaf = [j \in DOMAIN @ \ {k} |-> @[j]]]

\* render_config: a payload that the loader accepts, some settings made
\* explicit, texts and sections that are empty left out.
Explicit == {<<"default_launch_mode">>, <<"enable_all_users_list">>, <<"session_prefix">>,
             <<"legacy_session_prefixes">>, <<"allowed_roots">>, <<"session_users">>,
             <<"repeat_noninteractive_mode">>, <<"tmux_socket_template">>, <<"launch_user_by_caller">>}
LeftOut(f) == {k \in {<<"default_launch_user">>, <<"new_project_root">>, <<"launch_record_dir">>} :
                 Merged(f, k) = NoText}
Rendered(f) ==
  [f EXCEPT !.state = "toml",
            !.tables = {t \in @ : \E d \in DOMAIN f.leaf \union (f.tables \ {Section(t)}) :
                                     Section(d) = Section(t)},
            !.leaf = [k \in (DOMAIN @ \ LeftOut(f)) \union Explicit |-> Merged(f, k)]]
=============================================================================
