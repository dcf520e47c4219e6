--------------------------- MODULE SettingsEditor ---------------------------
(***************************************************************************)
(* The settings screens of TUIs run as root or not, other writers of the   *)
(* host's configuration, and what is on disk.  Nobody locks the file: it is*)
(* read, edited and renamed into place.  A rename is kept by a crash of the*)
(* host for certain only once the directory has been synced.               *)
(***************************************************************************)
EXTENDS HostConfig, FiniteSets

CONSTANTS
  Editors,    \* settings screens
  Root,       \* those of a TUI run as root
  Edited,     \* the settings that are edited
  Typed,      \* what may be entered for each
  Payloads,   \* what `uxon config render` is asked to render
  Copied,     \* files that are copied over the configuration by other means
  FirstFile,  \* the configuration at first
  MaxWrites   \* bound: no edit or copy begins after so many

VARIABLES
  config,   \* the file with its number, and what the disk may hold after a crash
  screen,   \* where each screen is and what it is about to do
  draft,    \* a rendered file with the payload it was made from
  saved     \* history: the newest number a screen has reported as saved

editVars == <<config, screen, draft, saved>>

Broken == [state |-> "broken", tables |-> {}, leaf |-> <<>>, parts |-> FirstFile.parts]
NoEdit == [op |-> "none", key |-> <<>>, value |-> Str("")]
Closed == [at |-> "closed", job |-> NoEdit, text |-> Broken, new |-> Broken, number |-> 0]

Kinds ==
  [k \in {<<"enable_all_users_list">>, <<"git_create_enabled">>, <<"tmux", "set_terminal_title">>,
          <<"tmux", "manage_options">>} |-> "bool"] @@
  [k \in {<<"tui_refresh_interval_seconds">>, <<"tui_ssh_refresh_interval_seconds">>,
          <<"ssh_control_persist_seconds">>} |-> "number"] @@
  [k \in {<<"session_users">>, <<"allowed_roots">>, <<"legacy_session_prefixes">>,
          <<"tui", "table", "columns">>, <<"tui", "search", "fields">>,
          <<"tui", "color_palette">>} |-> "array"] @@
  [k \in DOMAIN Allowed |-> "enum"] @@ <<"launch_user_by_caller">> :> "table" @@
  [k \in {<<"default_launch_user">>, <<"session_prefix">>, <<"new_project_root">>, <<"worktree_root">>,
          <<"tmux_socket_template">>, <<"local_host", "color">>} |-> "string"]

ASSUME EditorAssumption ==
  /\ Root \subseteq Editors /\ Edited \subseteq DOMAIN Kinds
  /\ \A k \in Edited : Kinds[k] = "enum" => Typed[k] \subseteq Allowed[k]

\* What a file is made of.
IsFile(f) == f = [state |-> f.state, tables |-> f.tables, leaf |-> f.leaf, parts |-> f.parts]

ASSUME FilesAssumption == \A f \in {FirstFile} \union Payloads \union Copied : IsFile(f)

\* The modals: what is entered for a setting of a kind becomes this value.
Parsed(k, entry) ==
  CASE Kinds[k] \in {"enum", "string"} -> Str(entry)
    [] Kinds[k] = "number" -> Real(entry)
    [] Kinds[k] = "bool" -> Bool(entry)
    [] Kinds[k] = "array" -> List(entry)
    [] Kinds[k] = "table" -> Table(entry)

EditorInit ==
  /\ config = [now |-> FirstFile, number |-> 0, disk |-> {[file |-> FirstFile, number |-> 0]}]
  /\ screen = [e \in Editors |-> Closed]
  /\ draft = [of |-> Broken, file |-> Broken]
  /\ saved = 0

Goes(e, from, to) == screen[e].at = from /\ screen' = [screen EXCEPT ![e].at = to]

\* The file goes to the disk under the next number.
Puts(file, sure) ==
  config' = [now |-> file, number |-> config.number + 1,
             disk |-> (IF sure THEN {} ELSE config.disk) \union
                        {[file |-> file, number |-> config.number + 1]}]

\* _reload: the table of settings, or an empty one.
Listed == IF config.now.state = "broken" THEN "empty" ELSE "list"

Open(e) == Goes(e, "closed", Listed) /\ UNCHANGED <<config, draft, saved>>

\* action_back.
Leave(e) ==
  /\ screen[e].at \in {"empty", "list"}
  /\ screen' = [screen EXCEPT ![e] = Closed]
  /\ UNCHANGED <<config, draft, saved>>

\* action_edit and action_reset, which ask whether the process is root.
Begins(e, at, job) ==
  /\ screen[e].at = "list" /\ e \in Root /\ config.number < MaxWrites
  /\ screen' = [screen EXCEPT ![e].at = at, ![e].job = job]
  /\ UNCHANGED <<config, draft, saved>>

Edit(e, k) == Begins(e, "modal", [op |-> "save", key |-> k, value |-> Str("")])
Reset(e, k) == Begins(e, "read", [op |-> "reset", key |-> k, value |-> Str("")])

\* Text that is no number is refused and the modal stays.
Submit(e) ==
  /\ screen[e].at = "modal"
  /\ \E entry \in Typed[screen[e].job.key] :
       screen' = [screen EXCEPT ![e].at = "read",
                                ![e].job.value = Parsed(screen[e].job.key, entry)]
  /\ UNCHANGED <<config, draft, saved>>

Cancel(e) == Goes(e, "modal", "list") /\ UNCHANGED <<config, draft, saved>>

\* The screen reports a failure and shows what it showed.
Fails(e) ==
  /\ screen[e].at \in {"stage", "sync"} \union (IF config.now.state = "broken" THEN {"read"} ELSE {})
  /\ screen' = [screen EXCEPT ![e] = [Closed EXCEPT !.at = "list"]]
  /\ UNCHANGED <<config, draft, saved>>

\* persist_operator_config_updates and remove_operator_key: the text is read
\* and changed; to reset what is not set needs no write.
NothingToRemove(job, file) == job.op = "reset" /\ job.key \notin DOMAIN file.leaf

Read(e) ==
  /\ screen[e].at = "read"
  /\ config.now.state # "broken"
  /\ LET job == screen[e].job
     IN  screen' = [screen EXCEPT ![e].at = IF NothingToRemove(job, config.now) THEN "report" ELSE "stage",
                                  ![e].text = config.now,
                                  ![e].new = IF job.op = "save" THEN Updated(config.now, job.key, job.value)
                                             ELSE Removed(config.now, job.key)]
  /\ UNCHANGED <<config, draft, saved>>

\* write_operator_config_toml: a file beside it, written and synced, ...
Stage(e) == Goes(e, "stage", "install") /\ UNCHANGED <<config, draft, saved>>

\* ... is renamed over it, ...
Install(e) ==
  /\ screen[e].at = "install"
  /\ Puts(screen[e].new, FALSE)
  /\ screen' = [screen EXCEPT ![e].at = "sync", ![e].number = config'.number]
  /\ UNCHANGED <<draft, saved>>

\* Mutant of SyncDirectory: the rename is left to the file system.
SyncNothing(e) == Goes(e, "sync", "report") /\ UNCHANGED <<config, draft, saved>>

\* ... and the directory is synced.
SyncDirectory(e) ==
  /\ Goes(e, "sync", "report")
  /\ config' = [config EXCEPT !.disk = {[file |-> config.now, number |-> config.number]}]
  /\ UNCHANGED <<draft, saved>>

Report(e) ==
  /\ screen[e].at = "report"
  /\ saved' = IF screen[e].number > saved THEN screen[e].number ELSE saved
  /\ screen' = [screen EXCEPT ![e] = [Closed EXCEPT !.at = Listed]]
  /\ UNCHANGED <<config, draft>>

Edits(e, keys) ==
  \/ Open(e) \/ Leave(e) \/ Submit(e) \/ Cancel(e) \/ Fails(e)
  \/ \E k \in keys : Edit(e, k) \/ Reset(e, k)
  \/ Read(e) \/ Stage(e) \/ Install(e) \/ SyncDirectory(e) \/ Report(e)

-----------------------------------------------------------------------------
\* `uxon config render` answers only for a payload the loader accepts.
Render(p) ==
  /\ draft.file = Broken /\ Loads(p)
  /\ draft' = [of |-> p, file |-> Rendered(p)]
  /\ UNCHANGED <<config, screen, saved>>

\* The operator installs what was rendered, or copies another file there.
InstallDraft ==
  /\ draft.file # Broken /\ config.number < MaxWrites
  /\ Puts(draft.file, FALSE)
  /\ draft' = [of |-> Broken, file |-> Broken]
  /\ UNCHANGED <<screen, saved>>

Copy(f) ==
  /\ config.number < MaxWrites /\ f # config.now
  /\ Puts(f, FALSE)
  /\ UNCHANGED <<screen, draft, saved>>

\* The host goes down; screens and sessions are gone.
HostCrashes ==
  /\ \E d \in config.disk : config' = [config EXCEPT !.now = d.file, !.disk = {d}]
  /\ screen' = [e \in Editors |-> Closed]
  /\ UNCHANGED <<draft, saved>>

-----------------------------------------------------------------------------
\* A save that has been reported is not undone by a crash: whatever the disk
\* may hold is that file or a later one (settings.py, write_operator_config_toml).
SavedIsKept == \A d \in config.disk : d.number >= saved

\* Every writer changes what it was asked to and nothing else: a screen's new
\* text sets what the text it read set, but for the setting edited, which a
\* reset brings back to its default; and a rendered file is accepted and sets
\* what its payload sets (settings_toml.py, config_renderer.py).
AskedOf(job) == IF job.op = "save" THEN job.value ELSE Defaults[job.key]

WritersAreExact ==
  /\ \A e \in Editors : screen[e].at \in {"stage", "install"} =>
       /\ Settings(screen[e].new) =
            [Settings(screen[e].text) EXCEPT ![screen[e].job.key] = AskedOf(screen[e].job)]
       /\ screen[e].new.parts = screen[e].text.parts
  /\ draft.file # Broken =>
       /\ Loads(draft.file) /\ Settings(draft.file) = Settings(draft.of)
       /\ draft.file.parts = draft.of.parts

\* What the screen asks for in its description is what the loader accepts:
\* "integer seconds. Must be > 0" (settings.py:127).
PersistSaveLoads == \A e \in Editors :
  /\ screen[e].at = "stage" /\ screen[e].job.op = "save"
  /\ screen[e].job.key = <<"ssh_control_persist_seconds">> /\ screen[e].job.value.says = "positive"
  /\ Loads(screen[e].text)
  => Loads(screen[e].new)

-----------------------------------------------------------------------------
(* Why: numbers only grow, and nothing on the disk is older than what has    *)
(* been reported or is about to be; a screen's new text is one change to the *)
(* text it read, and a draft one rendering of what was accepted.             *)

EditorShapes ==
  /\ config = [now |-> config.now, number |-> config.number, disk |-> config.disk]
  /\ screen = [e \in Editors |-> screen[e]]
  /\ \A e \in Editors : screen[e] = [at |-> screen[e].at, job |-> screen[e].job, text |-> screen[e].text,
                                      new |-> screen[e].new, number |-> screen[e].number]

DiskIsRecent ==
  /\ config.number \in Nat /\ saved \in 0 .. config.number
  /\ \A d \in config.disk : d.number \in saved .. config.number

ScreensAreRecent == \A e \in Editors :
  /\ screen[e].number \in 0 .. config.number
  /\ screen[e].at \notin {"sync", "report"} => screen[e].number = 0
  /\ screen[e].at = "report" => \A d \in config.disk : screen[e].number =< d.number

FilesOnly == IsFile(config.now) /\ \A d \in config.disk : IsFile(d.file)

OneChange == \A e \in Editors : screen[e].at \in {"stage", "install"} =>
  LET job == screen[e].job  text == screen[e].text
  IN  /\ IsFile(text)
      /\ screen[e].new = IF job.op = "save" THEN Updated(text, job.key, job.value)
                         ELSE Removed(text, job.key)

DraftIsRendered == draft.file # Broken =>
  draft.of \in Payloads /\ Loads(draft.of) /\ draft.file = Rendered(draft.of)

EditorInv ==
  EditorShapes /\ DiskIsRecent /\ ScreensAreRecent /\ FilesOnly /\ OneChange /\ DraftIsRendered
=============================================================================
