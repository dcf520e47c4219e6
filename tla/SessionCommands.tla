-------------------------- MODULE SessionCommands --------------------------
(***************************************************************************)
(* `uxon attach`, `uxon kill` and `uxon kill-all` on this host.  A command *)
(* loads the configuration once, asks tmux once for the sessions at the    *)
(* place it gives, freezes what it chose, asks for confirmation and then   *)
(* acts on the identities it froze; sessions come and go meanwhile.        *)
(*                                                                         *)
(* A name is a sequence of its parts: <<"uxon-", "api", "@", "claude">>.   *)
(* The home of a session is where its server is found: what the socket     *)
(* template says and where the execution backend of its user leads.  Its   *)
(* record, if there is one, is in the directory that was configured when   *)
(* it was launched, and says through which backend.                        *)
(***************************************************************************)
EXTENDS HostConfig, SequencesExt

CONSTANTS
  Commands,    \* running commands
  Asks,        \* what they may be asked: [op, id, user, force]
  Users,       \* the users of the host
  Caller,      \* the one who runs them
  Mapped,      \* the user the caller is mapped to if the file maps anybody
  Launches,    \* what others launch: [stem, profile, managed]
  MaxSessions  \* bound: sessions ever opened

VARIABLES
  sessions,  \* the sessions there are
  opened,    \* how many ever were
  command

commandVars == <<sessions, opened, command>>

NotAsked == "default"
NoAsk == [op |-> None, id |-> <<>>, user |-> NotAsked, force |-> FALSE]
NotLoaded == [state |-> "none", tables |-> {}, leaf |-> <<>>, parts |-> <<>>]
Idle == [at |-> "idle", ask |-> NoAsk, file |-> NotLoaded, rows |-> {}, chosen |-> {}, left |-> {},
         ok |-> TRUE]

\* resolve_launch_user.
LaunchUser(f) ==
  CASE Merged(f, <<"launch_user_by_caller">>).says = "mapped" -> Mapped
    [] Merged(f, <<"launch_user_by_caller">>).says # "mapped"
       /\ Merged(f, <<"default_launch_mode">>).says = "caller" -> Caller
    [] OTHER -> Merged(f, <<"default_launch_user">>).says

Home(f, u) ==
  <<Merged(f, <<"tmux_socket_template">>).says, BackendSpec(f.parts, BackendFor(f.parts, u)).leads>>

\* What a launch record has to be to count, under a configuration.
RecordAt(f, u) ==
  [dir |-> Merged(f, <<"launch_record_dir">>).says, through |-> Fingerprint(f.parts, u)]

\* A session has one record or none.
RecordOf(f, u, launch) == IF launch.managed THEN {RecordAt(f, u)} ELSE {}

\* read_verified_record in the directory that is configured now, and only if
\* the user's backend is the same.
Verified(f, s) == RecordAt(f, s.user) \in s.record

-----------------------------------------------------------------------------
(* Names.                                                                   *)

Spelled(p) == IF p = "" THEN <<>> ELSE <<p>>
KnownPrefixes(f) == [i \in DOMAIN SessionPrefixes(f) |-> Spelled(SessionPrefixes(f)[i])]

\* candidate_session_name.
CandidateName(f, launch, index) ==
  Spelled(SessionPrefixes(f)[1]) \o <<launch.stem, "@", launch.profile>>
    \o (IF index = 1 THEN <<>> ELSE <<"-2">>)

\* parse_session_name: <prefix><stem>@<profile>[-N] for the first prefix that
\* fits; the result is a set with the stem, or with nothing.
Stems(name, p) ==
  {SubSeq(name, Len(p) + 1, n) : n \in
     {m \in Len(p) + 1 .. Len(name) - 2 :
        IsPrefix(p, name) /\ name[m + 1] = "@" /\ Len(name) <= m + 3}}
ParsedStem(f, name) ==
  LET fits == SelectSeq(KnownPrefixes(f), LAMBDA p : Stems(name, p) # {})
  IN  IF fits = <<>> THEN {} ELSE Stems(name, Head(fits))

\* The name without the first prefix it starts with.
Short(f, name) ==
  LET fits == SelectSeq(KnownPrefixes(f), LAMBDA p : IsPrefix(p, name))
  IN  IF fits = <<>> THEN name ELSE SubSeq(name, Len(Head(fits)) + 1, Len(name))

\* resolve_session: the first of these that is not empty decides, and has to
\* be a single session.
Matches(f, rows, id) ==
  << {s \in rows : s.name = id},
     {s \in rows : \E p \in Names(KnownPrefixes(f)) :
                     s.name = (IF IsPrefix(p, id) THEN id ELSE p \o id)},
     {s \in rows : id \in ParsedStem(f, s.name)},
     {s \in rows : IsPrefix(id, s.name) \/ IsPrefix(id, Short(f, s.name))},
     {s \in rows : id = <<s.pid>>} >>

Resolved(f, rows, id) ==
  LET hits == {i \in 1 .. 5 : Matches(f, rows, id)[i] # {}}
  IN  IF hits = {} THEN {} ELSE Matches(f, rows, id)[Min(hits)]

\* One of the prefixes that are configured, or were once and are kept.
OfUxon(f, name) == \E p \in Names(KnownPrefixes(f)) : IsPrefix(p, name)

\* Mutant of Rows: names alone decide.
RowsByName(f, u) ==
  {s \in sessions : s.user = u /\ s.home = Home(f, u) /\ OfUxon(f, s.name)}

\* collect_session_snapshot_for_user: what tmux lists at that place, if a
\* verified record or its prefix tells that it is one of uxon's.
Rows(f, u) ==
  {s \in sessions :
     s.user = u /\ s.home = Home(f, u) /\ (Verified(f, s) \/ OfUxon(f, s.name))}

-----------------------------------------------------------------------------
CommandsInit == sessions = {} /\ opened = 0 /\ command = [c \in Commands |-> Idle]

\* Other uxon processes launch sessions, under the lowest name that is free;
\* one that is not managed was started with tmux alone, by a controller whose
\* records are private, or its record is lost.
Opens(f, launch) ==
  /\ opened < MaxSessions /\ Loads(f) /\ LaunchUser(f) \in Users
  /\ \E u \in {LaunchUser(f)}, index \in 1 .. 2 :
       LET taken == {s.name : s \in {r \in sessions : r.user = u /\ r.home = Home(f, u)}}
       IN  /\ CandidateName(f, launch, index) \notin taken
           /\ index = 2 => CandidateName(f, launch, 1) \in taken
           /\ sessions' = sessions \union
                {[id |-> opened + 1, user |-> u, name |-> CandidateName(f, launch, index),
                  record |-> RecordOf(f, u, launch), pid |-> ToString(opened + 1), home |-> Home(f, u)]}
  /\ opened' = opened + 1
  /\ UNCHANGED command

Ends(s) == sessions' = sessions \ {s} /\ UNCHANGED <<opened, command>>

\* The process exits, with success or not.
Finish(c, ok) == command' = [command EXCEPT ![c] = [Idle EXCEPT !.ok = ok]]

\* load_config, at the start of every command.
Starts(c, f, ask) ==
  /\ command[c].at = "idle"
  /\ IF Loads(f) THEN command' = [command EXCEPT ![c] = [Idle EXCEPT !.at = "list", !.ask = ask, !.file = f]]
                 ELSE Finish(c, FALSE)
  /\ UNCHANGED <<sessions, opened>>

Target(c) ==
  IF command[c].ask.user = NotAsked THEN LaunchUser(command[c].file) ELSE command[c].ask.user

\* Another user has to be reachable, and the server has to answer.
CannotList(c) ==
  /\ command[c].at = "list"
  /\ Finish(c, FALSE)
  /\ UNCHANGED <<sessions, opened>>

Lists(c) ==
  /\ command[c].at = "list" /\ Target(c) \in Users
  /\ command' = [command EXCEPT ![c].at = "inspect", ![c].rows = Rows(command[c].file, Target(c))]
  /\ UNCHANGED <<sessions, opened>>

\* The panes of every session listed are read: one that ended meanwhile fails
\* the command.  The target is then chosen, or all of them are.
Chosen(c) ==
  IF command[c].ask.op = "kill-all" THEN command[c].rows
  ELSE Resolved(command[c].file, command[c].rows, command[c].ask.id)

Asking(c) ==
  /\ ~command[c].ask.force
  /\ \/ command[c].ask.op = "kill" /\ Target(c) # LaunchUser(command[c].file)
     \/ command[c].ask.op = "kill-all" /\ command[c].rows # {}

Inspects(c) ==
  /\ command[c].at = "inspect"
  /\ IF command[c].rows \subseteq sessions
        /\ (command[c].ask.op # "kill-all" => Cardinality(Chosen(c)) = 1)
     THEN command' = [command EXCEPT ![c].chosen = Chosen(c), ![c].left = Chosen(c),
            ![c].at = IF Asking(c) THEN "confirm"
                      ELSE IF command[c].ask.op = "attach" THEN "attach" ELSE "remove"]
     ELSE Finish(c, FALSE)
  /\ UNCHANGED <<sessions, opened>>

Confirms(c) ==
  /\ command[c].at = "confirm"
  /\ command' = [command EXCEPT ![c].at = "remove"]
  /\ UNCHANGED <<sessions, opened>>

\* No terminal to ask on, or another answer.
Cancels(c) ==
  /\ command[c].at = "confirm"
  /\ Finish(c, FALSE)
  /\ UNCHANGED <<sessions, opened>>

Attaches(c) ==
  /\ command[c].at = "attach"
  /\ Finish(c, command[c].chosen \subseteq sessions)
  /\ UNCHANGED <<sessions, opened>>

\* kill_expected: only a session whose record can be verified is ended; one
\* that is gone already is cleaned up after if its record is still there.
Took(c, s, ok) == command' = [command EXCEPT ![c].left = @ \ {s}, ![c].ok = @ /\ ok]

Removes(c, s) ==
  /\ command[c].at = "remove" /\ s \in command[c].left
  /\ Verified(command[c].file, s)
  /\ sessions' = sessions \ {s}
  /\ \E cleaned \in BOOLEAN : Took(c, s, cleaned)
  /\ UNCHANGED opened

CannotRemove(c, s) ==
  /\ command[c].at = "remove" /\ s \in command[c].left
  /\ Took(c, s, FALSE)
  /\ UNCHANGED <<sessions, opened>>

Reports(c) ==
  /\ command[c].at = "remove" /\ command[c].left = {}
  /\ Finish(c, command[c].ok)
  /\ UNCHANGED <<sessions, opened>>

CommandRuns(c, f, asks) ==
  \/ \E ask \in asks : Starts(c, f, ask)
  \/ CannotList(c) \/ Lists(c) \/ Inspects(c) \/ Confirms(c) \/ Cancels(c) \/ Attaches(c)
  \/ \E s \in command[c].left : Removes(c, s) \/ CannotRemove(c, s)
  \/ Reports(c)
=============================================================================
