------------------------ MODULE HostOperation_proofs ------------------------
(***************************************************************************)
(* A configuration that has loaded is usable, whatever its tables hold and *)
(* whatever screens, renderers, other tools and crashes make of the file.  *)
(***************************************************************************)
EXTENDS HostOperation, TLAPS

-----------------------------------------------------------------------------
(* The tables: what the loader accepts covers what the commands rely on.   *)

\* backend_for_user finds a backend for every user.
LEMMA BackendFound ==
  ASSUME NEW p, NEW u, ExecutionOK(p)
  PROVE  BackendFor(p, u) \in Backends(p)
BY DEF ExecutionOK, BackendFor

\* What is enabled is known.
LEMMA EnabledKnown ==
  ASSUME NEW p, LaunchOK(p)
  PROVE  Names(Enabled(p)) \subseteq Profiles(p)
<1>1. CASE AutoMode(p)
  BY <1>1 DEF Enabled, Names, Profiles, Shipped
<1>2. CASE ~AutoMode(p)
  BY <1>2 DEF Enabled, LaunchOK
<1> QED  BY <1>1, <1>2

\* Under a rule the loader accepts something can be launched, and its defaults
\* are among what it allows.
LEMMA RuleServes ==
  ASSUME NEW p, NEW r, RuleOK(p, r), Names(Enabled(p)) \subseteq Profiles(p)
  PROVE  /\ Names(r.allowed) # {} /\ Names(r.allowed) \subseteq Profiles(p)
         /\ r.default # None => r.default \in Names(r.allowed)
         /\ \A f \in Names(r.allowed) :
              WantedUnder(p, r, f) # None => WantedUnder(p, r, f) \in AllowedUnder(p, r, f)
BY DEF RuleOK

\* The action chosen for a runtime's resource fits the state it is in, and the
\* command it needs is configured.
LEMMA RuntimeActs ==
  ASSUME NEW r, RuntimeOK(r), NEW state \in {"running", "stopped", "absent"}
  PROVE  /\ ReadinessAction(r, state) # "fail" => ReadinessAction(r, state) \in DOMAIN r.templates
         /\ ReadinessAction(r, state) = "create" => state = "absent"
         /\ ReadinessAction(r, state) = "start" => state = "stopped"
<1>1. /\ "exec" \in DOMAIN r.templates
      /\ r.onMissing \in {"start", "create"} =>
           "ready" \in DOMAIN r.templates /\ "exists" \in DOMAIN r.templates
             /\ "start" \in DOMAIN r.templates
      /\ r.onMissing = "create" => "create" \in DOMAIN r.templates
  BY DEF RuntimeOK
<1>2. CASE SeenRunning(r, state)
  BY <1>1, <1>2 DEF ReadinessAction, SeenThere
<1>3. CASE ~SeenRunning(r, state) /\ SeenThere(r, state)
  BY <1>1, <1>3 DEF ReadinessAction, SeenRunning, SeenThere
<1>4. CASE ~SeenThere(r, state)
  BY <1>1, <1>4 DEF ReadinessAction, SeenRunning, SeenThere
<1> QED  BY <1>2, <1>3, <1>4

\* Every enabled profile has an agent with a mode, and a runtime.
LEMMA ProfileComplete ==
  ASSUME NEW p, \A a \in DOMAIN p.agents : AgentOK(p, a), LaunchOK(p),
         NEW f \in Names(Enabled(p))
  PROVE  /\ Profile(p, f).agent \in Catalog(p) /\ Modes(p, Profile(p, f).agent) # <<>>
         /\ Profile(p, f).runtime \in Runtimes(p)
<1>1. ASSUME NEW a \in Catalog(p) PROVE Modes(p, a) # <<>>
  <2>1. ShippedModes(a) # <<>>
    BY DEF ShippedModes
  <2>2. CASE a \in DOMAIN p.agents /\ p.agents[a].own
    BY <2>2 DEF Modes, AgentOK
  <2> QED  BY <2>1, <2>2 DEF Modes
<1>2. CASE f \in DOMAIN p.launch.profiles
  BY <1>1, <1>2 DEF LaunchOK, ProfileOK, Profile
<1>3. CASE f \notin DOMAIN p.launch.profiles
  <2>1. f \in Shipped
    BY <1>3, EnabledKnown DEF Profiles
  <2>2. Profile(p, f).agent = f /\ Profile(p, f).runtime = "direct"
    BY <1>3 DEF Profile
  <2> QED  BY <1>1, <2>1, <2>2 DEF Catalog, Runtimes
<1> QED  BY <1>2, <1>3

\* All that the commands take for granted follows from what the loader accepts.
THEOREM AcceptedIsUsable ==
  ASSUME NEW p, NEW users, PartsOK(p)
  PROVE  Usable(p, users)
<1>1. BackendsFound(p, users)
  BY BackendFound DEF PartsOK, BackendsFound
<1>2. ProfilesComplete(p)
  BY ProfileComplete DEF PartsOK, ProfilesComplete
<1>3. RuntimesActRightly(p)
  <2> SUFFICES ASSUME NEW i \in DOMAIN p.runtimes
               PROVE  /\ \A state \in {"running", "stopped", "absent"} :
                           /\ ReadinessAction(p.runtimes[i], state) # "fail" =>
                                ReadinessAction(p.runtimes[i], state) \in DOMAIN p.runtimes[i].templates
                           /\ ReadinessAction(p.runtimes[i], state) = "create" => state = "absent"
                           /\ ReadinessAction(p.runtimes[i], state) = "start" => state = "stopped"
                      /\ "stop" \in DOMAIN p.runtimes[i].templates =>
                           "identity" \in DOMAIN p.runtimes[i].templates
    BY DEF RuntimesActRightly
  <2>1. RuntimeOK(p.runtimes[i])
    BY DEF PartsOK, RuntimesOK
  <2>2. "stop" \in DOMAIN p.runtimes[i].templates => "identity" \in DOMAIN p.runtimes[i].templates
    BY <2>1 DEF RuntimeOK
  <2> QED  BY <2>1, <2>2, RuntimeActs
<1>4. RulesServe(p)
  BY RuleServes, EnabledKnown DEF PartsOK, LaunchOK, RulesServe
<1> QED  BY <1>1, <1>2, <1>3, <1>4 DEF Usable

-----------------------------------------------------------------------------
(* The commands: what they hold from loading on is what was accepted.      *)

Fields == {"at", "ask", "file", "rows", "chosen", "left", "ok"}
Shaped(r) == r = [x \in Fields |-> r[x]]

Accepted(f) ==
  /\ f = [c \in Commands |-> f[c]]
  /\ \A c \in Commands : Shaped(f[c]) /\ (f[c].at # "idle" => PartsOK(f[c].file.parts))

LoadedInv == scene \in Scenes /\ Accepted(command)

\* A record of a command is replaced by one whose file was accepted, ...
LEMMA Replaced ==
  ASSUME NEW f, Accepted(f), NEW c \in Commands, NEW r,
         Shaped(r), r.at # "idle" => PartsOK(r.file.parts)
  PROVE  Accepted([f EXCEPT ![c] = r])
<1> DEFINE g == [f EXCEPT ![c] = r]
<1>1. g = [d \in Commands |-> IF d = c THEN r ELSE f[d]]
  BY DEF Accepted
<1>2. \A d \in Commands : g[d] = IF d = c THEN r ELSE f[d]
  BY <1>1
<1>3. g = [d \in Commands |-> g[d]]
  BY <1>1, <1>2
<1> HIDE DEF g
<1>4. ASSUME NEW d \in Commands
      PROVE  Shaped(g[d]) /\ (g[d].at # "idle" => PartsOK(g[d].file.parts))
  <2>1. CASE d = c
    BY <1>2, <2>1
  <2>2. CASE d # c
    BY <1>2, <2>2 DEF Accepted
  <2> QED  BY <2>1, <2>2
<1> QED  BY <1>3, <1>4 DEF Accepted, g

\* ... or another field of it is, and the command holds what it held.
LEMMA FieldSet ==
  ASSUME NEW f, Accepted(f), NEW c \in Commands, PartsOK(f[c].file.parts),
         NEW k \in Fields, k # "file", NEW v
  PROVE  /\ Accepted([f EXCEPT ![c] = [f[c] EXCEPT ![k] = v]])
         /\ PartsOK([f EXCEPT ![c] = [f[c] EXCEPT ![k] = v]][c].file.parts)
<1> DEFINE r == [f[c] EXCEPT ![k] = v]
<1>1. Shaped(f[c])
  BY DEF Accepted
<1>2. r = [x \in Fields |-> IF x = k THEN v ELSE f[c][x]]
  BY <1>1 DEF Shaped
<1>3. \A x \in Fields : r[x] = IF x = k THEN v ELSE f[c][x]
  BY <1>2
<1>4. Shaped(r)
  BY <1>2, <1>3 DEF Shaped
<1>5. r.file = f[c].file
  BY <1>3 DEF Fields
<1> HIDE DEF r
<1>6. Accepted([f EXCEPT ![c] = r])
  BY <1>4, <1>5, Replaced
<1>7. [f EXCEPT ![c] = r][c] = r
  BY DEF Accepted
<1> QED  BY <1>5, <1>6, <1>7 DEF r

\* One command's step.
LEMMA CommandKeeps ==
  ASSUME Accepted(command), NEW c \in Commands, NEW f, NEW asks, CommandRuns(c, f, asks)
  PROVE  Accepted(command')
<1>1. ASSUME NEW ok, Finish(c, ok) PROVE Accepted(command')
  <2>1. Shaped([Idle EXCEPT !.ok = ok]) /\ [Idle EXCEPT !.ok = ok].at = "idle"
    BY DEF Shaped, Idle, Fields
  <2> QED  BY <1>1, <2>1, Replaced DEF Finish
<1>2. ASSUME NEW ask, Starts(c, f, ask) PROVE Accepted(command')
  <2>1. CASE Loads(f)
    <3> DEFINE r == [Idle EXCEPT !.at = "list", !.ask = ask, !.file = f]
    <3>1. PartsOK(f.parts)
      BY <2>1 DEF Loads
    <3>2. Shaped(r) /\ r.file = f
      BY DEF Shaped, Idle, Fields
    <3>3. command' = [command EXCEPT ![c] = r]
      BY <1>2, <2>1 DEF Starts
    <3> HIDE DEF r
    <3> QED  BY <3>1, <3>2, <3>3, Replaced
  <2>2. CASE ~Loads(f)
    BY <1>1, <1>2, <2>2 DEF Starts
  <2> QED  BY <2>1, <2>2
<1>3. CASE CannotList(c) \/ Cancels(c) \/ Attaches(c) \/ Reports(c)
  BY <1>1, <1>3 DEF CannotList, Cancels, Attaches, Reports
<1> DEFINE Put(g, k, v) == [g EXCEPT ![c] = [g[c] EXCEPT ![k] = v]]
<1>4. ASSUME command[c].at # "idle", NEW k \in Fields \ {"file"}, NEW v
      PROVE  Accepted(Put(command, k, v)) /\ PartsOK(Put(command, k, v)[c].file.parts)
  BY <1>4, FieldSet DEF Accepted
<1>5. ASSUME command[c].at # "idle", NEW k \in Fields \ {"file"}, NEW v,
             NEW l \in Fields \ {"file"}, NEW w
      PROVE  /\ Accepted(Put(Put(command, k, v), l, w))
             /\ PartsOK(Put(Put(command, k, v), l, w)[c].file.parts)
  <2> DEFINE g == Put(command, k, v)
  <2>1. Accepted(g) /\ PartsOK(g[c].file.parts)
    BY <1>4, <1>5
  <2> HIDE DEF g
  <2>2. Accepted(Put(g, l, w)) /\ PartsOK(Put(g, l, w)[c].file.parts)
    BY <2>1, FieldSet
  <2> QED  BY <2>2 DEF g
<1>6. CASE Lists(c)
  <2> DEFINE rows == Rows(command[c].file, Target(c))
  <2>1. /\ command' = Put(Put(command, "at", "inspect"), "rows", rows)
        /\ command[c].at # "idle"
    BY <1>6 DEF Lists
  <2> HIDE DEF Put, rows
  <2> QED  BY <1>5, <2>1 DEF Fields
<1>7. CASE Inspects(c)
  <2>1. CASE Finish(c, FALSE)
    BY <1>1, <2>1
  <2>2. CASE ~Finish(c, FALSE)
    <3> DEFINE chosen == Chosen(c)
               next == IF Asking(c) THEN "confirm"
                       ELSE IF command[c].ask.op = "attach" THEN "attach" ELSE "remove"
               g == Put(Put(command, "chosen", chosen), "left", chosen)
    <3>1. command' = Put(g, "at", next) /\ command[c].at # "idle"
      BY <1>7, <2>2 DEF Inspects
    <3>2. Accepted(g) /\ PartsOK(g[c].file.parts)
      BY <1>5, <3>1 DEF Fields
    <3> HIDE DEF g, next
    <3> QED  BY <3>1, <3>2, FieldSet DEF Fields
  <2> QED  BY <2>1, <2>2
<1>8. CASE Confirms(c)
  <2>1. command' = Put(command, "at", "remove") /\ command[c].at # "idle"
    BY <1>8 DEF Confirms
  <2> HIDE DEF Put
  <2> QED  BY <1>4, <2>1 DEF Fields
<1>9. ASSUME NEW s, Removes(c, s) \/ CannotRemove(c, s) PROVE Accepted(command')
  <2>1. PICK ok : Took(c, s, ok) /\ command[c].at # "idle"
    BY <1>9 DEF Removes, CannotRemove
  <2>2. PICK v, w : command' = Put(Put(command, "left", v), "ok", w)
    BY <2>1 DEF Took
  <2> HIDE DEF Put
  <2> QED  BY <1>5, <2>1, <2>2 DEF Fields
<1> QED  BY <1>2, <1>3, <1>6, <1>7, <1>8, <1>9 DEF CommandRuns

\* The configuration a command has loaded was accepted, in every behaviour.
THEOREM LoadedInvariant == Spec => []LoadedInv
<1>0. Shaped(Idle) /\ Idle.at = "idle"
  BY DEF Shaped, Idle, Fields
<1>1. Init => LoadedInv
  BY <1>0 DEF Init, CommandsInit, LoadedInv, Accepted
<1>2. LoadedInv /\ [Next]_vars => LoadedInv'
  <2> SUFFICES ASSUME LoadedInv, [Next]_vars PROVE LoadedInv'
    OBVIOUS
  <2>1. CASE UNCHANGED <<command, scene>>
    BY <2>1 DEF LoadedInv, Accepted
  <2>2. CASE command' = [c \in Commands |-> Idle] /\ UNCHANGED scene
    BY <1>0, <2>2 DEF LoadedInv, Accepted
  <2>3. ASSUME NEW c \in scene.commands, UNCHANGED scene,
               CommandRuns(c, config.now, scene.asks \intersect Asks)
        PROVE  LoadedInv'
    <3>1. c \in Commands
      BY SceneAssumption DEF LoadedInv
    <3>2. Accepted(command')
      BY <2>3, <3>1, CommandKeeps DEF LoadedInv
    <3> QED  BY <2>3, <3>2 DEF LoadedInv, Accepted
  <2> QED  BY <2>1, <2>2, <2>3 DEF Next, Runs, Opens, Ends, vars, commandVars
<1> QED  BY <1>1, <1>2, PTL DEF Spec

\* LoadedIsUsable: whatever a command does after loading, its users have a
\* backend, its profiles an agent and a runtime, its runtimes the commands they
\* need, and its rules leave something to launch.
THEOREM LoadedUsable == Spec => []LoadedIsUsable
<1>1. LoadedInv => LoadedIsUsable
  BY AcceptedIsUsable DEF LoadedInv, Accepted, LoadedIsUsable
<1> QED  BY <1>1, LoadedInvariant, PTL

-----------------------------------------------------------------------------
(* The configuration as tables of entries: what writing, removing and         *)
(* rendering do to the settings.                                              *)

(* A table that names a path once tells its value.                            *)
LEMMA EntryFound ==
  ASSUME NEW E, NEW e \in E, e = <<e[1], e[2]>>, \A d \in E : d[1] = e[1] => d = e
  PROVE  Lookup(E, e[1]) = e[2]
BY DEF Lookup

(* What the loader falls back on in a section are the defaults of its settings.*)
LEMMA FallbacksAreDefaults ==
  \A k \in Keys : Len(k) > 1 => Fallbacks[k] = Defaults[k]
<1>1. /\ FallbackEntries \subseteq DefaultEntries
      /\ \A d \in DefaultEntries : d = <<d[1], d[2]>> /\ (Len(d[1]) > 1 => d \in FallbackEntries)
  BY DEF DefaultEntries, FallbackEntries
<1>2. \A d \in FallbackEntries : \A e \in DefaultEntries : e[1] = d[1] => e = d
  BY DEF DefaultEntries, FallbackEntries
<1>3. ASSUME NEW d \in DefaultEntries, Len(d[1]) > 1
      PROVE  Fallbacks[d[1]] = Defaults[d[1]]
  <2>1. d \in FallbackEntries /\ d = <<d[1], d[2]>>
    BY <1>1, <1>3
  <2>2. Lookup(FallbackEntries, d[1]) = d[2]
    BY <1>1, <1>2, <2>1, EntryFound
  <2>3. Lookup(DefaultEntries, d[1]) = d[2]
    BY <1>2, <2>1, EntryFound
  <2> QED
    BY <2>1, <2>2, <2>3 DEF Fallbacks, Defaults, Keys
<1> QED
  BY <1>3 DEF Keys

(* So a setting is what the file says, or its default.                        *)
LEMMA MergedIs ==
  ASSUME NEW f, NEW k \in Keys
  PROVE  Merged(f, k) = IF k \in DOMAIN f.leaf THEN f.leaf[k] ELSE Defaults[k]
BY FallbacksAreDefaults DEF Merged

(* The settings that a rendering makes explicit or leaves out.                *)
LEMMA RenderedKeys ==
  /\ Explicit \subseteq Keys /\ Explicit \intersect Intervals = {}
  /\ <<"default_launch_user">> \in Keys /\ Defaults[<<"default_launch_user">>] = NoText
  /\ <<"launch_record_dir">> \in Keys /\ Defaults[<<"launch_record_dir">>] = NoText
  /\ <<"new_project_root">> \in Keys
  /\ <<"new_project_root">> \notin (DOMAIN Allowed) \union Intervals \union Counts
<1>1. Explicit \intersect Intervals = {}
  BY DEF Explicit, Intervals
<1>2. << <<"default_launch_user">>, NoText>> \in DefaultEntries
  BY DEF DefaultEntries
<1>3. << <<"launch_record_dir">>, NoText>> \in DefaultEntries
  BY DEF DefaultEntries
<1>4. << <<"new_project_root">>, Str("absolute")>> \in DefaultEntries
  BY DEF DefaultEntries
<1>5. \A d \in DefaultEntries : 
        /\ d[1] = <<"default_launch_user">> => d = << <<"default_launch_user">>, NoText>>
        /\ d[1] = <<"launch_record_dir">> => d = << <<"launch_record_dir">>, NoText>>
  BY DEF DefaultEntries
<1>6. Lookup(DefaultEntries, <<"default_launch_user">>) = NoText
  <2>1. PICK d \in DefaultEntries : d = << <<"default_launch_user">>, NoText>>
    BY <1>2
  <2> QED
    BY <1>5, <2>1, EntryFound
<1>7. Lookup(DefaultEntries, <<"launch_record_dir">>) = NoText
  <2>1. PICK d \in DefaultEntries : d = << <<"launch_record_dir">>, NoText>>
    BY <1>3
  <2> QED
    BY <1>5, <2>1, EntryFound
<1>8. /\ <<"default_launch_user">> \in Keys /\ <<"launch_record_dir">> \in Keys
      /\ <<"new_project_root">> \in Keys
  BY <1>2, <1>3, <1>4 DEF Keys
<1>9. Explicit \subseteq Keys
  <2>1. \A k \in Explicit : \E d \in DefaultEntries : d[1] = k
    BY DEF Explicit, DefaultEntries
  <2> QED
    BY <2>1 DEF Keys
<1>10. <<"new_project_root">> \notin DOMAIN Allowed
  <2>1. DOMAIN Allowed = {e[1] : e \in AllowedEntries}
    BY DEF Allowed
  <2>2. \A e \in AllowedEntries : e[1] # <<"new_project_root">>
    BY DEF AllowedEntries
  <2> QED
    BY <2>1, <2>2
<1>11. <<"new_project_root">> \notin Intervals \union Counts
  BY DEF Intervals, Counts
<1> QED
  BY <1>1, <1>6, <1>7, <1>8, <1>9, <1>10, <1>11 DEF Defaults

(* A file whose state, tables and settings are replaced.                      *)
LEMMA FileMade ==
  ASSUME NEW f, IsFile(f), NEW a, NEW b, NEW c
  PROVE  [f EXCEPT !.state = a, !.tables = b, !.leaf = c] =
           [state |-> a, tables |-> b, leaf |-> c, parts |-> f.parts]
<1>1. PICK s, t, l, p : f = [state |-> s, tables |-> t, leaf |-> l, parts |-> p] /\ f.parts = p
  BY DEF IsFile
<1>2. PICK g : g = [f EXCEPT !.state = a]
  OBVIOUS
<1>3. g = [state |-> a, tables |-> t, leaf |-> l, parts |-> p]
  BY <1>1, <1>2
<1>4. PICK h : h = [g EXCEPT !.tables = b]
  OBVIOUS
<1>5. h = [state |-> a, tables |-> b, leaf |-> l, parts |-> p]
  BY <1>3, <1>4
<1>6. [h EXCEPT !.leaf = c] = [state |-> a, tables |-> b, leaf |-> c, parts |-> p]
  BY <1>5
<1>7. [f EXCEPT !.state = a, !.tables = b, !.leaf = c] =
        [[[f EXCEPT !.state = a] EXCEPT !.tables = b] EXCEPT !.leaf = c]
  OBVIOUS
<1> QED
  BY <1>1, <1>2, <1>4, <1>6, <1>7

(* Writing a setting sets it, and nothing else; taking it out brings back its  *)
(* default.                                                                   *)
LEMMA WritingSets ==
  ASSUME NEW f, IsFile(f), NEW k, NEW v
  PROVE  /\ IsFile(Updated(f, k, v)) /\ Updated(f, k, v).parts = f.parts
         /\ Settings(Updated(f, k, v)) = [Settings(f) EXCEPT ![k] = v]
<1> DEFINE leaf == [j \in DOMAIN f.leaf \union {k} |-> IF j = k THEN v ELSE f.leaf[j]]
           new == [state |-> "toml", tables |-> f.tables \union Ancestors(k), leaf |-> leaf,
                   parts |-> f.parts]
<1>1. Updated(f, k, v) = new
  <2>1. Updated(f, k, v) = [f EXCEPT !.state = "toml", !.tables = f.tables \union Ancestors(k), !.leaf = leaf]
    BY DEF Updated
  <2> HIDE DEF leaf
  <2> QED
    BY <2>1, FileMade
<1>2. IsFile(new) /\ new.leaf = leaf /\ new.parts = f.parts
  BY DEF IsFile
<1> HIDE DEF new
<1>3. ASSUME NEW j \in Keys
      PROVE  Merged(new, j) = IF j = k THEN v ELSE Merged(f, j)
  BY <1>2, MergedIs
<1>4. Settings(new) = [Settings(f) EXCEPT ![k] = v]
  BY <1>3 DEF Settings
<1> QED
  BY <1>1, <1>2, <1>4

(* remove_operator_key: the setting is back at its default, and no other    *)
(* changes.                                                                 *)
LEMMA RemovingResets ==
  ASSUME NEW f, IsFile(f), NEW k
  PROVE  /\ IsFile(Removed(f, k)) /\ Removed(f, k).parts = f.parts
         /\ Settings(Removed(f, k)) = [Settings(f) EXCEPT ![k] = Defaults[k]]
<1> DEFINE leaf == [j \in DOMAIN f.leaf \ {k} |-> f.leaf[j]]
           new == [state |-> f.state, tables |-> f.tables, leaf |-> leaf, parts |-> f.parts]
<1>1. Removed(f, k) = new
  BY DEF IsFile, Removed
<1>2. IsFile(new) /\ new.leaf = leaf /\ new.parts = f.parts
  BY DEF IsFile
<1> HIDE DEF new
<1>3. ASSUME NEW j \in Keys
      PROVE  Merged(new, j) = IF j = k THEN Defaults[k] ELSE Merged(f, j)
  BY <1>2, MergedIs
<1>4. Settings(new) = [Settings(f) EXCEPT ![k] = Defaults[k]]
  BY <1>3 DEF Settings
<1> QED
  BY <1>1, <1>2, <1>4

(* What is rendered from an accepted payload is accepted, and sets what the   *)
(* payload sets.                                                              *)
LEMMA RenderingKeeps ==
  ASSUME NEW f, IsFile(f), Loads(f)
  PROVE  /\ IsFile(Rendered(f)) /\ Rendered(f).parts = f.parts
         /\ Settings(Rendered(f)) = Settings(f) /\ Loads(Rendered(f))
<1> DEFINE tables == {t \in f.tables : \E d \in DOMAIN f.leaf \union (f.tables \ {Section(t)}) :
                                          Section(d) = Section(t)}
           leaf == [k \in (DOMAIN f.leaf \ LeftOut(f)) \union Explicit |-> Merged(f, k)]
           new == [state |-> "toml", tables |-> tables, leaf |-> leaf, parts |-> f.parts]
<1>1. Rendered(f) = new
  <2>1. Rendered(f) = [f EXCEPT !.state = "toml", !.tables = tables, !.leaf = leaf]
    BY DEF Rendered
  <2> HIDE DEF leaf, tables
  <2> QED
    BY <2>1, FileMade
<1>2. /\ IsFile(new) /\ new.leaf = leaf /\ new.parts = f.parts /\ new.state = "toml"
      /\ new.tables \subseteq f.tables
  BY DEF IsFile
<1> HIDE DEF new
<1>3. /\ DOMAIN f.leaf \subseteq Keys /\ f.tables \subseteq KnownTables
      /\ \A k \in DOMAIN f.leaf : TypeRight(k, f.leaf[k])
      /\ \A k \in Keys : ValueRight(k, Merged(f, k)) /\ PartsOK(f.parts)
  BY DEF Loads
<1>4. Merged(f, <<"new_project_root">>) # NoText
  <2>1. ValueRight(<<"new_project_root">>, Merged(f, <<"new_project_root">>))
    BY <1>3, RenderedKeys
  <2>2. Merged(f, <<"new_project_root">>).says = "absolute"
    BY <2>1, RenderedKeys DEF ValueRight
  <2>3. NoText.says # "absolute"
    BY DEF NoText, Str
  <2> QED
    BY <2>2, <2>3
<1>5. ASSUME NEW k \in Keys
      PROVE  Merged(new, k) = Merged(f, k)
  <2>1. CASE k \in DOMAIN leaf
    BY <1>2, <2>1, MergedIs
  <2>2. CASE k \notin DOMAIN f.leaf
    BY <1>2, <2>1, <2>2, MergedIs
  <2>3. CASE k \in LeftOut(f) /\ k \notin Explicit
    <3>1. /\ Merged(f, k) = NoText
          /\ k \in {<<"default_launch_user">>, <<"launch_record_dir">>}
      BY <1>4, <2>3 DEF LeftOut
    <3>2. Defaults[k] = NoText
      BY <3>1, RenderedKeys
    <3> QED
      BY <1>2, <2>3, <3>1, <3>2, MergedIs
  <2> QED
    BY <2>1, <2>2, <2>3
<1>6. Settings(new) = Settings(f)
  BY <1>5 DEF Settings
<1>7. DOMAIN new.leaf \subseteq Keys
  BY <1>2, <1>3, RenderedKeys
<1>8. ASSUME NEW k \in DOMAIN new.leaf
      PROVE  TypeRight(k, new.leaf[k])
  <2>1. k \in Keys /\ new.leaf[k] = Merged(f, k)
    BY <1>2, <1>7
  <2>2. CASE k \in DOMAIN f.leaf
    BY <1>3, <2>1, <2>2, MergedIs
  <2>3. CASE k \notin DOMAIN f.leaf
    <3>1. k \notin Intervals
      BY <1>2, <2>3, RenderedKeys
    <3> QED
      BY <2>1, <2>3, <3>1, MergedIs DEF TypeRight
  <2> QED
    BY <2>2, <2>3
<1>9. Loads(new)
  BY <1>2, <1>3, <1>5, <1>7, <1>8 DEF Loads
<1> QED
  BY <1>1, <1>2, <1>6, <1>9

-----------------------------------------------------------------------------
(* The screens and the disk.                                                *)

ScreenIs(a, j, t, n, m) == [at |-> a, job |-> j, text |-> t, new |-> n, number |-> m]

(* What is said of a screen whose record is r, with the file as numbered and   *)
(* the disk as it may be.                                                      *)
ScreenOK(r, number, disk) ==
  /\ r = ScreenIs(r.at, r.job, r.text, r.new, r.number)
  /\ r.number \in 0 .. number
  /\ r.at \notin {"sync", "report"} => r.number = 0
  /\ r.at = "report" => \A d \in disk : r.number =< d.number
  /\ r.at \in {"stage", "install"} =>
       /\ IsFile(r.text)
       /\ r.new = IF r.job.op = "save" THEN Updated(r.text, r.job.key, r.job.value)
                  ELSE Removed(r.text, r.job.key)

(* The conjuncts about screens, one screen at a time.                       *)
LEMMA ScreensOK ==
  /\ screen = [e \in Editors |-> screen[e]] =>
       ((\A e \in Editors : ScreenOK(screen[e], config.number, config.disk)) <=>
          (/\ \A e \in Editors : screen[e] = ScreenIs(screen[e].at, screen[e].job, screen[e].text,
                                                     screen[e].new, screen[e].number)
           /\ ScreensAreRecent /\ OneChange))
BY DEF ScreenOK, ScreensAreRecent, OneChange

Becomes(e, r) == screen' = [screen EXCEPT ![e] = r]

(* A screen that changes alone.                                               *)
LEMMA ScreenKeeps ==
  ASSUME EditorInv, UNCHANGED <<config, draft, saved>>, NEW e \in Editors, NEW r,
         Becomes(e, r), ScreenOK(r, config.number, config.disk)
  PROVE  EditorInv'
<1>1. /\ screen = [c \in Editors |-> screen[c]]
      /\ \A c \in Editors : ScreenOK(screen[c], config.number, config.disk)
  BY ScreensOK DEF EditorInv, EditorShapes, ScreenIs
<1>2. screen' = [c \in Editors |-> IF c = e THEN r ELSE screen[c]]
  BY <1>1 DEF Becomes
<1>3. ASSUME NEW c \in Editors  PROVE ScreenOK(screen'[c], config.number, config.disk)
  BY <1>1, <1>2
<1>4. screen' = [c \in Editors |-> screen'[c]]
  BY <1>2
<1>5. /\ \A c \in Editors : screen'[c] = ScreenIs(screen'[c].at, screen'[c].job, screen'[c].text,
                                                 screen'[c].new, screen'[c].number)
      /\ ScreensAreRecent' /\ OneChange'
  BY <1>3 DEF ScreenOK, ScreensAreRecent, OneChange
<1> QED
  BY <1>4, <1>5 DEF EditorInv, EditorShapes, ScreenIs, DiskIsRecent, FilesOnly, DraftIsRendered

(* The fields of a screen, and setting one.                                   *)
LEMMA ScreenGet ==
  ASSUME NEW a, NEW j, NEW t, NEW n, NEW m
  PROVE  /\ ScreenIs(a, j, t, n, m).at = a /\ ScreenIs(a, j, t, n, m).job = j
         /\ ScreenIs(a, j, t, n, m).text = t /\ ScreenIs(a, j, t, n, m).new = n
         /\ ScreenIs(a, j, t, n, m).number = m
BY DEF ScreenIs

(* Two fields of a screen are set one after the other.                        *)
LEMMA TwoSteps ==
  ASSUME screen = [c \in Editors |-> screen[c]], NEW e \in Editors, NEW g, NEW r, NEW q,
         g = [screen EXCEPT ![e] = r]
  PROVE  [g EXCEPT ![e] = q] = [screen EXCEPT ![e] = q] /\ g[e] = r
<1>1. g = [c \in Editors |-> IF c = e THEN r ELSE screen[c]]
  OBVIOUS
<1>2. g[e] = r
  BY <1>1
<1>3. [g EXCEPT ![e] = q] = [c \in Editors |-> IF c = e THEN q ELSE screen[c]]
  BY <1>1
<1>4. [screen EXCEPT ![e] = q] = [c \in Editors |-> IF c = e THEN q ELSE screen[c]]
  OBVIOUS
<1> QED
  BY <1>2, <1>3, <1>4

(* What the record of one screen is, and how it changes.                       *)
LEMMA ScreenAt ==
  ASSUME EditorInv, NEW e \in Editors
  PROVE  /\ ScreenOK(screen[e], config.number, config.disk)
         /\ screen = [c \in Editors |-> screen[c]]
         /\ config.number \in Nat /\ saved \in 0 .. config.number
         /\ IsFile(config.now)
         /\ \A d \in config.disk : d.number \in saved .. config.number
BY ScreensOK DEF EditorInv, EditorShapes, ScreenIs, DiskIsRecent, FilesOnly

(* The ways a step changes a screen.                                          *)
SetsAt(e, p) == screen' = [screen EXCEPT ![e].at = p]
SetsJob(e, p, q) == screen' = [screen EXCEPT ![e].at = p, ![e].job = q]
SetsValue(e, p, q) == screen' = [screen EXCEPT ![e].at = p, ![e].job.value = q]
SetsNumber(e, p, q) == screen' = [screen EXCEPT ![e].at = p, ![e].number = q]
SetsTexts(e, p, q, s) == screen' = [screen EXCEPT ![e].at = p, ![e].text = q, ![e].new = s]

(* A screen of which only the step changes.                                 *)
LEMMA AtSet ==
  ASSUME EditorInv, NEW e \in Editors, NEW p,
         NEW a, NEW j, NEW t, NEW n, NEW m, screen[e] = ScreenIs(a, j, t, n, m),
         SetsAt(e, p)
  PROVE  Becomes(e, ScreenIs(p, j, t, n, m))
<1>1. PICK r : r = ScreenIs(p, j, t, n, m)
  OBVIOUS
<1>2. r = [screen[e] EXCEPT !.at = p]
  BY <1>1 DEF ScreenIs
<1>3. screen' = [screen EXCEPT ![e] = r]
  BY <1>2, ScreenAt DEF SetsAt
<1> QED
  BY <1>1, <1>3 DEF Becomes

(* A screen of which the edit changes too.                                  *)
LEMMA JobSet ==
  ASSUME EditorInv, NEW e \in Editors, NEW p, NEW q,
         NEW a, NEW j, NEW t, NEW n, NEW m, screen[e] = ScreenIs(a, j, t, n, m),
         SetsJob(e, p, q)
  PROVE  Becomes(e, ScreenIs(p, q, t, n, m))
<1>1. PICK g : g = [screen EXCEPT ![e].at = p]
  OBVIOUS
<1>2. PICK r : r = ScreenIs(p, j, t, n, m)
  OBVIOUS
<1>3. r = [screen[e] EXCEPT !.at = p]
  BY <1>2 DEF ScreenIs
<1>4. g = [screen EXCEPT ![e] = r]
  BY <1>1, <1>3, ScreenAt
<1>5. g[e] = r /\ \A x : [g EXCEPT ![e] = x] = [screen EXCEPT ![e] = x]
  BY <1>4, ScreenAt, TwoSteps
<1>6. screen' = [g EXCEPT ![e].job = q]
  BY <1>1 DEF SetsJob
<1>7. PICK x : x = ScreenIs(p, q, t, n, m)
  OBVIOUS
<1>8. x = [r EXCEPT !.job = q]
  BY <1>2, <1>7 DEF ScreenIs
<1>9. [g EXCEPT ![e].job = q] = [g EXCEPT ![e] = x]
  BY <1>5, <1>8
<1> QED
  BY <1>5, <1>6, <1>7, <1>9 DEF Becomes

(* A screen of which the reported number changes too.                       *)
LEMMA NumberSet ==
  ASSUME EditorInv, NEW e \in Editors, NEW p, NEW q,
         NEW a, NEW j, NEW t, NEW n, NEW m, screen[e] = ScreenIs(a, j, t, n, m),
         SetsNumber(e, p, q)
  PROVE  Becomes(e, ScreenIs(p, j, t, n, q))
<1>1. PICK g : g = [screen EXCEPT ![e].at = p]
  OBVIOUS
<1>2. PICK r : r = ScreenIs(p, j, t, n, m)
  OBVIOUS
<1>3. r = [screen[e] EXCEPT !.at = p]
  BY <1>2 DEF ScreenIs
<1>4. g = [screen EXCEPT ![e] = r]
  BY <1>1, <1>3, ScreenAt
<1>5. g[e] = r /\ \A x : [g EXCEPT ![e] = x] = [screen EXCEPT ![e] = x]
  BY <1>4, ScreenAt, TwoSteps
<1>6. screen' = [g EXCEPT ![e].number = q]
  BY <1>1 DEF SetsNumber
<1>7. PICK x : x = ScreenIs(p, j, t, n, q)
  OBVIOUS
<1>8. x = [r EXCEPT !.number = q]
  BY <1>2, <1>7 DEF ScreenIs
<1>9. [g EXCEPT ![e].number = q] = [g EXCEPT ![e] = x]
  BY <1>5, <1>8
<1> QED
  BY <1>5, <1>6, <1>7, <1>9 DEF Becomes

(* A screen of which the edited value changes too.                          *)
LEMMA ValueSet ==
  ASSUME EditorInv, NEW e \in Editors, NEW p, NEW q,
         NEW a, NEW j, NEW t, NEW n, NEW m, screen[e] = ScreenIs(a, j, t, n, m),
         SetsValue(e, p, q)
  PROVE  Becomes(e, ScreenIs(p, [j EXCEPT !.value = q], t, n, m))
<1>1. PICK g : g = [screen EXCEPT ![e].at = p]
  OBVIOUS
<1>2. PICK r : r = ScreenIs(p, j, t, n, m)
  OBVIOUS
<1>3. r = [screen[e] EXCEPT !.at = p]
  BY <1>2 DEF ScreenIs
<1>4. g = [screen EXCEPT ![e] = r]
  BY <1>1, <1>3, ScreenAt
<1>5. g[e] = r /\ \A x : [g EXCEPT ![e] = x] = [screen EXCEPT ![e] = x]
  BY <1>4, ScreenAt, TwoSteps
<1>6. screen' = [g EXCEPT ![e].job.value = q]
  BY <1>1 DEF SetsValue
<1>7. PICK v : v = [j EXCEPT !.value = q]
  OBVIOUS
<1>8. PICK x : x = ScreenIs(p, v, t, n, m)
  OBVIOUS
<1>9. x = [r EXCEPT !.job = v]
  BY <1>2, <1>8 DEF ScreenIs
<1>10. r.job = j
  BY <1>2, ScreenGet
<1>11. [r EXCEPT !.job.value = q] = [r EXCEPT !.job = v]
  BY <1>7, <1>10
<1>12. [g EXCEPT ![e].job.value = q] = [g EXCEPT ![e] = [g[e] EXCEPT !.job.value = q]]
  OBVIOUS
<1>13. [g EXCEPT ![e].job.value = q] = [g EXCEPT ![e] = x]
  BY <1>5, <1>9, <1>11, <1>12
<1> QED
  BY <1>5, <1>6, <1>7, <1>8, <1>13 DEF Becomes

(* A screen of which the texts change too.                                  *)
LEMMA TextsSet ==
  ASSUME EditorInv, NEW e \in Editors, NEW p, NEW q, NEW s,
         NEW a, NEW j, NEW t, NEW n, NEW m, screen[e] = ScreenIs(a, j, t, n, m),
         SetsTexts(e, p, q, s)
  PROVE  Becomes(e, ScreenIs(p, j, q, s, m))
<1>1. PICK g : g = [screen EXCEPT ![e].at = p]
  OBVIOUS
<1>2. PICK r : r = ScreenIs(p, j, t, n, m)
  OBVIOUS
<1>3. r = [screen[e] EXCEPT !.at = p]
  BY <1>2 DEF ScreenIs
<1>4. g = [screen EXCEPT ![e] = r]
  BY <1>1, <1>3, ScreenAt
<1>5. g[e] = r /\ \A x : [g EXCEPT ![e] = x] = [screen EXCEPT ![e] = x]
  BY <1>4, ScreenAt, TwoSteps
<1>6. PICK h : h = [g EXCEPT ![e].text = q]
  OBVIOUS
<1>7. PICK y : y = ScreenIs(p, j, q, n, m)
  OBVIOUS
<1>8. y = [r EXCEPT !.text = q]
  BY <1>2, <1>7 DEF ScreenIs
<1>9. h = [screen EXCEPT ![e] = y]
  BY <1>5, <1>6, <1>8
<1>10. h[e] = y /\ \A x : [h EXCEPT ![e] = x] = [screen EXCEPT ![e] = x]
  BY <1>9, ScreenAt, TwoSteps
<1>11. screen' = [h EXCEPT ![e].new = s]
  BY <1>1, <1>6 DEF SetsTexts
<1>12. PICK x : x = ScreenIs(p, j, q, s, m)
  OBVIOUS
<1>13. x = [y EXCEPT !.new = s]
  BY <1>7, <1>12 DEF ScreenIs
<1>14. [h EXCEPT ![e].new = s] = [h EXCEPT ![e] = x]
  BY <1>10, <1>13
<1> QED
  BY <1>10, <1>11, <1>12, <1>14 DEF Becomes

(* A closed screen, field by field.                                         *)
LEMMA ClosedIs ==
  /\ Closed = ScreenIs("closed", NoEdit, Broken, Broken, 0)
  /\ \A p : [Closed EXCEPT !.at = p] = ScreenIs(p, NoEdit, Broken, Broken, 0)
BY DEF Closed, ScreenIs

(* A screen that goes to a place where nothing is known of its file.           *)
LEMMA OpenScreen ==
  ASSUME NEW number \in Nat, NEW disk, NEW a, a \notin {"sync", "report", "stage", "install"},
         NEW j, NEW t, NEW n
  PROVE  ScreenOK(ScreenIs(a, j, t, n, 0), number, disk)
BY ScreenGet DEF ScreenOK

(* Opening, leaving, cancelling, failing and staging write nothing to the   *)
(* file.                                                                    *)
LEMMA GoesKeeps ==
  ASSUME EditorInv, NEW e \in Editors,
         \/ Open(e) \/ Leave(e) \/ Cancel(e) \/ Fails(e) \/ Stage(e)
  PROVE  EditorInv'
<1>1. PICK a, j, t, n, m : screen[e] = ScreenIs(a, j, t, n, m)
  BY ScreenAt DEF ScreenOK
<1>2. /\ UNCHANGED <<config, draft, saved>> /\ config.number \in Nat
      /\ Listed \in {"empty", "list"}
  BY ScreenAt DEF Open, Leave, Cancel, Fails, Stage, Listed
<1>3. ASSUME NEW from, NEW to, Goes(e, from, to)
      PROVE  a = from /\ Becomes(e, ScreenIs(to, j, t, n, m))
  <2>1. a = from /\ SetsAt(e, to)
    BY <1>1, <1>3, ScreenGet DEF Goes, SetsAt
  <2> QED
    BY <1>1, <2>1, AtSet
<1>4. CASE Open(e) \/ Cancel(e)
  <2>1. PICK to \in {"empty", "list"}, from \in {"closed", "modal"} : Goes(e, from, to)
    BY <1>2, <1>4 DEF Open, Cancel
  <2>2. m = 0
    BY <1>1, <1>3, <2>1, ScreenAt, ScreenGet DEF ScreenOK
  <2>3. ScreenOK(ScreenIs(to, j, t, n, m), config.number, config.disk)
    BY <1>2, <2>2, OpenScreen
  <2> QED
    BY <1>2, <1>3, <2>1, <2>3, ScreenKeeps
<1>5. CASE Leave(e) \/ Fails(e)
  <2>1. PICK to \in {"closed", "list"} :
          Becomes(e, ScreenIs(to, NoEdit, Broken, Broken, 0))
    BY <1>5, ClosedIs DEF Leave, Fails, Becomes
  <2>2. ScreenOK(ScreenIs(to, NoEdit, Broken, Broken, 0), config.number, config.disk)
    BY <1>2, OpenScreen
  <2> QED
    BY <1>2, <2>1, <2>2, ScreenKeeps
<1>6. CASE Stage(e)
  <2>1. a = "stage" /\ Becomes(e, ScreenIs("install", j, t, n, m))
    BY <1>3, <1>6 DEF Stage
  <2>2. ScreenOK(ScreenIs(a, j, t, n, m), config.number, config.disk)
    BY <1>1, ScreenAt
  <2>3. ScreenOK(ScreenIs("install", j, t, n, m), config.number, config.disk)
    BY <2>1, <2>2, ScreenGet DEF ScreenOK
  <2> QED
    BY <1>2, <2>1, <2>3, ScreenKeeps
<1> QED
  BY <1>4, <1>5, <1>6

(* Choosing and submitting an edit writes nothing to the file.              *)
LEMMA EditKeeps ==
  ASSUME EditorInv, NEW e \in Editors,
         (\E k \in Edited : Edit(e, k) \/ Reset(e, k)) \/ Submit(e)
  PROVE  EditorInv'
<1>1. PICK a, j, t, n, m : screen[e] = ScreenIs(a, j, t, n, m)
  BY ScreenAt DEF ScreenOK
<1>2. config.number \in Nat /\ (a \in {"list", "modal"} => m = 0)
  BY <1>1, ScreenAt, ScreenGet DEF ScreenOK
<1>3. CASE \E k \in Edited : Edit(e, k) \/ Reset(e, k)
  <2>1. PICK at \in {"modal", "read"} : \E job : Begins(e, at, job)
    BY <1>3, Zenon DEF Edit, Reset
  <2>2. PICK job : Begins(e, at, job)
    BY <2>1
  <2>3. /\ a = "list" /\ UNCHANGED <<config, draft, saved>>
        /\ SetsJob(e, at, job)
    BY <1>1, <2>2, ScreenGet DEF Begins, SetsJob
  <2>4. Becomes(e, ScreenIs(at, job, t, n, m))
    BY <1>1, <2>3, JobSet
  <2>5. ScreenOK(ScreenIs(at, job, t, n, m), config.number, config.disk)
    BY <1>2, <2>3, OpenScreen
  <2> QED
    BY <2>3, <2>4, <2>5, ScreenKeeps
<1>4. CASE Submit(e)
  <2>1. PICK v : /\ screen[e].at = "modal" /\ UNCHANGED <<config, draft, saved>>
                 /\ SetsValue(e, "read", v)
    BY <1>4, Zenon DEF Submit, SetsValue
  <2>2. a = "modal"
    BY <1>1, <2>1, ScreenGet
  <2>6. Becomes(e, ScreenIs("read", [j EXCEPT !.value = v], t, n, m))
    BY <1>1, <2>1, ValueSet
  <2>7. ScreenOK(ScreenIs("read", [j EXCEPT !.value = v], t, n, m), config.number, config.disk)
    BY <1>2, <2>2, OpenScreen
  <2> QED
    BY <2>1, <2>6, <2>7, ScreenKeeps
<1> QED
  BY <1>3, <1>4

(* What a screen reads it turns into one change to it                       *)
(* (persist_operator_config_updates).                                       *)
LEMMA ReadKeeps ==
  ASSUME EditorInv, NEW e \in Editors, Read(e)
  PROVE  EditorInv'
<1>1. PICK a, j, t, n, m : screen[e] = ScreenIs(a, j, t, n, m)
  BY ScreenAt DEF ScreenOK
<1>2. PICK new : new = IF j.op = "save" THEN Updated(config.now, j.key, j.value)
                       ELSE Removed(config.now, j.key)
  OBVIOUS
<1>3. a = "read" /\ UNCHANGED <<config, draft, saved>>
  BY <1>1, ScreenGet DEF Read
<1>4. PICK to \in {"report", "stage"} : SetsTexts(e, to, config.now, new)
  <2>1. PICK to : to = IF NothingToRemove(j, config.now) THEN "report" ELSE "stage"
    OBVIOUS
  <2>2. to \in {"report", "stage"}
    BY <2>1
  <2>3. screen[e].job = j
    BY <1>1, ScreenGet
  <2>4. SetsTexts(e, to, config.now, new)
    BY <1>2, <2>1, <2>3 DEF Read, SetsTexts
  <2> QED
    BY <2>2, <2>4
<1>5. Becomes(e, ScreenIs(to, j, config.now, new, m))
  BY <1>1, <1>4, TextsSet
<1>6. /\ m = 0 /\ config.number \in Nat /\ IsFile(config.now)
      /\ \A d \in config.disk : d.number \in Nat
  BY <1>1, <1>3, ScreenAt, ScreenGet DEF ScreenOK
<1>7. ScreenOK(ScreenIs(to, j, config.now, new, m), config.number, config.disk)
  BY <1>2, <1>4, <1>6, ScreenGet DEF ScreenOK
<1> QED
  BY <1>3, <1>5, <1>7, ScreenKeeps

(* The file goes to the disk under the next number.                           *)
PutOver(file) == Puts(file, FALSE)

(* A file that is put in place gets the next number, and joins what the     *)
(* disk may hold.                                                           *)
LEMMA PutsIs ==
  ASSUME EditorInv, NEW file, PutOver(file)
  PROVE  /\ config' = [now |-> config'.now, number |-> config'.number, disk |-> config'.disk]
         /\ config'.now = file /\ config'.number = config.number + 1
         /\ \A d \in config'.disk :
              d \in config.disk \/ (d.file = file /\ d.number = config.number + 1)
<1>1. config' = [now |-> file, number |-> config.number + 1,
                 disk |-> config.disk \union {[file |-> file, number |-> config.number + 1]}]
  BY DEF Puts, PutOver
<1> QED
  BY <1>1

(* It leaves every other screen's claims true: numbers only grow.           *)
LEMMA OthersStay ==
  ASSUME EditorInv, NEW file, PutOver(file), NEW c \in Editors
  PROVE  ScreenOK(screen[c], config'.number, config'.disk)
<1>1. PICK a, j, t, n, m : screen[c] = ScreenIs(a, j, t, n, m)
  BY ScreenAt DEF ScreenOK
<1>2. ScreenOK(screen[c], config.number, config.disk) /\ config.number \in Nat
  BY ScreenAt
<1>3. m \in 0 .. config.number /\ (a = "report" => \A d \in config.disk : m =< d.number)
  BY <1>1, <1>2, ScreenGet DEF ScreenOK
<1>4. config'.number = config.number + 1 /\ m \in 0 .. config'.number
  BY <1>2, <1>3, PutsIs
<1>5. a = "report" => \A d \in config'.disk : m =< d.number
  BY <1>2, <1>3, PutsIs
<1> QED
  BY <1>1, <1>2, <1>4, <1>5, ScreenGet DEF ScreenOK

(* So putting a file in place keeps the invariant if it keeps its writer's  *)
(* screen in order.                                                         *)
LEMMA PutsKeeps ==
  ASSUME EditorInv, NEW file, IsFile(file), PutOver(file), saved' = saved,
         screen' = [c \in Editors |-> screen'[c]],
         \A c \in Editors : ScreenOK(screen'[c], config'.number, config'.disk),
         DraftIsRendered'
  PROVE  EditorInv'
<1>1. DiskIsRecent'
  BY PutsIs DEF EditorInv, DiskIsRecent
<1>2. FilesOnly'
  BY PutsIs DEF EditorInv, FilesOnly
<1>3. EditorShapes'
  BY PutsIs DEF EditorShapes, ScreenOK, ScreenIs
<1>4. ScreensAreRecent' /\ OneChange'
  BY DEF ScreenOK, ScreensAreRecent, OneChange
<1> QED
  BY <1>1, <1>2, <1>3, <1>4 DEF EditorInv

(* os.replace by a screen puts its new text in place.                       *)
LEMMA InstallKeeps ==
  ASSUME EditorInv, NEW e \in Editors, Install(e)
  PROVE  EditorInv'
<1>1. PICK a, j, t, n, m : screen[e] = ScreenIs(a, j, t, n, m)
  BY ScreenAt DEF ScreenOK
<1>2. a = "install" /\ n = screen[e].new /\ UNCHANGED <<draft, saved>> /\ PutOver(n)
  <2>1. /\ screen[e].at = "install" /\ UNCHANGED <<draft, saved>>
        /\ PutOver(screen[e].new)
    BY Zenon DEF Install, PutOver
  <2> QED
    BY <1>1, <2>1, ScreenGet
<1>3. IsFile(n)
  <2>1. IsFile(t) /\ n = IF j.op = "save" THEN Updated(t, j.key, j.value) ELSE Removed(t, j.key)
    BY <1>1, <1>2, ScreenAt, ScreenGet DEF ScreenOK
  <2> QED
    BY <2>1, WritingSets, RemovingResets
<1>4. PICK q : q = config'.number
  OBVIOUS
<1>5. Becomes(e, ScreenIs("sync", j, t, n, q))
  <2>1. SetsNumber(e, "sync", q)
    BY <1>4, Zenon DEF Install, SetsNumber
  <2> QED
    BY <1>1, <2>1, NumberSet
<1>6. q \in Nat
  BY <1>2, <1>4, PutsIs, ScreenAt
<1>7. ScreenOK(ScreenIs("sync", j, t, n, q), config'.number, config'.disk)
  BY <1>4, <1>6, ScreenGet DEF ScreenOK
<1>8. /\ screen' = [c \in Editors |-> screen'[c]]
      /\ \A c \in Editors : screen'[c] = IF c = e THEN ScreenIs("sync", j, t, n, q) ELSE screen[c]
  BY <1>5, ScreenAt DEF Becomes
<1>9. \A c \in Editors : ScreenOK(screen'[c], config'.number, config'.disk)
  BY <1>2, <1>7, <1>8, OthersStay
<1>10. DraftIsRendered'
  BY <1>2 DEF EditorInv, DraftIsRendered
<1> QED
  BY <1>2, <1>3, <1>8, <1>9, <1>10, PutsKeeps

(* The file gets to the disk without a screen changing.                       *)
LEMMA CopyKeeps ==
  ASSUME EditorInv, InstallDraft \/ \E f \in Copied : Copy(f)
  PROVE  EditorInv'
<1>1. PICK file : /\ IsFile(file) /\ PutOver(file) /\ UNCHANGED <<screen, saved>>
                  /\ DraftIsRendered'
  <2>1. CASE InstallDraft
    <3>1. draft.file # Broken /\ PutOver(draft.file) /\ UNCHANGED <<screen, saved>>
      BY <2>1, Zenon DEF InstallDraft, PutOver
    <3>2. draft' = [of |-> Broken, file |-> Broken]
      BY <2>1, Zenon DEF InstallDraft
    <3>3. IsFile(draft.file)
      BY <3>1, FilesAssumption, RenderingKeeps DEF EditorInv, DraftIsRendered
    <3>4. DraftIsRendered'
      BY <3>2 DEF DraftIsRendered
    <3> QED
      BY <3>1, <3>3, <3>4
  <2>2. ASSUME NEW f \in Copied, Copy(f)
        PROVE  /\ IsFile(f) /\ PutOver(f) /\ UNCHANGED <<screen, saved>>
               /\ DraftIsRendered'
    <3>1. PutOver(f) /\ UNCHANGED <<screen, draft, saved>>
      BY <2>2, Zenon DEF Copy, PutOver
    <3>2. DraftIsRendered'
      BY <3>1 DEF EditorInv, DraftIsRendered
    <3> QED
      BY <3>1, <3>2, FilesAssumption
  <2> QED
    BY <2>1, <2>2
<1>2. screen' = [c \in Editors |-> screen'[c]]
  BY <1>1 DEF EditorInv, EditorShapes
<1>3. \A c \in Editors : ScreenOK(screen'[c], config'.number, config'.disk)
  BY <1>1, OthersStay
<1> QED
  BY <1>1, <1>2, <1>3, PutsKeeps

(* A rendering makes a draft of an accepted payload and nothing else.       *)
LEMMA RenderKeeps ==
  ASSUME EditorInv, NEW p \in Payloads, Render(p)
  PROVE  EditorInv'
<1>1. UNCHANGED <<config, screen, saved>> /\ DraftIsRendered'
  BY DEF Render, DraftIsRendered
<1> QED
  BY <1>1 DEF EditorInv, EditorShapes, DiskIsRecent, ScreensAreRecent, FilesOnly, OneChange

(* A crash leaves one of the files the disk may hold, and no screen.          *)
LEMMA CrashKeeps ==
  ASSUME EditorInv, HostCrashes
  PROVE  EditorInv'
<1>1. PICK d \in config.disk : config' = [config EXCEPT !.now = d.file, !.disk = {d}]
  BY DEF HostCrashes
<1>2. config' = [now |-> d.file, number |-> config.number, disk |-> {d}]
  BY <1>1 DEF EditorInv, EditorShapes
<1>3. screen' = [e \in Editors |-> Closed] /\ UNCHANGED <<draft, saved>>
  BY DEF HostCrashes
<1>4. DiskIsRecent' /\ FilesOnly' /\ DraftIsRendered'
  BY <1>2, <1>3 DEF EditorInv, DiskIsRecent, FilesOnly, DraftIsRendered
<1>5. ScreensAreRecent' /\ OneChange'
  BY <1>2, <1>3, ClosedIs, ScreenGet DEF EditorInv, DiskIsRecent, ScreensAreRecent, OneChange
<1>6. EditorShapes'
  BY <1>2, <1>3, ClosedIs DEF EditorShapes, ScreenIs
<1> QED
  BY <1>4, <1>5, <1>6 DEF EditorInv

(* Syncing leaves one file on the disk, the newest.                           *)
LEMMA SyncKeeps ==
  ASSUME EditorInv, NEW e \in Editors, SyncDirectory(e)
  PROVE  EditorInv'
<1>1. PICK a, j, t, n, m : screen[e] = ScreenIs(a, j, t, n, m)
  BY ScreenAt DEF ScreenOK
<1>2. /\ screen[e].at = "sync" /\ SetsAt(e, "report") /\ UNCHANGED <<draft, saved>>
      /\ config' = [config EXCEPT !.disk = {[file |-> config.now, number |-> config.number]}]
  BY DEF SyncDirectory, Goes, SetsAt
<1>3. config' = [now |-> config.now, number |-> config.number,
                 disk |-> {[file |-> config.now, number |-> config.number]}]
  BY <1>2 DEF EditorInv, EditorShapes
<1>4. Becomes(e, ScreenIs("report", j, t, n, m))
  BY <1>1, <1>2, AtSet
<1>5. /\ config'.now = config.now /\ config'.number = config.number
      /\ \A d \in config'.disk : d.file = config.now /\ d.number = config.number
  BY <1>3
<1>6. config.number \in Nat /\ m \in 0 .. config.number
  BY <1>1, ScreenAt, ScreenGet DEF ScreenOK
<1>7. ScreenOK(ScreenIs("report", j, t, n, m), config'.number, config'.disk)
  BY <1>5, <1>6, ScreenGet DEF ScreenOK
<1>8. ASSUME NEW c \in Editors
      PROVE  ScreenOK(screen[c], config'.number, config'.disk)
  <2>1. ScreenOK(screen[c], config.number, config.disk)
    BY ScreenAt
  <2>2. screen[c].number \in 0 .. config.number
    BY <2>1 DEF ScreenOK
  <2>3. \A d \in config'.disk : screen[c].number =< d.number
    BY <1>5, <1>6, <2>2
  <2> QED
    BY <1>5, <2>1, <2>3 DEF ScreenOK
<1>9. /\ screen' = [c \in Editors |-> screen'[c]]
      /\ \A c \in Editors : screen'[c] = IF c = e THEN ScreenIs("report", j, t, n, m) ELSE screen[c]
  BY <1>4, ScreenAt DEF Becomes
<1>10. \A c \in Editors : ScreenOK(screen'[c], config'.number, config'.disk)
  BY <1>7, <1>8, <1>9
<1>11. ScreensAreRecent' /\ OneChange'
  BY <1>10 DEF ScreenOK, ScreensAreRecent, OneChange
<1>12. EditorShapes'
  BY <1>3, <1>9, <1>10 DEF EditorShapes, ScreenOK, ScreenIs
<1>13. DiskIsRecent' /\ FilesOnly' /\ DraftIsRendered'
  BY <1>2, <1>5, <1>6 DEF EditorInv, DiskIsRecent, FilesOnly, DraftIsRendered
<1> QED
  BY <1>11, <1>12, <1>13 DEF EditorInv

(* What is reported is on the disk.                                           *)
LEMMA ReportKeeps ==
  ASSUME EditorInv, NEW e \in Editors, Report(e)
  PROVE  EditorInv'
<1>1. PICK a, j, t, n, m : screen[e] = ScreenIs(a, j, t, n, m)
  BY ScreenAt DEF ScreenOK
<1>2. PICK to : to = Listed
  OBVIOUS
<1>3. /\ a = "report" /\ saved' = (IF m > saved THEN m ELSE saved) /\ UNCHANGED <<config, draft>>
      /\ Becomes(e, ScreenIs(to, NoEdit, Broken, Broken, 0))
  <2>1. /\ screen[e].at = "report"
        /\ saved' = (IF screen[e].number > saved THEN screen[e].number ELSE saved)
        /\ UNCHANGED <<config, draft>>
        /\ screen' = [screen EXCEPT ![e] = [Closed EXCEPT !.at = to]]
    BY <1>2 DEF Report
  <2>2. screen' = [screen EXCEPT ![e] = ScreenIs(to, NoEdit, Broken, Broken, 0)]
    BY <2>1, ClosedIs
  <2>3. screen[e].at = a /\ screen[e].number = m
    BY <1>1, ScreenGet
  <2>4. Becomes(e, ScreenIs(to, NoEdit, Broken, Broken, 0))
    BY <2>2, Zenon DEF Becomes
  <2> QED
    BY <2>1, <2>3, <2>4, Zenon
<1>4. to \in {"empty", "list"}
  BY <1>2 DEF Listed
<1>5. /\ config.number \in Nat /\ saved \in 0 .. config.number /\ m \in 0 .. config.number
      /\ \A d \in config.disk : d.number \in saved .. config.number /\ m =< d.number
  BY <1>1, <1>3, ScreenAt, ScreenGet DEF ScreenOK
<1>6. DiskIsRecent'
  BY <1>3, <1>5 DEF DiskIsRecent
<1>7. ScreenOK(ScreenIs(to, NoEdit, Broken, Broken, 0), config.number, config.disk)
  BY <1>4, <1>5, OpenScreen
<1>8. /\ screen' = [c \in Editors |-> screen'[c]]
      /\ \A c \in Editors : screen'[c] = IF c = e THEN ScreenIs(to, NoEdit, Broken, Broken, 0) ELSE screen[c]
  BY <1>3, ScreenAt DEF Becomes
<1>9. \A c \in Editors : ScreenOK(screen'[c], config.number, config.disk)
  BY <1>7, <1>8, ScreenAt
<1>10. ScreensAreRecent' /\ OneChange'
  BY <1>3, <1>9 DEF ScreenOK, ScreensAreRecent, OneChange
<1>11. EditorShapes'
  BY <1>3, <1>8, <1>9 DEF EditorInv, EditorShapes, ScreenOK, ScreenIs
<1>12. FilesOnly' /\ DraftIsRendered'
  BY <1>3 DEF EditorInv, FilesOnly, DraftIsRendered
<1> QED
  BY <1>6, <1>10, <1>11, <1>12 DEF EditorInv

(* The first file, no screen open.                                          *)
LEMMA EditorStarts ==
  ASSUME EditorInit
  PROVE  EditorInv
<1>1. /\ config = [now |-> FirstFile, number |-> 0, disk |-> {[file |-> FirstFile, number |-> 0]}]
      /\ screen = [e \in Editors |-> Closed] /\ saved = 0
      /\ draft = [of |-> Broken, file |-> Broken]
  BY DEF EditorInit
<1>2. DiskIsRecent /\ FilesOnly /\ DraftIsRendered
  BY <1>1, FilesAssumption DEF DiskIsRecent, FilesOnly, DraftIsRendered
<1>3. ScreensAreRecent /\ OneChange
  BY <1>1, ClosedIs, ScreenGet DEF ScreensAreRecent, OneChange
<1>4. EditorShapes
  BY <1>1, ClosedIs DEF EditorShapes, ScreenIs
<1> QED
  BY <1>2, <1>3, <1>4 DEF EditorInv

(* Commands and sessions do not touch what writers are about.               *)
LEMMA EditorStays ==
  ASSUME EditorInv, UNCHANGED editVars
  PROVE  EditorInv'
BY DEF editVars, EditorInv, EditorShapes, DiskIsRecent, ScreensAreRecent, FilesOnly, OneChange, DraftIsRendered

(* Every step of a settings screen keeps the invariant.                     *)
LEMMA EditsKeep ==
  ASSUME EditorInv, NEW e \in Editors, NEW keys \in SUBSET Edited, Edits(e, keys)
  PROVE  EditorInv'
<1>1. CASE Open(e) \/ Leave(e) \/ Cancel(e) \/ Fails(e) \/ Stage(e)
  BY <1>1, GoesKeeps
<1>2. CASE (\E k \in Edited : Edit(e, k) \/ Reset(e, k)) \/ Submit(e)
  BY <1>2, EditKeeps
<1>3. CASE Read(e)
  BY <1>3, ReadKeeps
<1>4. CASE Install(e)
  BY <1>4, InstallKeeps
<1>5. CASE SyncDirectory(e)
  BY <1>5, SyncKeeps
<1>6. CASE Report(e)
  BY <1>6, ReportKeeps
<1> QED
  BY <1>1, <1>2, <1>3, <1>4, <1>5, <1>6, Zenon DEF Edits

-----------------------------------------------------------------------------
(* The settings screens, with whatever else runs on the host.                 *)

\* EditorInv holds in every behaviour: numbers only grow, nothing on the disk is
\* older than what has been reported or is about to be, a screen's new text is
\* one change to the text it read, and a draft one rendering of what was accepted.
THEOREM EditorInvariant == Spec => []EditorInv
<1>1. Init => EditorInv
  BY EditorStarts DEF Init
<1>2. LoadedInv /\ EditorInv /\ [Next]_vars => EditorInv'
  <2> SUFFICES ASSUME LoadedInv, EditorInv, [Next]_vars PROVE EditorInv'
    OBVIOUS
  <2>1. ASSUME NEW e \in scene.editors, Edits(e, scene.keys \intersect Edited)
        PROVE  EditorInv'
    <3>1. e \in Editors /\ scene.keys \intersect Edited \in SUBSET Edited
      BY SceneAssumption DEF LoadedInv
    <3> QED
      BY <2>1, <3>1, EditsKeep
  <2>2. CASE \E p \in Payloads \intersect scene.files : Render(p)
    BY <2>2, RenderKeeps
  <2>3. CASE InstallDraft \/ \E f \in Copied \intersect scene.files : Copy(f)
    BY <2>3, CopyKeeps
  <2>4. CASE HostCrashes
    BY <2>4, CrashKeeps
  <2>5. CASE UNCHANGED editVars
    BY <2>5, EditorStays
  <2> QED
    BY <2>1, <2>2, <2>3, <2>4, <2>5, Zenon DEF Next, Writes, vars
<1> QED
  BY <1>1, <1>2, LoadedInvariant, PTL DEF Spec

\* SavedIsKept: a save that a screen has reported is not undone by a crash of the
\* host, whoever else writes the file.
THEOREM SavedStays == Spec => []SavedIsKept
<1>1. EditorInv => SavedIsKept
  BY DEF EditorInv, DiskIsRecent, SavedIsKept
<1> QED
  BY <1>1, EditorInvariant, PTL

\* WritersAreExact: the text a screen is about to install sets what the text it
\* read set, but for the setting edited, and a rendered file is accepted and sets
\* what its payload sets.
THEOREM WritersExact == Spec => []WritersAreExact
<1>1. EditorInv => WritersAreExact
  <2> SUFFICES ASSUME EditorInv PROVE WritersAreExact
    OBVIOUS
  <2>1. ASSUME NEW e \in Editors, screen[e].at \in {"stage", "install"}
        PROVE  /\ Settings(screen[e].new) =
                    [Settings(screen[e].text) EXCEPT ![screen[e].job.key] = AskedOf(screen[e].job)]
               /\ screen[e].new.parts = screen[e].text.parts
    <3>1. PICK job, text, new : job = screen[e].job /\ text = screen[e].text /\ new = screen[e].new
      OBVIOUS
    <3>2. PICK k, v : k = job.key /\ v = job.value
      OBVIOUS
    <3>3. IsFile(text) /\ new = IF job.op = "save" THEN Updated(text, k, v) ELSE Removed(text, k)
      BY <2>1, <3>1, <3>2 DEF EditorInv, OneChange
    <3>4. PICK w : w = IF job.op = "save" THEN v ELSE Defaults[k]
      OBVIOUS
    <3>5. new.parts = text.parts /\ Settings(new) = [Settings(text) EXCEPT ![k] = w]
      <4>1. CASE job.op = "save"
        BY <3>3, <3>4, <4>1, WritingSets
      <4>2. CASE job.op # "save"
        BY <3>3, <3>4, <4>2, RemovingResets
      <4> QED
        BY <4>1, <4>2
    <3>6. AskedOf(job) = w
      BY <3>2, <3>4 DEF AskedOf
    <3> QED
      BY <3>1, <3>2, <3>5, <3>6
  <2>2. ASSUME draft.file # Broken
        PROVE  /\ Loads(draft.file) /\ Settings(draft.file) = Settings(draft.of)
               /\ draft.file.parts = draft.of.parts
    BY <2>2, FilesAssumption, RenderingKeeps DEF EditorInv, DraftIsRendered
  <2> QED
    BY <2>1, <2>2 DEF WritersAreExact
<1> QED
  BY <1>1, EditorInvariant, PTL

-----------------------------------------------------------------------------
(* The commands again: what a name resolves to.                              *)

(* resolve_session: a full name is looked for first, and decides if found.   *)
LEMMA FullNameDecides ==
  ASSUME NEW f, NEW rows, NEW id, {s \in rows : s.name = id} # {}
  PROVE  Resolved(f, rows, id) = {s \in rows : s.name = id}
<1>1. PICK M, hits : M = Matches(f, rows, id) /\ hits = {i \in 1 .. 5 : M[i] # {}}
  OBVIOUS
<1>2. M[1] = {s \in rows : s.name = id}
  BY <1>1 DEF Matches
<1>3. 1 \in hits /\ \A i \in hits : i \in Nat /\ 1 <= i
  BY <1>1, <1>2
<1>4. Min(hits) = 1
  BY <1>3 DEF Min
<1>5. Resolved(f, rows, id) = M[Min(hits)]
  BY <1>1, <1>3 DEF Resolved
<1> QED
  BY <1>2, <1>4, <1>5

(* Only a command that lists goes from "list" to "inspect".                  *)
LEMMA OnlyListing ==
  ASSUME Accepted(command), NEW c \in Commands, NEW d \in Commands, NEW f, NEW asks,
         CommandRuns(d, f, asks), command[c].at = "list", command'[c].at = "inspect"
  PROVE  Lists(c) /\ d = c
<1>1. command = [x \in Commands |-> command[x]] /\ Shaped(command[d])
  BY DEF Accepted
<1>2. ASSUME NEW r, command' = [command EXCEPT ![d] = r]
      PROVE  d = c /\ command[d].at = "list" /\ r.at = "inspect"
  BY <1>1, <1>2
<1>3. ASSUME NEW ok, Finish(d, ok)  PROVE FALSE
  BY <1>2, <1>3 DEF Finish, Idle
<1>4. ASSUME NEW ask, Starts(d, f, ask)  PROVE FALSE
  <2>1. command[d].at = "idle"
    BY <1>4 DEF Starts
  <2>2. PICK r : command' = [command EXCEPT ![d] = r]
    BY <1>4 DEF Starts, Finish
  <2> QED
    BY <1>2, <2>1, <2>2
<1>5. CASE CannotList(d) \/ Cancels(d) \/ Attaches(d) \/ Reports(d)
  BY <1>3, <1>5 DEF CannotList, Cancels, Attaches, Reports
<1>6. CASE Inspects(d) \/ Confirms(d) \/ \E s : Removes(d, s) \/ CannotRemove(d, s)
  <2>1. command[d].at # "list"
    BY <1>6 DEF Inspects, Confirms, Removes, CannotRemove
  <2>2. ASSUME c # d  PROVE command'[c] = command[c]
    <3>1. CASE Inspects(d)
      BY <1>1, <2>2, <3>1 DEF Inspects, Finish
    <3>2. CASE Confirms(d)
      BY <1>1, <2>2, <3>2 DEF Confirms
    <3>3. CASE \E s : Removes(d, s) \/ CannotRemove(d, s)
      BY <1>1, <2>2, <3>3 DEF Removes, CannotRemove, Took
    <3> QED
      BY <1>6, <3>1, <3>2, <3>3
  <2> QED
    BY <2>1, <2>2
<1>7. CASE Lists(d)
  <2>1. PICK r : command' = [command EXCEPT ![d] = r]
    BY <1>7 DEF Lists
  <2>2. d = c
    BY <1>2, <2>1
  <2> QED
    BY <1>7, <2>2
<1> QED
  BY <1>4, <1>5, <1>6, <1>7 DEF CommandRuns

(* Who opens a session takes a name that is free at its place.               *)
THEOREM NamesInvariant == Spec => []NamesInv
<1>1. Init => NamesInv
  BY DEF Init, CommandsInit, NamesInv
<1>2. NamesInv /\ [Next]_vars => NamesInv'
  <2> SUFFICES ASSUME NamesInv, [Next]_vars PROVE NamesInv'
    OBVIOUS
  <2>1. CASE sessions' \subseteq sessions
    BY <2>1 DEF NamesInv
  <2>2. ASSUME NEW f, NEW launch, Opens(f, launch)  PROVE NamesInv'
    <3>1. PICK u, index : 
            LET taken == {s.name : s \in {r \in sessions : r.user = u /\ r.home = Home(f, u)}}
            IN  /\ CandidateName(f, launch, index) \notin taken
                /\ sessions' = sessions \union
                     {[id |-> opened + 1, user |-> u, name |-> CandidateName(f, launch, index),
                       record |-> RecordOf(f, u, launch), pid |-> ToString(opened + 1), home |-> Home(f, u)]}
      BY <2>2 DEF Opens
    <3>2. PICK h, n, new :
            /\ h = Home(f, u) /\ n = CandidateName(f, launch, index)
            /\ new = [id |-> opened + 1, user |-> u, name |-> n,
                      record |-> RecordOf(f, u, launch), pid |-> ToString(opened + 1), home |-> h]
      OBVIOUS
    <3>3. sessions' = sessions \union {new} /\ new.user = u /\ new.home = h /\ new.name = n
      BY <3>1, <3>2
    <3>4. \A r \in sessions : r.user = u /\ r.home = h => r.name # n
      BY <3>1, <3>2
    <3> QED
      BY <3>3, <3>4 DEF NamesInv
  <2>3. sessions' \subseteq sessions \/ \E f, launch : Opens(f, launch)
    <3>1. CASE UNCHANGED sessions \/ sessions' = {}
      BY <3>1
    <3>2. ASSUME NEW c, NEW f, NEW asks, CommandRuns(c, f, asks)  PROVE sessions' \subseteq sessions
      BY <3>2 DEF CommandRuns, Starts, CannotList, Lists, Inspects, Confirms, Cancels, Attaches,
                  Removes, CannotRemove, Reports
    <3>3. ASSUME NEW s, Ends(s)  PROVE sessions' \subseteq sessions
      BY <3>3 DEF Ends
    <3> QED
      BY <3>1, <3>2, <3>3 DEF Next, Runs, vars, commandVars
  <2> QED
    BY <2>1, <2>2, <2>3
<1> QED
  BY <1>1, <1>2, PTL DEF Spec

(* ManagedStaysReachable: a session whose record counts under the file a        *)
(* command has loaded answers to its full name, alone, whatever prefixes were  *)
(* configured since it was launched.                                          *)
THEOREM ReachableByName == Spec => ManagedStaysReachable
<1>1. ASSUME LoadedInv, NamesInv, [Next]_vars, NEW c \in Commands,
             command[c].at = "list", command'[c].at = "inspect",
             NEW s \in sessions,
             Verified(command[c].file, s), s.user = Target(c), s.home = Home(command[c].file, s.user)
      PROVE  Resolved(command[c].file, command'[c].rows, s.name) = {s}
  <2>1. Lists(c)
    <3>1. command' # command /\ command'[c] # Idle
      BY <1>1 DEF Idle
    <3>2. CASE command' = [d \in Commands |-> Idle]
      BY <3>1, <3>2
    <3>3. ASSUME NEW d \in scene.commands, NEW f, NEW asks, CommandRuns(d, f, asks)  PROVE Lists(c)
      <4>1. d \in Commands
        BY <1>1, SceneAssumption DEF LoadedInv
      <4> QED
        BY <1>1, <3>3, <4>1, OnlyListing DEF LoadedInv
    <3> QED
      BY <1>1, <3>1, <3>2, <3>3 DEF Next, Runs, Opens, Ends, vars, commandVars
  <2>2. PICK rows : rows = Rows(command[c].file, Target(c))
    OBVIOUS
  <2>3. command'[c].rows = rows
    <3>1. command' = [command EXCEPT ![c].at = "inspect", ![c].rows = rows]
      BY <2>1, <2>2 DEF Lists
    <3>2. command = [d \in Commands |-> command[d]] /\ command[c] = [x \in Fields |-> command[c][x]]
      BY <1>1 DEF LoadedInv, Accepted, Shaped
    <3> QED
      BY <3>1, <3>2 DEF Fields
  <2>4. rows = {r \in sessions : r.user = s.user /\ r.home = s.home
                                 /\ (Verified(command[c].file, r) \/ OfUxon(command[c].file, r.name))}
    BY <1>1, <2>2 DEF Rows
  <2>5. {r \in rows : r.name = s.name} = {s}
    BY <1>1, <2>4 DEF NamesInv
  <2> QED
    BY <2>3, <2>5, FullNameDecides
<1>2. LoadedInv /\ NamesInv /\ [Next]_vars =>
        [command' # command => \A c \in Commands :
           command[c].at = "list" /\ command'[c].at = "inspect" =>
             \A s \in sessions :
               Verified(command[c].file, s) /\ s.user = Target(c) /\ s.home = Home(command[c].file, s.user) =>
                 Resolved(command[c].file, command'[c].rows, s.name) = {s}]_vars
  BY <1>1
<1> QED
  BY <1>2, LoadedInvariant, NamesInvariant, PTL DEF Spec, ManagedStaysReachable
=============================================================================
