--------------------------- MODULE ProfilePolicy ---------------------------
(***************************************************************************)
(* Which launch profile runs where (app/launch_profile.py).  A profile may *)
(* name the user that runs it; every user sees the file system his own way *)
(* (view), and the rule that governs a launch is that of the place the     *)
(* path leads to.  So the profile depends on the place, the place on the   *)
(* user, and the user on the profile.                                      *)
(***************************************************************************)
EXTENDS Sequences, SequencesExt

CONSTANTS Users, Profiles, GitProfiles, Paths,
          Places,       \* what canonicalize_path may answer
          Caller,       \* the user resolve_launch_user gives the caller
          Enabled,      \* effective_enabled_profiles, in order
          Default,      \* launch.default_profile, or None
          AutoMode,     \* launch.auto_mode
          Rule,         \* the path rule that matches a place
          ProfileUser,  \* launch_user of a profile, or None
          Direct,       \* the profiles without a workload runtime
          GitOf,        \* the git-remote policy of a profile
          LeadsTo       \* where a path may lead for a user

None == "none"
GitPolicies == [allowed : SUBSET GitProfiles, default : GitProfiles \union {None}]

\* _effective_git_policy: the rule narrows what the profile allows, and may
\* name another default.
GitAllowed(f, place) == GitOf[f].allowed \intersect Rule[place].git.allowed
GitWanted(f, place) ==
  IF Rule[place].git.default # None THEN Rule[place].git.default ELSE GitOf[f].default

\* What the configuration loader has checked (config_loader.py:545-620); a
\* place without a rule bears the one that changes nothing.
ASSUME PolicyAssumption ==
  /\ Caller \in Users
  /\ Enabled \in Seq(Profiles) /\ Default \in ToSet(Enabled) \union {None}
  /\ AutoMode \in BOOLEAN /\ Direct \subseteq Profiles
  /\ ProfileUser \in [Profiles -> Users \union {None}]
  /\ GitOf \in [Profiles -> GitPolicies]
  /\ LeadsTo \in [Users -> [Paths -> (SUBSET Places) \ {{}}]]
  /\ \A p \in Places :
       /\ Rule[p].allowed # <<>> /\ ToSet(Rule[p].allowed) \subseteq ToSet(Enabled)
       /\ Rule[p].default \in ToSet(Rule[p].allowed) \union {None}
       /\ Rule[p].git \in GitPolicies
       /\ \A f \in ToSet(Rule[p].allowed) : GitWanted(f, p) \in GitAllowed(f, p) \union {None}

VARIABLE view   \* where a path leads for a user

Views == {v \in [Users -> [Paths -> Places]] :
            \A u \in Users, q \in Paths : v[u][q] \in LeadsTo[u][q]}

UserOf(f) == IF ProfileUser[f] = None THEN Caller ELSE ProfileUser[f]

\* preflight_launch_user: whose view is consulted first.
SeedUser(requested) ==
  CASE requested # None -> UserOf(requested)
    [] requested = None /\ Default # None -> UserOf(Default)
    [] OTHER -> Caller

Permitted(f, place) == f \in ToSet(Enabled) /\ f \in ToSet(Rule[place].allowed)

\* The profile the configuration names for a place, or None.
Candidate(place) ==
  CASE Rule[place].default # None -> Rule[place].default
    [] Rule[place].default = None /\ Default # None -> Default
    [] Rule[place].default = None /\ Default = None /\ ~AutoMode -> Head(Rule[place].allowed)
    [] OTHER -> None

\* _auto_discover_profile takes the first candidate whose agent is installed,
\* which may be any of them.
Discoverable(place) ==
  {f \in ToSet(Rule[place].allowed) : ProfileUser[f] = None /\ f \in Direct}

\* _select_configured_profile, then discovery; empty when the launch is refused.
Selectable(requested, place) ==
  LET f == IF requested # None THEN requested ELSE Candidate(place)
  IN  IF f = None THEN Discoverable(place) ELSE {g \in {f} : Permitted(g, place)}

\* A default that is not allowed is none.
GitDefault(f, place) ==
  IF GitWanted(f, place) \in GitAllowed(f, place) THEN GitWanted(f, place) ELSE None

\* _validate_git_selector and resolve_profile_selector; empty when refused.
GitChoice(selector, f, place) ==
  CASE selector = None -> {None}
    [] selector = "default" -> {GitDefault(f, place)} \ {None}
    [] OTHER -> {selector} \intersect GitAllowed(f, place)

\* Mutant of Settled: the policy of the place the first view gave is taken
\* for that of the place the profile's user sees.
SettledOnFirst(f, requested, path) == TRUE

\* A profile found through the seed user's view is kept only if its own
\* user's view leads to the same profile.
Settled(f, requested, path) ==
  UserOf(f) # SeedUser(requested) => f \in Selectable(requested, view[UserOf(f)][path])

\* resolve_launch_profile: everything it may answer; empty when it must refuse.
Resolutions(requested, path, selector) ==
  LET found == Selectable(requested, view[SeedUser(requested)][path])
      kept == {f \in found : Settled(f, requested, path)}
  IN  UNION {{[profile |-> f, user |-> UserOf(f), place |-> view[UserOf(f)][path], git |-> g] :
                g \in GitChoice(selector, f, view[UserOf(f)][path])} : f \in kept}
=============================================================================
