----------------------- MODULE LaunchPlanning_proofs -----------------------
(***************************************************************************)
(* Planning a launch, for any planners, commands, profiles, projects and   *)
(* branches: a worktree is the planner's own from git worktree add to the  *)
(* launch, a created repository is whole, the session entered is the       *)
(* planner's, and a profile is settled on only where the rules permit it.  *)
(***************************************************************************)
EXTENDS LaunchPlanning, WellFoundedInduction, FiniteSetTheorems, TLAPS

-----------------------------------------------------------------------------
(* Choices.                                                                *)

(* The least of some numbers is one of them.                               *)
LEMMA LeastOf ==
  ASSUME NEW S \in SUBSET Nat, S # {}
  PROVE  Min(S) \in S /\ \A y \in S : Min(S) <= y
<1>1. PICK x \in S : \A y \in S : ~(<<y, x>> \in OpToRel(<, Nat))
  BY WFMin, NatLessThanWellFounded
<1>2. ASSUME NEW y \in S  PROVE x <= y
  <2>1. <<y, x>> \in Nat \X Nat
    OBVIOUS
  <2>2. ~(y < x)
    BY <1>1, <2>1 DEF OpToRel
  <2> QED
    BY <2>2
<1> QED
  BY <1>2 DEF Min

(* The sessions of a name's stem with an index are fewer than the indices   *)
(* searched, so one is free.                                                *)
LEMMA FreeIndexExists ==
  ASSUME IsFiniteSet(sess), NEW c
  PROVE  FreeIndex(c) \in Nat
<1> DEFINE n == Cardinality(sess)
           searched == 1..(n + 1)
           free == {i \in searched : Named(c, i) = {}}
<1>1. n \in Nat /\ IsFiniteSet(searched) /\ Cardinality(searched) = n + 1
  <2>1. n \in Nat
    BY FS_CardinalityType
  <2> HIDE DEF n
  <2>2. 1 \in Int /\ n + 1 \in Int /\ ~(1 > n + 1) /\ n + 1 - 1 + 1 = n + 1
    BY <2>1
  <2> QED
    BY <2>1, <2>2, FS_Interval
<1>2. free # {}
  <2>1. SUFFICES ASSUME \A i \in searched : Named(c, i) # {}  PROVE FALSE
    OBVIOUS
  <2> DEFINE f == [i \in searched |-> CHOOSE s \in Named(c, i) : TRUE]
  <2>2. \A i \in searched : f[i] \in sess /\ f[i].index = i
    BY <2>1 DEF Named, Mine
  <2>3. f \in Injection(searched, sess)
    <3>1. f \in [searched -> sess]
      BY <2>2
    <3>2. \A i, k \in searched : f[i] = f[k] => i = k
      BY <2>2
    <3> HIDE DEF f
    <3> QED
      BY <3>1, <3>2 DEF Injection, IsInjective
  <2> HIDE DEF f
  <2>4. Cardinality(searched) <= n
    BY <2>3, FS_Injection
  <2> QED
    BY <1>1, <2>4
<1>3. free \in SUBSET Nat
  BY <1>1
<1>4. Min(free) \in free
  BY <1>2, <1>3, LeastOf
<1> QED
  BY <1>3, <1>4 DEF FreeIndex

(* A new id is nobody's.                                                    *)
LEMMA NewIdIsNew ==
  ASSUME IsFiniteSet(sess), IsFiniteSet(Clients)
  PROVE  NewId \in Nat \ {0} /\ NewId \notin Ids
<1> DEFINE known1 == {s.id : s \in sess}
           known2 == {pick[c].id : c \in Clients}
           n == Cardinality(Ids)
           searched == 1..(n + 1)
<1>1. IsFiniteSet(known1)
  <2> DEFINE f == [s \in sess |-> s.id]
  <2>1. f \in Surjection(sess, known1)
    BY DEF Surjection
  <2> HIDE DEF f
  <2> QED
    BY <2>1, FS_Surjection
<1>2. IsFiniteSet(known2)
  <2> DEFINE f == [c \in Clients |-> pick[c].id]
  <2>1. f \in Surjection(Clients, known2)
    BY DEF Surjection
  <2> HIDE DEF f
  <2> QED
    BY <2>1, FS_Surjection
<1>3. IsFiniteSet(Ids)
  BY <1>1, <1>2, FS_Union DEF Ids
<1>4. n \in Nat /\ IsFiniteSet(searched) /\ Cardinality(searched) = n + 1
  <2>1. n \in Nat
    BY <1>3, FS_CardinalityType
  <2> HIDE DEF n
  <2>2. 1 \in Int /\ n + 1 \in Int /\ ~(1 > n + 1) /\ n + 1 - 1 + 1 = n + 1
    BY <2>1
  <2> QED
    BY <2>1, <2>2, FS_Interval
<1>5. searched \ Ids # {}
  <2>1. SUFFICES ASSUME searched \subseteq Ids  PROVE FALSE
    OBVIOUS
  <2>2. Cardinality(searched) <= n
    BY <1>3, <2>1, FS_Subset
  <2> QED
    BY <1>4, <2>2
<1>6. searched \ Ids \in SUBSET (Nat \ {0})
  BY <1>4
<1>7. NewId \in searched \ Ids
  BY <1>5, <1>6, LeastOf DEF NewId
<1> QED
  BY <1>6, <1>7

(* The session to attach to is a compatible one.                            *)
LEMMA TargetIsCompatible ==
  ASSUME NEW c, Compatible(c) # {}, \A s \in sess : s.index \in Nat
  PROVE  AttachTarget(c) \in Compatible(c)
<1> DEFINE indices == {s.index : s \in Compatible(c)}
<1>1. Compatible(c) \subseteq sess
  BY DEF Compatible, Stemmed, Mine
<1>2. indices \in SUBSET Nat /\ indices # {}
  BY <1>1
<1>3. Min(indices) \in indices /\ \A k \in indices : Min(indices) <= k
  BY <1>2, LeastOf
<1>4. \E s \in Compatible(c) : \A t \in Compatible(c) : s.index <= t.index
  BY <1>3
<1> QED
  BY <1>4 DEF AttachTarget

-----------------------------------------------------------------------------
(* Profiles.                                                               *)

(* What the rules permit is a profile, and a profile has a user.           *)
LEMMA ProfilesAreKnown ==
  /\ ToSet(Enabled) \subseteq Profiles
  /\ \A f \in Profiles : UserOf(f) \in Users
  /\ \A requested \in Profiles \union {None} : SeedUser(requested) \in Users
<1>1. ToSet(Enabled) \subseteq Profiles
  BY PolicyAssumption DEF ToSet
<1>2. \A f \in Profiles : UserOf(f) \in Users
  BY PolicyAssumption DEF UserOf
<1>3. Default # None => Default \in Profiles
  BY <1>1, PolicyAssumption
<1>4. \A requested \in Profiles \union {None} : SeedUser(requested) \in Users
  BY <1>2, <1>3, PolicyAssumption DEF SeedUser
<1> QED
  BY <1>1, <1>2, <1>4

(* Whatever selects a profile for a place, the rules of the place permit.   *)
LEMMA SelectableIsPermitted ==
  ASSUME NEW requested, NEW p \in Places
  PROVE  \A f \in Selectable(requested, p) : Permitted(f, p)
<1>1. \A f \in Discoverable(p) : Permitted(f, p)
  BY PolicyAssumption DEF Discoverable, Permitted
<1> QED
  BY <1>1 DEF Selectable

(* What a git selector is answered with, the profile and the place allow.   *)
LEMMA ChosenGitIsAllowed ==
  ASSUME NEW selector, NEW f, NEW p
  PROVE  \A g \in GitChoice(selector, f, p) : g # None => g \in GitAllowed(f, p)
<1>1. GitDefault(f, p) # None => GitDefault(f, p) \in GitAllowed(f, p)
  BY DEF GitDefault
<1> QED
  BY <1>1 DEF GitChoice

(* A resolution is of the profile's own user and view, and permitted there.  *)
LEMMA ResolutionIsPermitted ==
  ASSUME view \in Views, NEW requested \in Profiles \union {None}, NEW path \in Paths,
         NEW selector, NEW r \in Resolutions(requested, path, selector)
  PROVE  /\ r.place \in Places /\ r.user = UserOf(r.profile)
         /\ r.place = view[r.user][path] /\ Permitted(r.profile, r.place)
         /\ r.git # None => r.git \in GitAllowed(r.profile, r.place)
<1> DEFINE seed == SeedUser(requested)
           found == Selectable(requested, view[seed][path])
           kept == {f \in found : Settled(f, requested, path)}
           place(g) == view[UserOf(g)][path]
<1>0. PICK f \in kept : \E g \in GitChoice(selector, f, place(f)) :
        r = [profile |-> f, user |-> UserOf(f), place |-> place(f), git |-> g]
  BY DEF Resolutions
<1>1. PICK g \in GitChoice(selector, f, place(f)) :
        r = [profile |-> f, user |-> UserOf(f), place |-> place(f), git |-> g]
  BY <1>0
<1>2. \A u \in Users : view[u][path] \in Places
  BY DEF Views
<1>3. seed \in Users /\ view[seed][path] \in Places
  BY <1>2, ProfilesAreKnown
<1>4. f \in found /\ Permitted(f, view[seed][path])
  BY <1>3, SelectableIsPermitted
<1>5. f \in Profiles /\ UserOf(f) \in Users
  BY <1>4, ProfilesAreKnown DEF Permitted
<1>6. place(f) \in Places
  BY <1>2, <1>5
<1>7. Permitted(f, place(f))
  <2>1. CASE UserOf(f) = seed
    BY <1>4, <2>1
  <2>2. CASE UserOf(f) # seed
    <3>1. f \in Selectable(requested, place(f))
      BY <1>1, <2>2 DEF Settled
    <3> QED
      BY <1>6, <3>1, SelectableIsPermitted
  <2> QED
    BY <2>1, <2>2
<1>8. g # None => g \in GitAllowed(f, place(f))
  BY <1>1, ChosenGitIsAllowed
<1> QED
  BY <1>1, <1>5, <1>6, <1>7, <1>8

-----------------------------------------------------------------------------
(* The invariant, seen from one planner: what concerns it alone (Local) and *)
(* what it shares (Shared).                                                *)

Fit(c) ==
  /\ at[c] = "idle" => job[c] = NoJob
  /\ at[c] # "idle" => job[c] \in asks[c]
  /\ Planned(c) => res[c].place \in Places
  /\ at[c] \in TreeStages => InTree(job[c])
  /\ at[c] \in RemoteStages => MakesRemote(job[c])
  /\ at[c] = "mkdir" => ~InTree(job[c])

Excludes(c) == OutOfTree \/ (at[c] \in {"fetch", "add"} => Repo(c).excluded = 1)

HasTree(c) ==
  InTree(job[c]) /\ at[c] \in Prepared \union {"revalidate"} =>
    tree[Path(c)] = [of |-> res[c].place, branch |-> job[c].branch]

Commits(c) ==
  /\ at[c] \in {"create", "wire", "push"} => Repo(c).git = "committed"
  /\ at[c] = "push" => Repo(c).origin

Whole(c) == MakesRemote(job[c]) =>
  /\ at[c] \in {"wire", "push"} => remote[job[c].path] = c
  /\ at[c] \in (Prepared \ {"copy"}) \union {"attach", "done"} =>
       /\ remote[job[c].path] = c
       /\ Repo(c).git = "committed" /\ Repo(c).origin /\ Repo(c).pushed

Picked(c) ==
  /\ pick[c].id \in Nat
  /\ \A s \in sess : s.id = pick[c].id => SameSession(s, pick[c])
  /\ NamePicked(c) => pick[c].index \in Nat
  /\ at[c] \in {"attach", "handshake", "done"} => Matches(pick[c], c)

Local(c) == Fit(c) /\ Excludes(c) /\ HasTree(c) /\ Commits(c) /\ Whole(c) /\ Picked(c)

IsSession(s) ==
  /\ s = [id |-> s.id, user |-> s.user, stem |-> s.stem, profile |-> s.profile, index |-> s.index,
          root |-> s.root, state |-> s.state]
  /\ s.id \in Nat \ {0} /\ s.index \in Nat

SessionsFit ==
  /\ IsFiniteSet(sess) /\ \A s \in sess : IsSession(s)
  /\ \A s, t \in sess : s.id = t.id => s = t

TreesExcluded == OutOfTree \/ \A w \in TreePaths : tree[w] # NoTree => repo[tree[w].of].excluded = 1

Shared == PlanTypes /\ TreesExcluded /\ SessionsFit

(* The two halves are the invariant.                                       *)
LEMMA InvariantByPlanner == PlanInv <=> Shared /\ \A c \in Clients : Local(c)
<1>1. PlanTypes => \A p \in Places : repo[p].excluded <= 1
  BY DEF PlanTypes, Repositories
<1>2. StagesFit <=> \A c \in Clients : Fit(c)
  BY DEF StagesFit, Fit
<1>3. ExcludedFirst <=> \A c \in Clients : Excludes(c)
  BY DEF ExcludedFirst, Excludes
<1>4. PlanTypes => (WorktreeReady <=> TreesExcluded /\ \A c \in Clients : HasTree(c))
  BY <1>1 DEF WorktreeReady, HasTree, TreesExcluded
<1>5. CreationProgress <=> \A c \in Clients : Commits(c)
  BY DEF CreationProgress, Commits
<1>6. CreatedIsWhole <=> \A c \in Clients : Whole(c)
  BY DEF CreatedIsWhole, Whole
<1>7. SessionsKnown <=> SessionsFit /\ \A c \in Clients : Picked(c)
  BY DEF SessionsKnown, SessionsFit, IsSession, Picked
<1> QED
  BY <1>2, <1>3, <1>4, <1>5, <1>6, <1>7 DEF PlanInv, Shared, Local

-----------------------------------------------------------------------------
(* What a step leaves alone.                                               *)

SamePlan(d) == at'[d] = at[d] /\ job'[d] = job[d] /\ res'[d] = res[d] /\ pick'[d] = pick[d]

\* Every planner but c keeps its plan.
Alone(c) ==
  /\ asks' = asks /\ \A d \in Clients \ {c} : SamePlan(d)
  /\ at' = [d \in Clients |-> at'[d]] /\ job' = [d \in Clients |-> job'[d]]
  /\ res' = [d \in Clients |-> res'[d]] /\ known' = [d \in Clients |-> known'[d]]
  /\ pick' = [d \in Clients |-> pick'[d]]

\* What is made stays made.
RepoGrows == \A p \in Places :
  /\ repo[p].git = "committed" => repo'[p].git = "committed"
  /\ repo[p].origin => repo'[p].origin
  /\ repo[p].pushed => repo'[p].pushed
  /\ repo[p].excluded = 1 => repo'[p].excluded = 1

RemoteGrows == \A q \in Paths : remote[q] # None => remote'[q] = remote[q]
TreesStay == \A w \in TreePaths : tree[w] # NoTree /\ InUse(w) => tree'[w] = tree[w]
SessionsStay == \A s \in sess' : s.id \in Ids => \E t \in sess : s.id = t.id /\ SameSession(s, t)

Grows == RepoGrows /\ RemoteGrows /\ TreesStay /\ SessionsStay

(* A planner's command is one it was given.                                *)
LEMMA JobIsKnown ==
  ASSUME Shared, NEW c \in Clients, Fit(c), at[c] # "idle"
  PROVE  /\ job[c] \in asks[c] /\ job[c].path \in Paths
         /\ job[c].profile \in Profiles \union {None}
         /\ InTree(job[c]) => /\ job[c].branch \in Branches /\ job[c].cmd \in {"run", "new"}
                              /\ ~MakesRemote(job[c])
         /\ MakesRemote(job[c]) => job[c].cmd \in {"new", "create"}
BY CommandsAssumption DEF Shared, PlanTypes, Fit, InTree

(* What a planner's stage has made is still there after any step.          *)
LEMMA TreeStays ==
  ASSUME Shared, NEW c \in Clients, Local(c), Grows, InTree(job[c]),
         at[c] \in Prepared \union {"revalidate"}
  PROVE  tree'[Path(c)] = [of |-> res[c].place, branch |-> job[c].branch]
<1>1. at[c] # "idle" /\ res[c].place \in Places
  BY DEF Prepared, Local, Fit, Planned
<1>2. job[c].branch \in Branches
  BY <1>1, JobIsKnown DEF Local
<1>3. Path(c) \in TreePaths
  BY <1>1, <1>2 DEF Path, TreePaths
<1>4. tree[Path(c)] = [of |-> res[c].place, branch |-> job[c].branch]
  BY DEF Local, HasTree
<1>5. tree[Path(c)] # NoTree
  BY <1>4 DEF NoTree, InTree
<1>6. InUse(Path(c))
  BY DEF InUse
<1> QED
  BY <1>3, <1>4, <1>5, <1>6 DEF Grows, TreesStay

(* What a creation has come to stays so.                                    *)
LEMMA RemoteStays ==
  ASSUME Shared, NEW c \in Clients, Local(c), Grows, MakesRemote(job[c]), Planned(c)
  PROVE  /\ at[c] \in {"wire", "push"} \union (Prepared \ {"copy"}) \union {"attach", "done"} =>
              remote'[job[c].path] = c
         /\ at[c] \in {"create", "wire", "push"} \union (Prepared \ {"copy"}) \union {"attach", "done"} =>
              repo'[res[c].place].git = "committed"
         /\ at[c] \in {"push"} \union (Prepared \ {"copy"}) \union {"attach", "done"} =>
              repo'[res[c].place].origin
         /\ at[c] \in (Prepared \ {"copy"}) \union {"attach", "done"} => repo'[res[c].place].pushed
<1>1. job[c].path \in Paths /\ res[c].place \in Places
  BY JobIsKnown DEF Local, Fit, Planned
<1>2. c # None
  BY CommandsAssumption
<1>3. /\ at[c] \in {"wire", "push"} => remote[job[c].path] = c
      /\ at[c] \in (Prepared \ {"copy"}) \union {"attach", "done"} => remote[job[c].path] = c
  BY DEF Local, Whole
<1>4. /\ at[c] \in {"create", "wire", "push"} => repo[res[c].place].git = "committed"
      /\ at[c] = "push" => repo[res[c].place].origin
      /\ at[c] \in (Prepared \ {"copy"}) \union {"attach", "done"} =>
           /\ repo[res[c].place].git = "committed"
           /\ repo[res[c].place].origin /\ repo[res[c].place].pushed
  BY DEF Local, Whole, Commits, Repo
<1> QED
  BY <1>1, <1>2, <1>3, <1>4 DEF Grows, RemoteGrows, RepoGrows

(* The session a planner has picked is still itself, wherever it exists.     *)
LEMMA PickStays ==
  ASSUME Shared, NEW c \in Clients, Local(c), Grows
  PROVE  pick[c].id \in Nat /\ \A s \in sess' : s.id = pick[c].id => SameSession(s, pick[c])
<1>1. pick[c].id \in Ids
  BY DEF Ids
<1>2. \A s \in sess' : s.id = pick[c].id => SameSession(s, pick[c])
  BY <1>1 DEF Local, Picked, Grows, SessionsStay, SameSession
<1> QED
  BY <1>2 DEF Local, Picked

(* A planner that does nothing relies on nothing a growing world takes.    *)
LEMMA OthersKeep ==
  ASSUME Shared, NEW d \in Clients, Local(d), SamePlan(d), asks' = asks, Grows
  PROVE  Local(d)'
<1>1. Fit(d)'
  BY DEF Local, Fit, SamePlan, Planned
<1>2. at[d] \in {"fetch", "add", "create", "wire", "push"} \union Prepared => res[d].place \in Places
  BY DEF Local, Fit, Planned, Prepared
<1>3. Excludes(d)'
  BY <1>2 DEF Local, Excludes, SamePlan, Repo, Grows, RepoGrows
<1>4. HasTree(d)'
  BY TreeStays DEF HasTree, SamePlan, Path
<1>5. Commits(d)'
  BY <1>2 DEF Local, Commits, SamePlan, Repo, Grows, RepoGrows
<1>6. Whole(d)'
  <2>1. at[d] \in {"wire", "push", "attach", "done"} \union Prepared => Planned(d)
    BY DEF Planned, Prepared
  <2> QED
    BY <2>1, RemoteStays DEF Whole, SamePlan, Repo
<1>7. Picked(d)'
  <2>1. (NamePicked(d) => pick[d].index \in Nat) /\ (at[d] \in {"attach", "handshake", "done"} => Matches(pick[d], d))
    BY DEF Local, Picked
  <2> QED
    BY <2>1, PickStays DEF Picked, SamePlan, NamePicked, Matches, Root
<1> QED
  BY <1>1, <1>3, <1>4, <1>5, <1>6, <1>7 DEF Local

-----------------------------------------------------------------------------
(* What the steps change.                                                  *)

WorldTypes ==
  /\ view \in Views /\ repo \in [Places -> Repositories] /\ DOMAIN remote = Paths
  /\ tree \in [TreePaths -> [of : Places, branch : Branches] \union {NoTree}]

\* The shared world after a step is one the invariant allows, and has grown.
WorldFits == WorldTypes' /\ TreesExcluded' /\ SessionsFit' /\ Grows

(* What all planners rely on lasts if one planner moves and the world fits. *)
LEMMA SharedAfter ==
  ASSUME Shared, NEW c, Alone(c), WorldFits
  PROVE  Shared'
BY DEF Shared, Alone, WorldFits, WorldTypes, PlanTypes

(* A world that does not change fits.                                       *)
LEMMA WorldStill ==
  ASSUME Shared, UNCHANGED worldVars
  PROVE  WorldFits
<1>1. WorldTypes' /\ TreesExcluded' /\ SessionsFit'
  BY DEF Shared, WorldTypes, PlanTypes, TreesExcluded, SessionsFit, IsSession, worldVars
<1>2. Grows
  BY DEF Grows, RepoGrows, RemoteGrows, TreesStay, SessionsStay, SameSession, worldVars
<1> QED
  BY <1>1, <1>2 DEF WorldFits

(* So does one of which only repositories grow.                             *)
LEMMA WorldWithRepo ==
  ASSUME Shared, UNCHANGED <<tree, remote, box, sess, view>>,
         repo' \in [Places -> Repositories], RepoGrows
  PROVE  WorldFits
<1>1. WorldTypes' /\ SessionsFit'
  BY DEF Shared, WorldTypes, PlanTypes, SessionsFit, IsSession
<1>2. RemoteGrows /\ TreesStay /\ SessionsStay
  BY DEF RemoteGrows, TreesStay, SessionsStay, SameSession
<1>3. \A w \in TreePaths : tree[w] # NoTree => tree[w].of \in Places
  BY DEF Shared, PlanTypes
<1>4. TreesExcluded'
  BY <1>3 DEF Shared, TreesExcluded, RepoGrows
<1> QED
  BY <1>1, <1>2, <1>4 DEF WorldFits, Grows

(* One field of a repository at a time.                                    *)
LEMMA RepoField ==
  ASSUME Shared, NEW c, res[c].place \in Places
  PROVE  /\ Changes(c, "dir", TRUE) => WorldFits
         /\ Changes(c, "excluded", 1) => WorldFits /\ repo'[res[c].place].excluded = 1
         /\ Changes(c, "origin", TRUE) =>
              WorldFits /\ repo'[res[c].place] = [Repo(c) EXCEPT !.origin = TRUE]
         /\ Changes(c, "pushed", TRUE) =>
              WorldFits /\ repo'[res[c].place] = [Repo(c) EXCEPT !.pushed = TRUE]
         /\ \A g \in {"none", "empty", "committed"} :
              Changes(c, "git", g) /\ (Repo(c).git = "committed" => g = "committed") =>
                WorldFits /\ repo'[res[c].place].git = g
<1> DEFINE p == res[c].place
<1>0. repo \in [Places -> Repositories]
  BY DEF Shared, PlanTypes
<1>1. ASSUME Changes(c, "dir", TRUE)  PROVE WorldFits
  <2>1. repo' = [repo EXCEPT ![p].dir = TRUE] /\ UNCHANGED <<tree, remote, box, sess, view>>
    BY <1>1, Zenon DEF Changes
  <2>2. repo' \in [Places -> Repositories] /\ RepoGrows
    BY <1>0, <2>1 DEF Repositories, RepoGrows
  <2> QED
    BY <2>1, <2>2, WorldWithRepo
<1>2. ASSUME Changes(c, "excluded", 1)  PROVE WorldFits /\ repo'[p].excluded = 1
  <2>1. repo' = [repo EXCEPT ![p].excluded = 1] /\ UNCHANGED <<tree, remote, box, sess, view>>
    BY <1>2, Zenon DEF Changes
  <2>2. repo' \in [Places -> Repositories] /\ RepoGrows /\ repo'[p].excluded = 1
    BY <1>0, <2>1 DEF Repositories, RepoGrows
  <2> QED
    BY <2>1, <2>2, WorldWithRepo
<1>3. ASSUME Changes(c, "origin", TRUE)
      PROVE  WorldFits /\ repo'[p] = [Repo(c) EXCEPT !.origin = TRUE]
  <2>1. repo' = [repo EXCEPT ![p].origin = TRUE] /\ UNCHANGED <<tree, remote, box, sess, view>>
    BY <1>3, Zenon DEF Changes
  <2>2. /\ repo' \in [Places -> Repositories] /\ RepoGrows
        /\ repo'[p] = [repo[p] EXCEPT !.origin = TRUE]
    BY <1>0, <2>1 DEF Repositories, RepoGrows
  <2> QED
    BY <2>1, <2>2, WorldWithRepo DEF Repo
<1>4. ASSUME Changes(c, "pushed", TRUE)
      PROVE  WorldFits /\ repo'[p] = [Repo(c) EXCEPT !.pushed = TRUE]
  <2>1. repo' = [repo EXCEPT ![p].pushed = TRUE] /\ UNCHANGED <<tree, remote, box, sess, view>>
    BY <1>4, Zenon DEF Changes
  <2>2. /\ repo' \in [Places -> Repositories] /\ RepoGrows
        /\ repo'[p] = [repo[p] EXCEPT !.pushed = TRUE]
    BY <1>0, <2>1 DEF Repositories, RepoGrows
  <2> QED
    BY <2>1, <2>2, WorldWithRepo DEF Repo
<1>5. ASSUME NEW g \in {"none", "empty", "committed"}, Changes(c, "git", g),
             Repo(c).git = "committed" => g = "committed"
      PROVE  WorldFits /\ repo'[p].git = g
  <2>1. repo' = [repo EXCEPT ![p].git = g] /\ UNCHANGED <<tree, remote, box, sess, view>>
    BY <1>5, Zenon DEF Changes
  <2>2. repo' \in [Places -> Repositories] /\ RepoGrows /\ repo'[p].git = g
    BY <1>0, <1>5, <2>1 DEF Repositories, RepoGrows, Repo
  <2> QED
    BY <2>1, <2>2, WorldWithRepo
<1> QED
  BY <1>1, <1>2, <1>3, <1>4, <1>5

(* A planner that comes to another stage, its command, profile and session  *)
(* unchanged, is alone in that.                                            *)
LEMMA StageChanges ==
  ASSUME Shared, NEW c \in Clients, NEW stage, Becomes(c, stage)
  PROVE  /\ at'[c] = stage /\ \A d \in Clients \ {c} : at'[d] = at[d]
         /\ at' = [d \in Clients |-> at'[d]]
BY DEF Shared, PlanTypes, Becomes

(* A step that only changes a planner's stage keeps its plan.               *)
LEMMA PlanKept ==
  ASSUME Shared, NEW c \in Clients, NEW stage, Becomes(c, stage), KeepsPlan(c)
  PROVE  Alone(c) /\ at'[c] = stage /\ job' = job /\ res' = res /\ pick' = pick /\ known' = known
<1>1. job' = job /\ res' = res /\ pick' = pick /\ known' = known /\ asks' = asks
  BY DEF KeepsPlan
<1> QED
  BY <1>1, StageChanges DEF Shared, PlanTypes, Alone, SamePlan

-----------------------------------------------------------------------------
(* Each step of a planner.                                                 *)

\* The planner is alone in its step, which keeps what concerns it.
Moves(c) == Alone(c) /\ WorldFits /\ Local(c)'

\* What a stage relies on, of the world after the step into it.
ReadyFor(c, stage) ==
  /\ stage \in TreeStages => InTree(job[c])
  /\ stage \in RemoteStages => MakesRemote(job[c])
  /\ stage = "mkdir" => ~InTree(job[c])
  /\ stage \in {"fetch", "add"} => OutOfTree \/ repo'[res[c].place].excluded = 1
  /\ InTree(job[c]) /\ stage \in Prepared \union {"revalidate"} =>
       tree'[Path(c)] = [of |-> res[c].place, branch |-> job[c].branch]
  /\ stage \in {"create", "wire", "push"} => repo'[res[c].place].git = "committed"
  /\ stage = "push" => repo'[res[c].place].origin
  /\ MakesRemote(job[c]) /\ stage \in {"wire", "push"} \union (Prepared \ {"copy"}) \union {"attach", "done"} =>
       remote'[job[c].path] = c
  /\ MakesRemote(job[c]) /\ stage \in (Prepared \ {"copy"}) \union {"attach", "done"} =>
       /\ repo'[res[c].place].git = "committed"
       /\ repo'[res[c].place].origin /\ repo'[res[c].place].pushed

\* The session a planner has picked suits the stage.
SuitsStage(c, stage) ==
  /\ (stage = "launch" \/ (stage \in {"probe", "prepare", "agent"} /\ AfterRuntime(job[c]) = "launch")) =>
       pick'[c].index \in Nat
  /\ stage \in {"attach", "handshake", "done"} => Matches(pick'[c], c)
  /\ pick'[c].id \in Nat /\ \A s \in sess' : s.id = pick'[c].id => SameSession(s, pick'[c])

(* A planner that keeps its plan has its conjuncts again in a stage it is   *)
(* ready for.                                                               *)
LEMMA Lands ==
  ASSUME Shared, NEW c \in Clients, Local(c), Planned(c), NEW stage, stage # "idle",
         at'[c] = stage, job'[c] = job[c], res'[c] = res[c], asks' = asks,
         ReadyFor(c, stage), SuitsStage(c, stage)
  PROVE  Local(c)'
<1>1. Fit(c)'
  BY DEF Local, Fit, Planned, ReadyFor
<1>2. Excludes(c)' /\ Commits(c)'
  BY DEF Excludes, Commits, Repo, ReadyFor
<1>3. HasTree(c)'
  BY DEF HasTree, Path, ReadyFor
<1>4. Whole(c)'
  BY DEF Whole, Repo, ReadyFor
<1>5. Picked(c)'
  BY DEF Picked, NamePicked, Matches, Root, SuitsStage
<1> QED
  BY <1>1, <1>2, <1>3, <1>4, <1>5 DEF Local

(* A step that keeps plan and session, to a stage that has none yet.        *)
LEMMA PlanStep ==
  ASSUME Shared, NEW c \in Clients, Local(c), Planned(c), NEW stage,
         Becomes(c, stage), KeepsPlan(c), WorldFits, ReadyFor(c, stage),
         stage \notin {"idle", "launch", "attach", "handshake", "done"},
         stage \in {"probe", "prepare", "agent"} => AfterRuntime(job[c]) # "launch"
  PROVE  Moves(c)
<1>1. Alone(c) /\ at'[c] = stage /\ job' = job /\ res' = res /\ pick' = pick
  BY PlanKept
<1>2. SuitsStage(c, stage)
  BY <1>1, PickStays DEF SuitsStage, WorldFits
<1>3. asks' = asks
  BY <1>1 DEF Alone
<1> QED
  BY <1>1, <1>2, <1>3, Lands DEF Moves

(* The command is given, and ended.                                        *)
LEMMA StartMoves ==
  ASSUME Shared, NEW c \in Clients, Local(c), Start(c)
  PROVE  Moves(c)
<1>1. PICK j \in asks[c] : job' = [job EXCEPT ![c] = j]
  BY DEF Start
<1>2. /\ Becomes(c, "resolve") /\ UNCHANGED worldVars
      /\ asks' = asks /\ res' = res /\ pick' = pick /\ known' = known
  BY DEF Start, Goes, worldVars
<1>3. at'[c] = "resolve" /\ WorldFits
  BY <1>2, StageChanges, WorldStill
<1>4. job'[c] = j /\ Alone(c)
  BY <1>1, <1>2, StageChanges DEF Shared, PlanTypes, Alone, SamePlan
<1>5. Fit(c)' /\ Excludes(c)' /\ HasTree(c)' /\ Commits(c)' /\ Whole(c)'
  BY <1>2, <1>3, <1>4 DEF Fit, Planned, TreeStages, RemoteStages, Excludes, HasTree, Prepared, Commits, Whole
<1>6. Picked(c)'
  BY <1>2, <1>3, PickStays DEF Picked, NamePicked, WorldFits
<1> QED
  BY <1>3, <1>4, <1>5, <1>6 DEF Moves, Local

(* A planner that ends, well or not, relies on nothing.                     *)
LEMMA EndsMoves ==
  ASSUME Shared, NEW c \in Clients, Local(c), Ends(c)
  PROVE  Moves(c)
<1>1. /\ Becomes(c, "idle") /\ UNCHANGED worldVars /\ asks' = asks
      /\ job' = [job EXCEPT ![c] = NoJob] /\ res' = [res EXCEPT ![c] = NoPlan]
      /\ known' = [known EXCEPT ![c] = None] /\ pick' = [pick EXCEPT ![c] = NoSession]
  BY DEF Ends, worldVars
<1>2. at'[c] = "idle" /\ WorldFits
  BY <1>1, StageChanges, WorldStill
<1>3. job'[c] = NoJob /\ pick'[c] = NoSession /\ Alone(c)
  BY <1>1, StageChanges DEF Shared, PlanTypes, Alone, SamePlan
<1>4. Fit(c)' /\ Excludes(c)' /\ HasTree(c)' /\ Commits(c)' /\ Whole(c)'
  BY <1>2, <1>3 DEF Fit, Planned, TreeStages, RemoteStages, Excludes, HasTree, Prepared, Commits, Whole
<1>5. \A s \in sess' : s.id # 0
  BY <1>2 DEF WorldFits, SessionsFit, IsSession
<1>6. Picked(c)'
  BY <1>2, <1>3, <1>5 DEF Picked, NamePicked, NoSession
<1> QED
  BY <1>2, <1>3, <1>4, <1>6 DEF Moves, Local

(* The stage after the profile is settled.                                 *)
LEMMA StagesAfter ==
  ASSUME NEW c, NEW j
  PROVE  /\ InTree(j) /\ j.cmd = "new" => AfterResolve(j) = "compat"
         /\ InTree(j) /\ j.cmd = "run" => AfterResolve(j) = "gate"
         /\ ~InTree(j) /\ j.cmd \in {"new", "create"} => AfterResolve(j) = "mkdir"
         /\ ~InTree(j) /\ j.cmd \notin {"new", "create"} => AfterResolve(j) = "snapshot"
         /\ \A next : RuntimeOr(c, next) \in {next, "probe"}
         /\ AfterProject(c) \in {"snapshot", "probe"}
         /\ AfterProject(c) = "probe" => job[c].cmd = "create"
         /\ InTree(j) \/ j.cmd = "create" => AfterRuntime(j) = "snapshot"
BY DEF AfterResolve, RuntimeOr, AfterProject, AfterRuntime

(* A planner that resolves its place and profile has what the next stage    *)
(* needs.                                                                   *)
LEMMA ResolveMoves ==
  ASSUME Shared, NEW c \in Clients, Local(c), Resolve(c)
  PROVE  Moves(c)
<1> DEFINE j == job[c]
<1>1. PICK r \in Resolutions(j.profile, j.path, j.git) : res' = [res EXCEPT ![c] = r]
  BY DEF Resolve
<1>2. /\ at[c] = "resolve" /\ Becomes(c, AfterResolve(j)) /\ UNCHANGED worldVars
      /\ asks' = asks /\ job' = job /\ pick' = pick /\ known' = known
  BY DEF Resolve, worldVars
<1>3. at'[c] = AfterResolve(j) /\ WorldFits
  BY <1>2, StageChanges, WorldStill
<1>4. res'[c] = r /\ Alone(c)
  BY <1>1, <1>2, StageChanges DEF Shared, PlanTypes, Alone, SamePlan
<1>5. /\ j \in asks[c] /\ j.path \in Paths /\ j.profile \in Profiles \union {None}
      /\ InTree(j) => j.cmd \in {"run", "new"} /\ ~MakesRemote(j)
      /\ MakesRemote(j) => j.cmd \in {"new", "create"}
  BY <1>2, JobIsKnown DEF Local
<1>6. r.place \in Places
  BY <1>5, ResolutionIsPermitted DEF Shared, PlanTypes
<1>7. /\ AfterResolve(j) \in {"compat", "gate", "mkdir", "snapshot"}
      /\ AfterResolve(j) \in {"compat", "gate"} => InTree(j)
      /\ AfterResolve(j) \in {"mkdir", "snapshot"} => ~InTree(j)
      /\ MakesRemote(j) => AfterResolve(j) = "mkdir"
  BY <1>5, StagesAfter
<1>8. Fit(c)'
  BY <1>2, <1>3, <1>4, <1>5, <1>6, <1>7 DEF Fit, Planned, TreeStages, RemoteStages
<1>9. Excludes(c)' /\ HasTree(c)' /\ Commits(c)' /\ Whole(c)'
  BY <1>2, <1>3, <1>7 DEF Excludes, HasTree, Prepared, Commits, Whole
<1>10. Picked(c)'
  BY <1>2, <1>3, <1>7, PickStays DEF Picked, NamePicked, WorldFits
<1> QED
  BY <1>3, <1>4, <1>8, <1>9, <1>10 DEF Moves, Local

(* So has one that resolves again and finds the same.                       *)
LEMMA RevalidateMoves ==
  ASSUME Shared, NEW c \in Clients, Local(c), Revalidate(c)
  PROVE  Moves(c)
<1> DEFINE stage == CASE InTree(job[c]) -> "copy"
                      [] MakesRemote(job[c]) -> "hasgit"
                      [] OTHER -> AfterProject(c)
<1>1. /\ at[c] = "revalidate" /\ Becomes(c, stage) /\ UNCHANGED worldVars
      /\ res' = [res EXCEPT ![c] = res[c]]
      /\ asks' = asks /\ job' = job /\ pick' = pick /\ known' = known
  BY DEF Revalidate, SameResolution, worldVars
<1>2. res' = res
  BY <1>1 DEF Shared, PlanTypes
<1>3. WorldFits /\ KeepsPlan(c)
  BY <1>1, <1>2, WorldStill DEF KeepsPlan
<1>4. InTree(job[c]) => ~MakesRemote(job[c])
  BY <1>1, JobIsKnown DEF Local
<1>5. /\ InTree(job[c]) => stage = "copy"
      /\ MakesRemote(job[c]) => stage = "hasgit"
      /\ ~InTree(job[c]) /\ ~MakesRemote(job[c]) => stage = AfterProject(c)
  BY <1>4
<1> HIDE DEF stage
<1>6. stage \in {"copy", "hasgit", "snapshot", "probe"}
  BY <1>5, StagesAfter
<1>7. ReadyFor(c, stage)
  <2>1. InTree(job[c]) => tree'[Path(c)] = [of |-> res[c].place, branch |-> job[c].branch]
    BY <1>1, <1>3, TreeStays DEF WorldFits
  <2> QED
    BY <1>5, <1>6, <2>1, StagesAfter DEF ReadyFor, TreeStages, RemoteStages, Prepared
<1>8. stage = "probe" => AfterRuntime(job[c]) # "launch"
  BY <1>5, <1>6, StagesAfter
<1> QED
  BY <1>1, <1>3, <1>6, <1>7, <1>8, PlanStep DEF Planned

(* Making the project.                                                     *)
LEMMA MakeDirectoryMoves ==
  ASSUME Shared, NEW c \in Clients, Local(c), MakeDirectory(c)
  PROVE  Moves(c)
<1>1. /\ at[c] = "mkdir" /\ Becomes(c, "revalidate") /\ KeepsPlan(c)
      /\ Changes(c, "dir", TRUE)
  BY Zenon DEF MakeDirectory, Goes
<1>2. Planned(c) /\ res[c].place \in Places /\ ~InTree(job[c])
  BY <1>1 DEF Local, Fit, Planned
<1>3. WorldFits
  BY <1>1, <1>2, RepoField
<1>4. ReadyFor(c, "revalidate")
  BY <1>2 DEF ReadyFor, TreeStages, RemoteStages, Prepared
<1> QED
  BY <1>1, <1>2, <1>3, <1>4, PlanStep

(* So has one at each stage of creating a project.                          *)
LEMMA CreatesProjectMoves ==
  ASSUME Shared, NEW c \in Clients, Local(c), CreatesProject(c)
  PROVE  Moves(c)
<1>1. /\ at[c] \in RemoteStages /\ Planned(c) /\ res[c].place \in Places
      /\ MakesRemote(job[c]) /\ ~InTree(job[c]) /\ job[c].path \in Paths
  <2>1. at[c] \in RemoteStages
    BY DEF CreatesProject, HasGitDir, Preflight, GitInit, GitCommit, CreateRemote, AddOrigin, Push,
           Goes, RemoteStages
  <2>2. at[c] # "idle" /\ Planned(c) /\ MakesRemote(job[c])
    BY <2>1 DEF RemoteStages, Planned, Local, Fit
  <2> QED
    BY <2>1, <2>2, JobIsKnown DEF Local, Fit
<1>2. CASE HasGitDir(c)
  <2>1. Becomes(c, "preflight") /\ KeepsPlan(c) /\ UNCHANGED worldVars
    BY <1>2, Zenon DEF HasGitDir, Goes
  <2>2. ReadyFor(c, "preflight")
    BY <1>1 DEF ReadyFor, TreeStages, RemoteStages, Prepared
  <2> QED
    BY <1>1, <2>1, <2>2, WorldStill, PlanStep
<1>3. CASE Preflight(c)
  <2>1. Becomes(c, "init") /\ KeepsPlan(c) /\ UNCHANGED worldVars
    BY <1>3, Zenon DEF Preflight, Goes
  <2>2. ReadyFor(c, "init")
    BY <1>1 DEF ReadyFor, TreeStages, RemoteStages, Prepared
  <2> QED
    BY <1>1, <2>1, <2>2, WorldStill, PlanStep
<1>4. CASE GitInit(c)
  <2> DEFINE g == IF Repo(c).git = "none" THEN "empty" ELSE Repo(c).git
  <2>1. Becomes(c, "commit") /\ KeepsPlan(c) /\ Changes(c, "git", g)
    BY <1>4, Zenon DEF GitInit, Goes
  <2>2. Repo(c).git \in {"none", "empty", "committed"}
    BY <1>1 DEF Shared, PlanTypes, Repositories, Repo
  <2>3. g \in {"none", "empty", "committed"} /\ (Repo(c).git = "committed" => g = "committed")
    BY <2>2
  <2> HIDE DEF g
  <2>4. WorldFits
    BY <1>1, <2>1, <2>3, RepoField
  <2>5. ReadyFor(c, "commit")
    BY <1>1 DEF ReadyFor, TreeStages, RemoteStages, Prepared
  <2> QED
    BY <1>1, <2>1, <2>4, <2>5, PlanStep
<1>5. CASE GitCommit(c)
  <2>1. Becomes(c, "create") /\ KeepsPlan(c) /\ Changes(c, "git", "committed")
    BY <1>5, Zenon DEF GitCommit, Goes
  <2>2. WorldFits /\ repo'[res[c].place].git = "committed"
    BY <1>1, <2>1, RepoField
  <2>3. ReadyFor(c, "create")
    BY <1>1, <2>2 DEF ReadyFor, TreeStages, RemoteStages, Prepared
  <2> QED
    BY <1>1, <2>1, <2>2, <2>3, PlanStep
<1>6. CASE CreateRemote(c)
  <2> DEFINE free == remote[job[c].path] = None
  <2>1. PICK answered \in BOOLEAN : Becomes(c, AfterCreate(free /\ answered))
    BY <1>6 DEF CreateRemote
  <2> DEFINE stage == AfterCreate(free /\ answered)
  <2>2. /\ at[c] = "create" /\ Becomes(c, stage) /\ KeepsPlan(c)
        /\ remote' = [remote EXCEPT ![job[c].path] = IF free THEN c ELSE @]
        /\ UNCHANGED <<repo, tree, box, sess, view>>
    BY <1>6, <2>1 DEF CreateRemote
  <2>3. stage \in {"wire", "failed"} /\ (stage = "wire" => free)
    BY DEF AfterCreate
  <2> HIDE DEF stage
  <2>4. DOMAIN remote' = Paths /\ RemoteGrows /\ (free => remote'[job[c].path] = c)
    BY <1>1, <2>2 DEF Shared, PlanTypes, RemoteGrows
  <2>5. WorldTypes' /\ TreesExcluded' /\ SessionsFit'
    BY <2>2, <2>4 DEF Shared, PlanTypes, WorldTypes, TreesExcluded, SessionsFit, IsSession
  <2>6. RepoGrows /\ TreesStay /\ SessionsStay
    BY <2>2 DEF RepoGrows, TreesStay, SessionsStay, SameSession
  <2>7. WorldFits
    BY <2>4, <2>5, <2>6 DEF WorldFits, Grows
  <2>8. repo'[res[c].place].git = "committed"
    BY <2>2 DEF Local, Commits, Repo
  <2>9. ReadyFor(c, stage)
    BY <1>1, <2>3, <2>4, <2>8 DEF ReadyFor, TreeStages, RemoteStages, Prepared
  <2> QED
    BY <1>1, <2>2, <2>3, <2>7, <2>9, PlanStep
<1>7. CASE AddOrigin(c)
  <2>1. at[c] = "wire" /\ Becomes(c, "push") /\ KeepsPlan(c) /\ Changes(c, "origin", TRUE)
    BY <1>7, Zenon DEF AddOrigin, Goes
  <2>2. WorldFits /\ repo'[res[c].place] = [Repo(c) EXCEPT !.origin = TRUE]
    BY <1>1, <2>1, RepoField
  <2>3. repo'[res[c].place].origin
    BY <1>1, <2>2 DEF Shared, PlanTypes, Repositories, Repo
  <2>4. remote'[job[c].path] = c /\ repo'[res[c].place].git = "committed"
    BY <1>1, <2>1, <2>2, RemoteStays DEF WorldFits
  <2>5. ReadyFor(c, "push")
    BY <1>1, <2>3, <2>4 DEF ReadyFor, TreeStages, RemoteStages, Prepared
  <2> QED
    BY <1>1, <2>1, <2>2, <2>5, PlanStep
<1>8. CASE Push(c)
  <2> DEFINE stage == AfterProject(c)
  <2>1. at[c] = "push" /\ Becomes(c, stage) /\ KeepsPlan(c) /\ Changes(c, "pushed", TRUE)
    BY <1>8, Zenon DEF Push
  <2>2. WorldFits /\ repo'[res[c].place] = [Repo(c) EXCEPT !.pushed = TRUE]
    BY <1>1, <2>1, RepoField
  <2>3. repo'[res[c].place].pushed
    BY <1>1, <2>2 DEF Shared, PlanTypes, Repositories, Repo
  <2>4. remote'[job[c].path] = c /\ repo'[res[c].place].git = "committed" /\ repo'[res[c].place].origin
    BY <1>1, <2>1, <2>2, RemoteStays DEF WorldFits
  <2>5. stage \in {"snapshot", "probe"} /\ (stage = "probe" => AfterRuntime(job[c]) # "launch")
    BY StagesAfter
  <2> HIDE DEF stage
  <2>6. ReadyFor(c, stage)
    BY <1>1, <2>3, <2>4, <2>5 DEF ReadyFor, TreeStages, RemoteStages, Prepared
  <2> QED
    BY <1>1, <2>1, <2>2, <2>5, <2>6, PlanStep
<1> QED
  BY <1>2, <1>3, <1>4, <1>5, <1>6, <1>7, <1>8 DEF CreatesProject

(* Making the worktree.                                                    *)
LEMMA AddWorktreeMoves ==
  ASSUME Shared, NEW c \in Clients, Local(c), AddWorktree(c)
  PROVE  Moves(c)
<1> DEFINE p == res[c].place
           b == job[c].branch
           mine == [of |-> p, branch |-> b]
           free == tree[Path(c)] = NoTree
           added == free /\ BranchUsable(c)
           stage == AfterAdd(added)
           bs == IF BranchUsable(c) THEN repo[p].branches \union {b} ELSE repo[p].branches
           there == IF added THEN mine ELSE tree[Path(c)]
<1>1. /\ at[c] = "add" /\ Becomes(c, stage)
      /\ repo' = [repo EXCEPT ![p].branches = bs]
      /\ tree' = [tree EXCEPT ![Path(c)] = there]
      /\ known' = [known EXCEPT ![c] = None]
      /\ asks' = asks /\ job' = job /\ res' = res /\ pick' = pick
      /\ remote' = remote /\ sess' = sess /\ view' = view
  BY Zenon DEF AddWorktree, Goes
<1>2. /\ Planned(c) /\ p \in Places /\ InTree(job[c]) /\ ~MakesRemote(job[c])
      /\ b \in Branches /\ (OutOfTree \/ repo[p].excluded = 1)
  <2>1. Planned(c) /\ at[c] # "idle" /\ p \in Places /\ InTree(job[c])
    BY <1>1 DEF Local, Fit, Planned, TreeStages
  <2>2. OutOfTree \/ repo[p].excluded = 1
    BY <1>1 DEF Local, Excludes, Repo
  <2> QED
    BY <2>1, <2>2, JobIsKnown DEF Local
<1>3. Path(c) \in TreePaths
  BY <1>2 DEF Path, TreePaths
<1>4. stage \in {"revalidate", "failed"} /\ (stage = "revalidate" => added)
  BY DEF AfterAdd
<1> HIDE DEF stage
<1>5. repo' \in [Places -> Repositories] /\ RepoGrows
  <2>1. repo \in [Places -> Repositories]
    BY DEF Shared, PlanTypes
  <2>2. repo' = [repo EXCEPT ![p].branches = bs]
    BY <1>1, Zenon
  <2>3. bs \in SUBSET Branches
    BY <1>2, <2>1 DEF Repositories
  <2> HIDE DEF bs
  <2> QED
    BY <1>2, <2>1, <2>2, <2>3 DEF Repositories, RepoGrows
<1>6. /\ tree' \in [TreePaths -> [of : Places, branch : Branches] \union {NoTree}]
      /\ \A w \in TreePaths \ {Path(c)} : tree'[w] = tree[w]
      /\ added => tree'[Path(c)] = mine
      /\ ~added => tree'[Path(c)] = tree[Path(c)]
      /\ tree[Path(c)] # NoTree => tree'[Path(c)] = tree[Path(c)]
  <2>1. tree' = [tree EXCEPT ![Path(c)] = there]
    BY <1>1, Zenon
  <2>2. there \in {mine, tree[Path(c)]} /\ (added => there = mine) /\ (~added => there = tree[Path(c)])
        /\ (tree[Path(c)] # NoTree => there = tree[Path(c)])
    OBVIOUS
  <2>3. mine \in [of : Places, branch : Branches]
    BY <1>2
  <2> HIDE DEF there, added, mine
  <2> QED
    BY <1>3, <2>1, <2>2, <2>3 DEF Shared, PlanTypes
<1>7. TreesExcluded'
  <2>1. SUFFICES ASSUME ~OutOfTree, NEW w \in TreePaths, tree'[w] # NoTree
                 PROVE  repo'[tree'[w].of].excluded = 1
    BY DEF TreesExcluded
  <2>2. CASE tree'[w] = tree[w]
    <3>1. tree[w].of \in Places /\ repo[tree[w].of].excluded = 1
      BY <2>1, <2>2 DEF Shared, PlanTypes, TreesExcluded
    <3> QED
      BY <1>5, <2>2, <3>1 DEF RepoGrows
  <2>3. CASE tree'[w] # tree[w]
    <3>1. tree'[w] = mine
      BY <1>6, <2>3
    <3> QED
      BY <1>2, <1>5, <2>1, <3>1 DEF RepoGrows
  <2> QED
    BY <2>2, <2>3
<1>8. WorldTypes' /\ SessionsFit'
  <2>1. remote' = remote /\ sess' = sess /\ view' = view
    BY <1>1
  <2> QED
    BY <1>5, <1>6, <2>1 DEF Shared, PlanTypes, WorldTypes, SessionsFit, IsSession
<1>9. RemoteGrows /\ TreesStay /\ SessionsStay
  <2>1. remote' = remote /\ sess' = sess
    BY <1>1
  <2> QED
    BY <1>6, <2>1 DEF RemoteGrows, TreesStay, SessionsStay, SameSession
<1>10. WorldFits
  BY <1>5, <1>7, <1>8, <1>9 DEF WorldFits, Grows
<1>11. Alone(c) /\ at'[c] = stage
  BY <1>1, StageChanges DEF Shared, PlanTypes, Alone, SamePlan
<1>12. ReadyFor(c, stage)
  BY <1>2, <1>4, <1>6 DEF ReadyFor, TreeStages, RemoteStages, Prepared
<1>13. SuitsStage(c, stage)
  BY <1>1, <1>4, <1>10, PickStays DEF SuitsStage, WorldFits
<1>14. Local(c)'
  BY <1>1, <1>2, <1>4, <1>11, <1>12, <1>13, Lands
<1> QED
  BY <1>10, <1>11, <1>14 DEF Moves

(* So has one at each stage of a worktree, from the checks to git worktree  *)
(* add.                                                                     *)
LEMMA PlansWorktreeMoves ==
  ASSUME Shared, NEW c \in Clients, Local(c), PlansWorktree(c)
  PROVE  Moves(c)
<1>1. CASE AddWorktree(c)
  BY <1>1, AddWorktreeMoves
<1>2. SUFFICES ASSUME Gate(c) \/ ProbeBranch(c) \/ ReadExclude(c) \/ WriteExclude(c) \/ Fetch(c)
                      \/ CopyIncludes(c)
               PROVE  Moves(c)
  BY <1>1 DEF PlansWorktree
<1>3. at[c] \in TreeStages
  BY <1>2, Zenon DEF Gate, ProbeBranch, ReadExclude, WriteExclude, Fetch, CopyIncludes, Goes, TreeStages
<1>4. at[c] # "idle" /\ Planned(c) /\ res[c].place \in Places /\ InTree(job[c])
  BY <1>3 DEF TreeStages, Planned, Local, Fit
<1>5. ~MakesRemote(job[c])
  BY <1>4, JobIsKnown DEF Local
<1>6. /\ AfterExclude \in {"fetch", "add"} /\ AfterBranch \in {"fetch", "add", "readexclude"}
      /\ (~OutOfTree => AfterBranch = "readexclude")
  BY DEF AfterExclude, AfterBranch
<1>7. repo[res[c].place].excluded \in {0, 1}
  BY <1>4 DEF Shared, PlanTypes, Repositories
<1>8. CASE Gate(c)
  <2>1. Becomes(c, "branch") /\ KeepsPlan(c) /\ UNCHANGED worldVars
    BY <1>8, Zenon DEF Gate, Goes
  <2>2. ReadyFor(c, "branch")
    BY <1>4, <1>5 DEF ReadyFor, TreeStages, RemoteStages, Prepared
  <2> QED
    BY <1>4, <2>1, <2>2, WorldStill, PlanStep
<1>9. CASE ProbeBranch(c)
  <2> DEFINE fact == IF job[c].branch \in Repo(c).branches THEN "branch" ELSE "no branch"
  <2>1. Becomes(c, AfterBranch) /\ Learns(c, fact)
    BY <1>9, Zenon DEF ProbeBranch, Goes
  <2> HIDE DEF fact
  <2>2. /\ known' = [known EXCEPT ![c] = fact] /\ UNCHANGED worldVars
        /\ asks' = asks /\ job' = job /\ res' = res /\ pick' = pick
    BY <2>1 DEF Learns, worldVars
  <2>3. WorldFits /\ Alone(c) /\ at'[c] = AfterBranch
    BY <2>1, <2>2, WorldStill, StageChanges DEF Shared, PlanTypes, Alone, SamePlan
  <2>4. ReadyFor(c, AfterBranch)
    BY <1>4, <1>5, <1>6 DEF ReadyFor, TreeStages, RemoteStages, Prepared
  <2>5. SuitsStage(c, AfterBranch)
    BY <1>6, <2>2, <2>3, PickStays DEF SuitsStage, WorldFits
  <2>6. Local(c)'
    BY <1>4, <1>6, <2>2, <2>3, <2>4, <2>5, Lands
  <2> QED
    BY <2>3, <2>6 DEF Moves
<1>10. CASE ReadExclude(c)
  <2> DEFINE stage == IF Repo(c).excluded > 0 THEN AfterExclude ELSE "writeexclude"
  <2>1. Becomes(c, stage) /\ KeepsPlan(c) /\ UNCHANGED worldVars
    BY <1>10, Zenon DEF ReadExclude, Goes
  <2>2. repo' = repo /\ stage \in {"fetch", "add", "writeexclude"}
        /\ (stage # "writeexclude" => repo[res[c].place].excluded = 1)
    BY <1>6, <1>7, <2>1 DEF Repo, worldVars
  <2> HIDE DEF stage
  <2>3. ReadyFor(c, stage)
    BY <1>4, <1>5, <2>2 DEF ReadyFor, TreeStages, RemoteStages, Prepared
  <2> QED
    BY <1>4, <2>1, <2>2, <2>3, WorldStill, PlanStep
<1>11. CASE WriteExclude(c)
  <2>1. Becomes(c, AfterExclude) /\ KeepsPlan(c) /\ Changes(c, "excluded", 1)
    BY <1>11, Zenon DEF WriteExclude, Goes
  <2>2. WorldFits /\ repo'[res[c].place].excluded = 1
    BY <1>4, <2>1, RepoField
  <2>3. ReadyFor(c, AfterExclude)
    BY <1>4, <1>5, <1>6, <2>2 DEF ReadyFor, TreeStages, RemoteStages, Prepared
  <2> QED
    BY <1>4, <1>6, <2>1, <2>2, <2>3, PlanStep
<1>12. CASE Fetch(c)
  <2>1. at[c] = "fetch" /\ Becomes(c, "add") /\ KeepsPlan(c) /\ UNCHANGED worldVars
    BY <1>12, Zenon DEF Fetch, Goes
  <2>2. OutOfTree \/ repo'[res[c].place].excluded = 1
    BY <2>1 DEF Local, Excludes, Repo, worldVars
  <2>3. ReadyFor(c, "add")
    BY <1>4, <1>5, <2>2 DEF ReadyFor, TreeStages, RemoteStages, Prepared
  <2> QED
    BY <1>4, <2>1, <2>3, WorldStill, PlanStep
<1>13. CASE CopyIncludes(c)
  <2> DEFINE stage == RuntimeOr(c, "snapshot")
  <2>1. at[c] = "copy" /\ Becomes(c, stage) /\ KeepsPlan(c) /\ UNCHANGED worldVars
    BY <1>13, Zenon DEF CopyIncludes
  <2>2. stage \in {"snapshot", "probe"} /\ AfterRuntime(job[c]) = "snapshot"
    BY <1>4, StagesAfter
  <2> HIDE DEF stage
  <2>3. WorldFits
    BY <2>1, WorldStill
  <2>4. tree'[Path(c)] = [of |-> res[c].place, branch |-> job[c].branch]
    BY <1>4, <2>1, <2>3, TreeStays DEF WorldFits, Prepared
  <2>5. ReadyFor(c, stage)
    BY <1>4, <1>5, <2>2, <2>4 DEF ReadyFor, TreeStages, RemoteStages, Prepared
  <2> QED
    BY <1>4, <2>1, <2>2, <2>3, <2>5, PlanStep
<1> QED
  BY <1>2, <1>8, <1>9, <1>10, <1>11, <1>12, <1>13

(* Readying the runtime.                                                   *)

(* From one prepared stage to another, what is relied on is the same.       *)
LEMMA PreparedStays ==
  ASSUME Shared, NEW c \in Clients, Local(c), Grows, at[c] \in (Prepared \ {"copy"}) \union {"attach"},
         NEW stage \in (Prepared \ {"copy"}) \union {"attach", "done"},
         at[c] = "attach" => stage = "done"
  PROVE  Planned(c) /\ ReadyFor(c, stage)
<1>1. Planned(c)
  BY DEF Planned, Prepared
<1>2. InTree(job[c]) /\ stage \in Prepared =>
        tree'[Path(c)] = [of |-> res[c].place, branch |-> job[c].branch]
  BY TreeStays DEF Prepared
<1>3. MakesRemote(job[c]) =>
        /\ remote'[job[c].path] = c /\ repo'[res[c].place].git = "committed"
        /\ repo'[res[c].place].origin /\ repo'[res[c].place].pushed
  BY <1>1, RemoteStays
<1> QED
  BY <1>1, <1>2, <1>3 DEF ReadyFor, TreeStages, RemoteStages, Prepared

(* So has one that probes or creates its runtime.                           *)
LEMMA ReadiesRuntimeMoves ==
  ASSUME Shared, NEW c \in Clients, Local(c), ReadiesRuntime(c)
  PROVE  Moves(c)
<1>1. \E stage \in {"prepare", "agent", AfterRuntime(job[c])} :
        /\ at[c] \in {"probe", "prepare", "agent"} /\ Becomes(c, stage)
        /\ asks' = asks /\ job' = job /\ res' = res /\ pick' = pick
        /\ repo' = repo /\ tree' = tree /\ remote' = remote /\ sess' = sess /\ view' = view
        /\ known' = [d \in Clients |-> known'[d]] /\ \A d \in Clients \ {c} : known'[d] = known[d]
  <2>1. CASE ProbeRuntime(c)
    <3> DEFINE stage == IF RuntimeAction(Box(c)) = "exec" THEN "agent" ELSE "prepare"
               fact == IF RuntimeAction(Box(c)) = "exec" THEN None ELSE RuntimeAction(Box(c))
    <3>1. at[c] = "probe" /\ Becomes(c, stage) /\ Learns(c, fact)
      BY <2>1, Zenon DEF ProbeRuntime, Goes
    <3>2. stage \in {"prepare", "agent"}
      OBVIOUS
    <3> HIDE DEF fact, stage
    <3> QED
      BY <3>1, <3>2 DEF Learns, worldVars, Shared, PlanTypes
  <2>2. CASE Prepare(c)
    BY <2>2 DEF Prepare, Goes, Shared, PlanTypes
  <2>3. CASE ProbeAgent(c)
    BY <2>3 DEF ProbeAgent, KeepsPlan, worldVars, Shared, PlanTypes
  <2> QED
    BY <2>1, <2>2, <2>3 DEF ReadiesRuntime
<1>2. PICK stage \in {"prepare", "agent", AfterRuntime(job[c])} :
        /\ at[c] \in {"probe", "prepare", "agent"} /\ Becomes(c, stage)
        /\ asks' = asks /\ job' = job /\ res' = res /\ pick' = pick
        /\ repo' = repo /\ tree' = tree /\ remote' = remote /\ sess' = sess /\ view' = view
        /\ known' = [d \in Clients |-> known'[d]] /\ \A d \in Clients \ {c} : known'[d] = known[d]
  BY <1>1
<1>3. stage \in {"prepare", "agent", "snapshot", "launch"}
      /\ (stage = "launch" => AfterRuntime(job[c]) = "launch")
  BY <1>2 DEF AfterRuntime
<1>4. WorldFits
  <2>1. WorldTypes' /\ TreesExcluded' /\ SessionsFit'
    BY <1>2 DEF Shared, WorldTypes, PlanTypes, TreesExcluded, SessionsFit, IsSession
  <2>2. Grows
    BY <1>2 DEF Grows, RepoGrows, RemoteGrows, TreesStay, SessionsStay, SameSession
  <2> QED
    BY <2>1, <2>2 DEF WorldFits
<1>5. Alone(c) /\ at'[c] = stage
  BY <1>2, StageChanges DEF Shared, PlanTypes, Alone, SamePlan
<1>6. Planned(c) /\ ReadyFor(c, stage)
  BY <1>2, <1>3, <1>4, PreparedStays DEF Prepared, WorldFits
<1>7. SuitsStage(c, stage)
  <2>1. AfterRuntime(job[c]) = "launch" => pick[c].index \in Nat
    BY <1>2 DEF Local, Picked, NamePicked
  <2> QED
    BY <1>2, <1>3, <1>4, <2>1, PickStays DEF SuitsStage, WorldFits
<1>8. Local(c)'
  BY <1>2, <1>3, <1>5, <1>6, <1>7, Lands
<1> QED
  BY <1>4, <1>5, <1>8 DEF Moves

(* Choosing the session.                                                   *)

(* The session chosen to attach to is there, and of the planner's user,     *)
(* profile and directory.                                                   *)
LEMMA AttachTargetSuits ==
  ASSUME Shared, NEW c \in Clients, ~Conflicting(c), Compatible(c) # {}
  PROVE  AttachTarget(c) \in sess /\ Matches(AttachTarget(c), c)
<1>1. \A s \in sess : s.index \in Nat
  BY DEF Shared, SessionsFit, IsSession
<1>2. AttachTarget(c) \in Compatible(c)
  BY <1>1, TargetIsCompatible
<1>3. \A s \in Compatible(c) : s \in Stemmed(c) /\ Verified(s)
  BY DEF Compatible, Verified
<1>4. \A s \in Compatible(c) : Under(s.root, Root(c))
  BY <1>3 DEF Conflicting
<1>5. \A s \in Stemmed(c) : s \in sess /\ s.user = res[c].user /\ s.profile = res[c].profile
  BY DEF Stemmed, Mine
<1> QED
  BY <1>2, <1>3, <1>4, <1>5 DEF Matches

(* A planner that picks a session, or a name, and goes on.                 *)
LEMMA PickMoves ==
  ASSUME Shared, NEW c \in Clients, Local(c), Planned(c), NEW stage, stage # "idle", NEW s,
         Becomes(c, stage), pick' = [pick EXCEPT ![c] = s], asks' = asks, job' = job, res' = res,
         known' = known, WorldFits, ReadyFor(c, stage),
         s.id \in Nat, \A t \in sess' : t.id = s.id => SameSession(t, s),
         (stage = "launch" \/ stage \in {"probe", "prepare", "agent"}) => s.index \in Nat,
         stage \in {"attach", "handshake", "done"} => Matches(s, c)
  PROVE  Moves(c)
<1>1. at'[c] = stage /\ pick'[c] = s /\ Alone(c)
  BY StageChanges DEF Shared, PlanTypes, Alone, SamePlan
<1>2. SuitsStage(c, stage)
  BY <1>1 DEF SuitsStage
<1>3. Local(c)'
  BY <1>1, <1>2, Lands
<1> QED
  BY <1>1, <1>3 DEF Moves

(* A planner that goes on to attach has picked its own.                     *)
LEMMA AttachingMoves ==
  ASSUME Shared, NEW c \in Clients, Local(c), Planned(c), ~Conflicting(c), Compatible(c) # {},
         ToAttach(c), asks' = asks, job' = job, res' = res, known' = known, UNCHANGED worldVars,
         ReadyFor(c, "attach")
  PROVE  Moves(c)
<1> DEFINE s == AttachTarget(c)
<1>1. Becomes(c, "attach") /\ pick' = [pick EXCEPT ![c] = s]
  BY DEF ToAttach
<1>2. s \in sess /\ Matches(s, c)
  BY AttachTargetSuits
<1> HIDE DEF s
<1>3. sess' = sess
  BY DEF worldVars
<1>4. s.id \in Nat /\ \A t \in sess' : t.id = s.id => SameSession(t, s)
  BY <1>2, <1>3 DEF Shared, SessionsFit, IsSession, SameSession
<1> QED
  BY <1>1, <1>2, <1>4, WorldStill, PickMoves

(* A planner that compares with the sessions picks its own or goes on.      *)
LEMMA CompareMoves ==
  ASSUME Shared, NEW c \in Clients, Local(c), Compare(c)
  PROVE  Moves(c)
<1>1. /\ at[c] = "compat" /\ ~Conflicting(c) /\ UNCHANGED worldVars
      /\ asks' = asks /\ job' = job /\ res' = res /\ known' = known
  BY DEF Compare, worldVars
<1>2. at[c] # "idle" /\ Planned(c) /\ InTree(job[c])
  BY <1>1 DEF Local, Fit, Planned, TreeStages
<1>3. ~MakesRemote(job[c])
  BY <1>2, JobIsKnown DEF Local
<1>4. ReadyFor(c, "attach") /\ ReadyFor(c, "gate")
  BY <1>2, <1>3 DEF ReadyFor, TreeStages, RemoteStages, Prepared
<1>5. CASE Compatible(c) # {} /\ ToAttach(c)
  BY <1>1, <1>2, <1>4, <1>5, AttachingMoves
<1>6. CASE Becomes(c, "gate") /\ UNCHANGED pick
  <2>1. KeepsPlan(c) /\ WorldFits
    BY <1>1, <1>6, WorldStill DEF KeepsPlan
  <2> QED
    BY <1>2, <1>4, <1>6, <2>1, PlanStep
<1> QED
  BY <1>5, <1>6 DEF Compare

(* One that takes its snapshot picks its own or a name to launch under.     *)
LEMMA SnapshotMoves ==
  ASSUME Shared, NEW c \in Clients, Local(c), Snapshot(c)
  PROVE  Moves(c)
<1>1. /\ at[c] = "snapshot" /\ UNCHANGED worldVars
      /\ asks' = asks /\ job' = job /\ res' = res /\ known' = known
  BY DEF Snapshot, worldVars
<1>2. WorldFits /\ Planned(c)
  BY <1>1, WorldStill DEF Planned
<1>3. CASE ~InTree(job[c]) /\ job[c].cmd = "new" /\ Compatible(c) # {} /\ ToAttach(c)
  <2>1. ~Conflicting(c)
    BY <1>3 DEF Snapshot
  <2>2. ReadyFor(c, "attach")
    BY <1>1, <1>2, PreparedStays DEF Prepared, WorldFits
  <2> QED
    BY <1>1, <1>2, <1>3, <2>1, <2>2, AttachingMoves
<1>4. CASE NewName(c, AfterSnapshot(c))
  <2> DEFINE stage == AfterSnapshot(c)
             s == [id |-> 0, stem |-> Stem(c), index |-> FreeIndex(c)]
  <2>1. Becomes(c, stage) /\ pick' = [pick EXCEPT ![c] = s]
    BY <1>4 DEF NewName
  <2>2. stage \in {"launch", "probe"}
    BY DEF AfterSnapshot, RuntimeOr
  <2>3. FreeIndex(c) \in Nat
    BY FreeIndexExists DEF Shared, SessionsFit
  <2>4. s.id = 0 /\ s.index \in Nat
    BY <2>3
  <2>5. \A t \in sess' : t.id # 0
    BY <1>2 DEF WorldFits, SessionsFit, IsSession
  <2> HIDE DEF s, stage
  <2>6. ReadyFor(c, stage)
    BY <1>1, <1>2, <2>2, PreparedStays DEF Prepared, WorldFits
  <2>7. s.id \in Nat /\ \A t \in sess' : t.id = s.id => SameSession(t, s)
    BY <2>4, <2>5
  <2>8. /\ stage # "idle" /\ stage \notin {"attach", "handshake", "done"}
        /\ asks' = asks /\ job' = job /\ res' = res /\ known' = known
    BY <1>1, <2>2
  <2> QED
    BY <1>2, <2>1, <2>4, <2>6, <2>7, <2>8, PickMoves
<1> QED
  BY <1>3, <1>4 DEF Snapshot

(* Making and entering the session.                                        *)

(* A session that changes its state stays itself.                          *)
LEMMA StateOnly ==
  ASSUME NEW s, IsSession(s), NEW state
  PROVE  /\ IsSession(InState(s, state)) /\ InState(s, state).id = s.id
         /\ SameSession(InState(s, state), s)
<1> DEFINE r == [id |-> s.id, user |-> s.user, stem |-> s.stem, profile |-> s.profile,
                 index |-> s.index, root |-> s.root, state |-> state]
<1>1. InState(s, state) = r
  BY DEF IsSession, InState
<1>2. r.id = s.id /\ SameSession(r, s)
  BY DEF SameSession
<1>3. IsSession(r)
  BY DEF IsSession
<1> QED
  BY <1>1, <1>2, <1>3

\* The sessions after one of them has changed its state, or ended.
Replaced(s, S) == sess' = (sess \ {s}) \union S

(* The world fits after a session has ended or changed its state.           *)
LEMMA SessionReplaced ==
  ASSUME Shared, NEW s \in sess, NEW S, Replaced(s, S), S = {} \/ \E x : S = {InState(s, x)},
         UNCHANGED <<repo, tree, remote, view>>
  PROVE  WorldFits
<1>1. IsFiniteSet(S)
  BY FS_EmptySet, FS_Singleton
<1>2. IsSession(s) /\ \A n \in S : IsSession(n) /\ n.id = s.id /\ SameSession(n, s)
  BY StateOnly DEF Shared, SessionsFit
<1>3. \A m, n \in S : m = n
  OBVIOUS
<1>4. IsFiniteSet(sess')
  BY <1>1, FS_RemoveElement, FS_Union DEF Shared, SessionsFit, Replaced
<1>5. \A n \in sess' : n \in S \/ (n \in sess /\ n # s)
  BY DEF Replaced
<1>6. SessionsFit'
  <2>1. \A n \in sess' : IsSession(n)
    BY <1>2, <1>5 DEF Shared, SessionsFit
  <2>2. ASSUME NEW m \in sess', NEW n \in sess', m.id = n.id  PROVE m = n
    <3>1. \A k \in sess : k.id = s.id => k = s
      BY DEF Shared, SessionsFit
    <3>2. CASE m \in S
      BY <1>2, <1>3, <1>5, <2>2, <3>1, <3>2
    <3>3. CASE m \notin S
      <4>1. m \in sess /\ m.id # s.id
        BY <1>5, <3>1, <3>3
      <4>2. n \notin S
        BY <1>2, <2>2, <4>1
      <4> QED
        BY <1>5, <2>2, <4>1, <4>2 DEF Shared, SessionsFit
    <3> QED
      BY <3>2, <3>3
  <2>3. (\A n \in sess : IsSession(n))' <=> \A n \in sess' : IsSession(n)
    BY DEF IsSession
  <2> QED
    BY <1>4, <2>1, <2>2, <2>3 DEF SessionsFit
<1>7. SessionsStay
  <2>1. \A n \in sess : SameSession(n, n)
    BY DEF SameSession
  <2> QED
    BY <1>2, <1>5, <2>1 DEF SessionsStay
<1>8. WorldTypes' /\ TreesExcluded'
  BY DEF Shared, WorldTypes, PlanTypes, TreesExcluded
<1>9. RepoGrows /\ RemoteGrows /\ TreesStay
  BY DEF RepoGrows, RemoteGrows, TreesStay
<1> QED
  BY <1>6, <1>7, <1>8, <1>9 DEF WorldFits, Grows

(* A launch picks the session it makes, under an id nobody holds.           *)
LEMMA LaunchMoves ==
  ASSUME Shared, NEW c \in Clients, Local(c), Launch(c)
  PROVE  Moves(c)
<1> DEFINE s == [id |-> NewId, user |-> res[c].user, stem |-> pick[c].stem, profile |-> res[c].profile,
                 index |-> pick[c].index, root |-> Root(c), state |-> "pending"]
<1>1. /\ at[c] = "launch" /\ sess' = sess \union {s} /\ pick' = [pick EXCEPT ![c] = s]
      /\ Becomes(c, "handshake") /\ asks' = asks /\ job' = job /\ res' = res /\ known' = known
      /\ UNCHANGED <<repo, tree, remote, box, view>>
  BY DEF Launch
<1>2. NewId \in Nat \ {0} /\ NewId \notin Ids
  BY NewIdIsNew, CommandsAssumption DEF Shared, SessionsFit
<1>3. pick[c].index \in Nat
  BY <1>1 DEF Local, Picked, NamePicked
<1>4. IsSession(s) /\ s.id = NewId
  BY <1>2, <1>3 DEF IsSession
<1>5. Matches(s, c)
  BY DEF Matches, Under
<1> HIDE DEF s
<1>6. \A t \in sess : t.id # s.id
  BY <1>2, <1>4 DEF Ids
<1>7. SessionsFit'
  <2>1. IsFiniteSet(sess')
    BY <1>1, FS_AddElement DEF Shared, SessionsFit
  <2>2. \A t \in sess' : IsSession(t)
    BY <1>1, <1>4 DEF Shared, SessionsFit
  <2>3. \A m, n \in sess' : m.id = n.id => m = n
    BY <1>1, <1>6 DEF Shared, SessionsFit
  <2>4. (\A n \in sess : IsSession(n))' <=> \A n \in sess' : IsSession(n)
    BY DEF IsSession
  <2> QED
    BY <2>1, <2>2, <2>3, <2>4 DEF SessionsFit
<1>8. SessionsStay
  <2>1. \A n \in sess : SameSession(n, n)
    BY DEF SameSession
  <2> QED
    BY <1>1, <1>2, <1>4, <2>1 DEF SessionsStay
<1>9. WorldTypes' /\ TreesExcluded' /\ RepoGrows /\ RemoteGrows /\ TreesStay
  BY <1>1 DEF Shared, WorldTypes, PlanTypes, TreesExcluded, RepoGrows, RemoteGrows, TreesStay
<1>10. WorldFits
  BY <1>7, <1>8, <1>9 DEF WorldFits, Grows
<1>11. Planned(c) /\ ReadyFor(c, "handshake")
  BY <1>1, <1>10, PreparedStays DEF Prepared, WorldFits
<1>12. s.id \in Nat /\ \A t \in sess' : t.id = s.id => SameSession(t, s)
  BY <1>1, <1>2, <1>4, <1>6 DEF SameSession
<1>13. asks' = asks /\ job' = job /\ res' = res /\ known' = known
  BY <1>1
<1> QED
  BY <1>1, <1>5, <1>10, <1>11, <1>12, <1>13, PickMoves

(* The handshake leaves the planner's own session live.                     *)
LEMMA HandshakeMoves ==
  ASSUME Shared, NEW c \in Clients, Local(c), Handshake(c)
  PROVE  Moves(c)
<1> DEFINE s == pick[c]
<1>1. /\ at[c] = "handshake" /\ s \in sess /\ Replaced(s, {InState(s, "live")})
      /\ Becomes(c, "done") /\ KeepsPlan(c) /\ UNCHANGED <<repo, tree, remote, box, view>>
  BY DEF Handshake, Replaced
<1>2. WorldFits
  BY <1>1, SessionReplaced
<1>3. Alone(c) /\ at'[c] = "done" /\ job' = job /\ res' = res /\ pick' = pick
  BY <1>1, PlanKept
<1>4. Planned(c) /\ ReadyFor(c, "done")
  BY <1>1, <1>2, PreparedStays DEF Prepared, WorldFits
<1>5. SuitsStage(c, "done")
  <2>1. Matches(pick[c], c)
    BY <1>1 DEF Local, Picked
  <2> QED
    BY <1>2, <1>3, <2>1, PickStays DEF SuitsStage, WorldFits
<1>6. Local(c)'
  BY <1>3, <1>4, <1>5, Lands DEF Alone
<1> QED
  BY <1>2, <1>3, <1>6 DEF Moves

(* Attaching enters what was picked.                                        *)
LEMMA AttachMoves ==
  ASSUME Shared, NEW c \in Clients, Local(c), Attach(c)
  PROVE  Moves(c)
<1>1. PICK s \in sess : Reaches(pick[c], s) /\ pick' = [pick EXCEPT ![c] = s]
  BY DEF Attach
<1>2. /\ at[c] = "attach" /\ Becomes(c, "done") /\ UNCHANGED worldVars
      /\ asks' = asks /\ job' = job /\ res' = res /\ known' = known /\ sess' = sess
  BY DEF Attach, worldVars
<1>3. WorldFits
  BY <1>2, WorldStill
<1>4. Planned(c) /\ ReadyFor(c, "done")
  BY <1>2, <1>3, PreparedStays DEF WorldFits
<1>5. Matches(s, c)
  BY <1>1, <1>2 DEF Local, Picked, Matches, SameSession, Reaches
<1>6. s.id \in Nat /\ \A t \in sess' : t.id = s.id => SameSession(t, s)
  BY <1>1, <1>2 DEF Shared, SessionsFit, IsSession, SameSession
<1> QED
  BY <1>1, <1>2, <1>3, <1>4, <1>5, <1>6, PickMoves

(* Whatever a planner does, it is alone in it and keeps what concerns it.   *)
LEMMA PlansMoves ==
  ASSUME Shared, NEW c \in Clients, Local(c), Plans(c)
  PROVE  Moves(c)
<1>1. Decides(c) => Moves(c)
  BY CompareMoves, SnapshotMoves, LaunchMoves, HandshakeMoves, AttachMoves DEF Decides
<1> QED
  BY <1>1, StartMoves, ResolveMoves, MakeDirectoryMoves, RevalidateMoves, EndsMoves,
     CreatesProjectMoves, PlansWorktreeMoves, ReadiesRuntimeMoves DEF Plans

-----------------------------------------------------------------------------
(* The steps of others.                                                    *)

\* No planner takes part in the step.
Aside == asks' = asks /\ at' = at /\ job' = job /\ res' = res /\ known' = known /\ pick' = pick

(* What agents, peers and operators do leaves the planners alone and fits.  *)
LEMMA EnvironmentFits ==
  ASSUME Shared, Environment
  PROVE  Aside /\ WorldFits
<1>1. ASSUME NEW q \in Paths, OtherCreates(q)  PROVE Aside /\ WorldFits
  <2>1. /\ Aside /\ remote[q] = None /\ remote' = [remote EXCEPT ![q] = "other"]
        /\ UNCHANGED <<repo, tree, sess, view>>
    BY <1>1 DEF OtherCreates, Aside
  <2>2. DOMAIN remote' = Paths /\ RemoteGrows
    BY <2>1 DEF Shared, PlanTypes, RemoteGrows
  <2>3. WorldTypes' /\ TreesExcluded' /\ SessionsFit'
    BY <2>1, <2>2 DEF Shared, PlanTypes, WorldTypes, TreesExcluded, SessionsFit, IsSession
  <2>4. RepoGrows /\ TreesStay /\ SessionsStay
    BY <2>1 DEF RepoGrows, TreesStay, SessionsStay, SameSession
  <2> QED
    BY <2>1, <2>2, <2>3, <2>4 DEF WorldFits, Grows
<1>2. ASSUME NEW w \in TreePaths, RemovesTree(w)  PROVE Aside /\ WorldFits
  <2>1. /\ Aside /\ ~InUse(w) /\ tree' = [tree EXCEPT ![w] = NoTree]
        /\ UNCHANGED <<repo, remote, sess, view>>
    BY <1>2 DEF RemovesTree, Aside
  <2>2. /\ tree' \in [TreePaths -> [of : Places, branch : Branches] \union {NoTree}]
        /\ \A v \in TreePaths : tree'[v] \in {tree[v], NoTree} /\ (v # w => tree'[v] = tree[v])
    BY <2>1 DEF Shared, PlanTypes
  <2>3. TreesExcluded'
    BY <2>1, <2>2 DEF Shared, TreesExcluded
  <2>4. WorldTypes' /\ SessionsFit'
    BY <2>1, <2>2 DEF Shared, PlanTypes, WorldTypes, SessionsFit, IsSession
  <2>5. RepoGrows /\ RemoteGrows /\ TreesStay /\ SessionsStay
    BY <2>1, <2>2 DEF RepoGrows, RemoteGrows, TreesStay, SessionsStay, SameSession
  <2> QED
    BY <2>1, <2>3, <2>4, <2>5 DEF WorldFits, Grows
<1>3. ASSUME NEW p \in Places, NEW b \in Branches, DeletesBranch(p, b)  PROVE Aside /\ WorldFits
  <2>1. /\ Aside /\ repo' = [repo EXCEPT ![p].branches = @ \ {b}]
        /\ UNCHANGED <<tree, remote, box, sess, view>>
    BY <1>3, Zenon DEF DeletesBranch, Aside
  <2>2. repo' \in [Places -> Repositories] /\ RepoGrows
    BY <2>1 DEF Shared, PlanTypes, Repositories, RepoGrows
  <2> QED
    BY <2>1, <2>2, WorldWithRepo
<1>4. ASSUME NEW p \in Places, BoxChanges(p)  PROVE Aside /\ WorldFits
  <2>1. Aside /\ UNCHANGED <<repo, tree, remote, sess, view>>
    BY <1>4 DEF BoxChanges, Aside
  <2>2. repo' \in [Places -> Repositories]
    BY <2>1 DEF Shared, PlanTypes
  <2>3. WorldTypes' /\ TreesExcluded' /\ SessionsFit'
    BY <2>1, <2>2 DEF Shared, PlanTypes, WorldTypes, TreesExcluded, SessionsFit, IsSession
  <2>4. RepoGrows /\ RemoteGrows /\ TreesStay /\ SessionsStay
    BY <2>1 DEF RepoGrows, RemoteGrows, TreesStay, SessionsStay, SameSession
  <2> QED
    BY <2>1, <2>3, <2>4 DEF WorldFits, Grows
<1>5. ASSUME NEW s \in sess, SessionChanges(s)  PROVE Aside /\ WorldFits
  <2>1. Aside /\ UNCHANGED <<repo, tree, remote, view>>
    BY <1>5 DEF SessionChanges, Aside
  <2>2. Replaced(s, {InState(s, "exited")}) \/ Replaced(s, {})
    BY <1>5 DEF SessionChanges, Replaced
  <2> QED
    BY <2>1, <2>2, SessionReplaced
<1>6. ASSUME NEW q \in Paths, NEW u \in Users, Repoint(u, q)  PROVE Aside /\ WorldFits
  <2>1. Aside /\ UNCHANGED <<repo, tree, remote, sess>>
    BY <1>6 DEF Repoint, Aside
  <2>2. PICK p \in LeadsTo[u][q] : view' = [view EXCEPT ![u][q] = p]
    BY <1>6 DEF Repoint
  <2>3. p \in Places
    BY PolicyAssumption
  <2>4. view' \in Views
    BY <2>2, <2>3 DEF Shared, PlanTypes, Views
  <2>5. WorldTypes' /\ TreesExcluded' /\ SessionsFit'
    BY <2>1, <2>4 DEF Shared, PlanTypes, WorldTypes, TreesExcluded, SessionsFit, IsSession
  <2>6. RepoGrows /\ RemoteGrows /\ TreesStay /\ SessionsStay
    BY <2>1 DEF RepoGrows, RemoteGrows, TreesStay, SessionsStay, SameSession
  <2> QED
    BY <2>1, <2>5, <2>6 DEF WorldFits, Grows
<1> QED
  BY <1>1, <1>2, <1>3, <1>4, <1>5, <1>6 DEF Environment

-----------------------------------------------------------------------------
(* The invariant.                                                          *)

(* At first nobody plans.                                                   *)
LEMMA PlanInvInit ==
  ASSUME PlannersInit
  PROVE  PlanInv
<1>1. view \in Views
  <2> DEFINE v == [u \in Users |-> [q \in Paths |-> CHOOSE p \in LeadsTo[u][q] : TRUE]]
  <2>1. \A u \in Users, q \in Paths : v[u][q] \in LeadsTo[u][q] /\ v[u][q] \in Places
    BY PolicyAssumption
  <2>2. v \in [Users -> [Paths -> Places]]
    BY <2>1
  <2> HIDE DEF v
  <2>3. v \in Views
    BY <2>1, <2>2 DEF Views
  <2> QED
    BY <2>3, Zenon DEF PlannersInit
<1>2. PICK missing \in SUBSET Creatable :
        repo = [p \in Places |-> IF p \in missing THEN Absent ELSE Cloned]
  BY DEF PlannersInit
<1>3. Absent \in Repositories /\ Cloned \in Repositories
  BY DEF Absent, Cloned, Repositories
<1>4. repo \in [Places -> Repositories]
  BY <1>2, <1>3
<1>5. /\ asks \in Commands /\ at = [c \in Clients |-> "idle"] /\ job = [c \in Clients |-> NoJob]
      /\ res = [c \in Clients |-> NoPlan] /\ known = [c \in Clients |-> None]
      /\ pick = [c \in Clients |-> NoSession] /\ tree = [w \in TreePaths |-> NoTree]
      /\ remote = [q \in Paths |-> None] /\ sess = {}
  BY DEF PlannersInit
<1>6. PlanTypes
  BY <1>1, <1>4, <1>5 DEF PlanTypes
<1>7. TreesExcluded
  BY <1>5 DEF TreesExcluded
<1>8. SessionsFit
  BY <1>5, FS_EmptySet DEF SessionsFit
<1>9. ASSUME NEW c \in Clients  PROVE Local(c)
  <2>1. at[c] = "idle" /\ job[c] = NoJob /\ pick[c] = NoSession
    BY <1>5
  <2>2. Fit(c) /\ Excludes(c) /\ HasTree(c) /\ Commits(c) /\ Whole(c)
    BY <2>1 DEF Fit, Planned, TreeStages, RemoteStages, Excludes, HasTree, Prepared, Commits, Whole
  <2>3. Picked(c)
    BY <1>5, <2>1 DEF Picked, NamePicked, NoSession
  <2> QED
    BY <2>2, <2>3 DEF Local
<1> QED
  BY <1>6, <1>7, <1>8, <1>9, InvariantByPlanner DEF Shared

(* One planner moves and the others keep what they rely on, or the          *)
(* environment moves.                                                       *)
LEMMA PlanInvStep ==
  ASSUME PlanInv, [Next]_planVars
  PROVE  PlanInv'
<1>1. Shared /\ \A c \in Clients : Local(c)
  BY InvariantByPlanner
<1>2. (PlanInv <=> Shared /\ \A c \in Clients : Local(c))'
  BY InvariantByPlanner, PTL
<1>3. ASSUME NEW c \in Clients, Plans(c)  PROVE PlanInv'
  <2>1. Alone(c) /\ WorldFits /\ Local(c)'
    BY <1>1, <1>3, PlansMoves DEF Moves
  <2>2. Shared'
    BY <1>1, <2>1, SharedAfter
  <2>3. ASSUME NEW d \in Clients \ {c}  PROVE Local(d)'
    <3>1. SamePlan(d) /\ asks' = asks /\ Grows
      BY <2>1 DEF Alone, WorldFits
    <3> QED
      BY <1>1, <3>1, OthersKeep
  <2> QED
    BY <1>2, <2>1, <2>2, <2>3
<1>4. CASE Environment \/ UNCHANGED planVars
  <2>1. Aside /\ WorldFits
    <3>1. CASE Environment
      BY <1>1, <3>1, EnvironmentFits
    <3>2. CASE UNCHANGED planVars
      BY <1>1, <3>2, WorldStill DEF planVars, Aside
    <3> QED
      BY <1>4, <3>1, <3>2
  <2>2. Shared'
    BY <1>1, <2>1 DEF Aside, Shared, PlanTypes, WorldFits, WorldTypes
  <2>3. \A d \in Clients : Local(d)'
    BY <1>1, <2>1, OthersKeep DEF Aside, SamePlan, WorldFits
  <2> QED
    BY <1>2, <2>2, <2>3
<1> QED
  BY <1>3, <1>4 DEF Next

(* However many planners work at once, whatever they are asked and wherever *)
(* each is interrupted, a planner is in a stage of its own command, and what *)
(* that stage relies on holds (app/run.py, app/new.py, app/tui_planning.py). *)
THEOREM PlanInvariant == Spec => []PlanInv
<1>1. PlannersInit => PlanInv
  BY PlanInvInit
<1>2. PlanInv /\ [Next]_planVars => PlanInv'
  BY PlanInvStep
<1> QED
  BY <1>1, <1>2, PTL DEF Spec

(* plan_worktree_launch, write_uxon_exclude_entry: from git worktree add to  *)
(* the launch the directory is a worktree of the planner's repository with   *)
(* its branch, though branches share paths, and none is shown as untracked.  *)
THEOREM WorktreeStaysReady == Spec => []WorktreeReady
<1>1. PlanInv => WorktreeReady
  BY DEF PlanInv
<1> QED
  BY <1>1, PlanInvariant, PTL

(* create_project_remote: who goes on from the creation of a repository has  *)
(* created it, and has committed, wired and pushed.                          *)
THEOREM CreationIsWhole == Spec => []CreatedIsWhole
<1>1. PlanInv => CreatedIsWhole
  BY DEF PlanInv
<1> QED
  BY <1>1, PlanInvariant, PTL

(* choose_attach_session, allocate_session_name, attach_session: the session *)
(* entered is of the planner's user, profile and directory, however old the  *)
(* listing it was chosen from.                                               *)
THEOREM EntryIsOwn == Spec => []EntersItsOwn
<1>1. PlanInv => EntersItsOwn
  BY DEF PlanInv, SessionsKnown, EntersItsOwn, Matches
<1> QED
  BY <1>1, PlanInvariant, PTL

-----------------------------------------------------------------------------
(* Profiles are settled on by resolution only.                             *)

(* No other step changes what a planner has settled on.                     *)
LEMMA OnlyResolveSettles ==
  ASSUME Shared, NEW c \in Clients, Plans(c), ~Resolve(c), ~Ends(c)
  PROVE  res' = res
<1>1. CASE Start(c)
  BY <1>1, Zenon DEF Start
<1>2. CASE MakeDirectory(c)
  BY <1>2, Zenon DEF MakeDirectory, KeepsPlan
<1>3. CASE Revalidate(c)
  <2>1. res' = [res EXCEPT ![c] = res[c]]
    BY <1>3 DEF Revalidate, SameResolution
  <2> QED
    BY <2>1 DEF Shared, PlanTypes
<1>4. CASE CreatesProject(c)
  BY <1>4 DEF CreatesProject, HasGitDir, Preflight, GitInit, GitCommit, CreateRemote, AddOrigin, Push,
              KeepsPlan
<1>5. CASE PlansWorktree(c)
  <2>1. CASE AddWorktree(c)
    BY <2>1, Zenon DEF AddWorktree
  <2>2. CASE ProbeBranch(c)
    BY <2>2, Zenon DEF ProbeBranch, Learns
  <2> QED
    BY <1>5, <2>1, <2>2 DEF PlansWorktree, Gate, ReadExclude, WriteExclude, Fetch, CopyIncludes, KeepsPlan
<1>6. CASE ReadiesRuntime(c)
  <2>1. CASE ProbeRuntime(c)
    BY <2>1, Zenon DEF ProbeRuntime, Learns
  <2> QED
    BY <1>6, <2>1 DEF ReadiesRuntime, Prepare, ProbeAgent, KeepsPlan
<1>7. CASE Decides(c)
  BY <1>7 DEF Decides, Compare, Snapshot, Launch, Handshake, Attach, KeepsPlan
<1> QED
  BY <1>1, <1>2, <1>3, <1>4, <1>5, <1>6, <1>7 DEF Plans

(* What a planner settles on in a step is authorized by what the step sees. *)
LEMMA StepSettlesAuthorized ==
  ASSUME PlanInv, [Next]_planVars
  PROVE  \A c \in Clients : res'[c] \notin {res[c], NoPlan} => Authorized(job[c], res'[c])
<1>1. Shared /\ \A c \in Clients : Local(c)
  BY InvariantByPlanner
<1>2. SUFFICES ASSUME NEW c \in Clients, res'[c] \notin {res[c], NoPlan}
               PROVE  Authorized(job[c], res'[c])
  OBVIOUS
<1>3. ~(Environment \/ UNCHANGED planVars)
  <2>1. Environment => res' = res
    BY <1>1, EnvironmentFits DEF Aside
  <2>2. UNCHANGED planVars => res' = res
    BY DEF planVars
  <2> QED
    BY <1>2, <2>1, <2>2
<1>4. PICK d \in Clients : Plans(d)
  BY <1>3 DEF Next
<1>5. d = c
  <2>1. Alone(d)
    BY <1>1, <1>4, PlansMoves DEF Moves
  <2> QED
    BY <1>2, <2>1 DEF Alone, SamePlan
<1>6. ~Ends(c)
  <2>1. Ends(c) => res' = [res EXCEPT ![c] = NoPlan]
    BY DEF Ends
  <2> QED
    BY <1>1, <1>2, <2>1 DEF Shared, PlanTypes
<1>7. Resolve(c)
  BY <1>1, <1>2, <1>4, <1>5, <1>6, OnlyResolveSettles
<1>8. PICK r \in Resolutions(job[c].profile, job[c].path, job[c].git) : res' = [res EXCEPT ![c] = r]
  BY <1>7 DEF Resolve
<1>9. res'[c] = r
  BY <1>1, <1>8 DEF Shared, PlanTypes
<1>10. job[c].path \in Paths /\ job[c].profile \in Profiles \union {None}
  BY <1>1, <1>7, JobIsKnown DEF Resolve, Local
<1> QED
  BY <1>1, <1>8, <1>9, <1>10, ResolutionIsPermitted DEF Authorized, Shared, PlanTypes

(* resolve_launch_profile: for any rules, users and views, a profile is      *)
(* settled on only where the rule of the place its own user sees permits it, *)
(* and its git profile with it.                                              *)
THEOREM ProfilesAreAuthorized == Spec => SettlesAuthorized
<1>1. PlanInv /\ [Next]_planVars =>
        [\A c \in Clients : res'[c] \notin {res[c], NoPlan} => Authorized(job[c], res'[c])]_planVars
  BY StepSettlesAuthorized
<1> QED
  BY <1>1, PlanInvariant, PTL DEF Spec, SettlesAuthorized
=============================================================================
