-------------------------- MODULE LaunchFlow_proofs --------------------------
(***************************************************************************)
(* The launch flows of the TUI, for any number of flows and probes: a flow *)
(* is in one place, its workspace questions are those of the flow begun    *)
(* last, nothing is committed past the runtime gate, and the first launch  *)
(* requested stands.                                                       *)
(***************************************************************************)
EXTENDS LaunchFlow, FiniteSetTheorems, TLAPS

Modals == [screen : Screens, flow : Flows]

JobRecords == [task : Tasks, flow : Flows]

-----------------------------------------------------------------------------
(* Where a flow is, and what is left when it goes on.                        *)

(* A flow's number and place.                                                *)
LEMMA FlowFields ==
  ASSUME NEW f \in Flows
  PROVE  /\ f.gen \in 0..MaxFlows
         /\ \A x \in {"unknown", "folder", "worktree", "branch", "project"} :
              /\ [f EXCEPT !.place = x] \in Flows
              /\ [f EXCEPT !.place = x].gen = f.gen /\ [f EXCEPT !.place = x].place = x
         /\ \A x \in 0..MaxFlows :
              [f EXCEPT !.gen = x] \in Flows /\ [f EXCEPT !.gen = x].gen = x
BY DEF Flows

(* The modals and callbacks that a flow may become.                          *)
LEMMA NewPlaces ==
  ASSUME NEW f \in Flows
  PROVE  /\ \A x \in Screens : /\ Shown(x, f) \in Modals
                               /\ Shown(x, f).screen = x /\ Shown(x, f).flow = f
         /\ \A x \in Tasks : /\ Job(x, f) \in JobRecords
                             /\ Job(x, f).task = x /\ Job(x, f).flow = f
BY DEF Shown, Job, Modals, JobRecords

(* The invariant's types.                                                    *)
LEMMA FlowTypes ==
  ASSUME FlowInv
  PROVE  /\ FlowTypeOK /\ Begun /\ Bottoms /\ Apart /\ Gated /\ WorkspaceOfCurrentFlow
         /\ CwdReadyIsCurrent
         /\ MaxFlows \in Nat /\ generation \in 0..MaxFlows /\ stack \in Seq(Modals)
         /\ Len(stack) \in Nat /\ DOMAIN stack = 1..Len(stack)
         /\ jobs \subseteq JobRecords /\ unready \subseteq Flows /\ unasked \subseteq Flows
         /\ \A i \in DOMAIN stack : stack[i] \in Modals /\ stack[i].flow \in Flows
         /\ \A i \in DOMAIN stack : stack[i].flow.gen \in 0..MaxFlows
         /\ \A j \in jobs : j.flow \in Flows /\ j.flow.gen \in 0..MaxFlows
         /\ cwd \in [generation : Nat, ready : BOOLEAN, of : Nat]
<1>1. /\ FlowTypeOK /\ MaxFlows \in Nat /\ stack \in Seq(Modals) /\ jobs \subseteq JobRecords
  BY FlowAssumption DEF FlowInv, FlowTypeOK, Modals, JobRecords
<1>2. \A i \in DOMAIN stack : stack[i] \in Modals
  BY <1>1
<1>3. \A m \in Modals : m.flow \in Flows /\ m.flow.gen \in 0..MaxFlows
  BY DEF Modals, Flows
<1>4. \A j \in JobRecords : j.flow \in Flows /\ j.flow.gen \in 0..MaxFlows
  BY DEF JobRecords, Flows
<1> QED
  BY <1>1, <1>2, <1>3, <1>4 DEF FlowInv, FlowTypeOK

(* A flow that leaves its modal leaves nothing else behind.                   *)
LEMMA TopLeaves ==
  ASSUME FlowInv, ~MainOnTop, NEW g, g = TopFlow.gen
  PROVE  /\ TopFlow \in Flows /\ g \in 0..MaxFlows /\ g <= generation
         /\ \A j \in jobs : g # 0 => j.flow.gen # g
         /\ \A i \in 1..Len(stack) - 1 : g # 0 => stack[i].flow.gen # g
         /\ ~Top("other") => g # 0
         /\ ~Top("confirm") => \A u \in unasked : u.gen # g
         /\ Top("confirm") => \A u \in unasked : u.gen = g => u = TopFlow
         /\ ~Top("git") /\ ~Top("choice") /\ ~Top("confirm") => Len(stack) = 1
         /\ Top("workspace") \/ Top("branch") => g = generation
         /\ Top("branch") => ~NeedsGate(TopFlow)
<1>1. PICK n \in DOMAIN stack : n = Len(stack)
  BY FlowTypes DEF MainOnTop
<1>2. TopFlow = stack[n].flow /\ \A x : Top(x) <=> stack[n].screen = x
  BY <1>1 DEF Top, TopFlow, MainOnTop
<1>3. TopFlow \in Flows /\ g \in 0..MaxFlows /\ g <= generation /\ (~Top("other") => g # 0)
  BY <1>1, <1>2, FlowTypes DEF Begun
<1>4. \A j \in jobs : g # 0 => j.flow.gen # g
  BY <1>1, <1>2, FlowTypes DEF Apart
<1>5. \A i \in 1..Len(stack) - 1 : g # 0 => stack[i].flow.gen # g
  <2>1. \A i \in 1..Len(stack) - 1 : i \in DOMAIN stack /\ i # n
    BY <1>1, FlowTypes
  <2> QED
    BY <1>1, <1>2, <2>1, FlowTypes DEF Apart
<1>6. \A u \in unasked : u.gen = g => stack[n] = Shown("confirm", u)
  BY <1>1, <1>2, FlowTypes DEF Gated
<1>7. /\ ~Top("confirm") => \A u \in unasked : u.gen # g
      /\ Top("confirm") => \A u \in unasked : u.gen = g => u = TopFlow
  BY <1>2, <1>6 DEF Shown
<1>8. ~Top("git") /\ ~Top("choice") /\ ~Top("confirm") => Len(stack) = 1
  BY <1>1, <1>2, FlowTypes DEF Bottoms
<1>9. Top("workspace") \/ Top("branch") => g = generation
  BY <1>1, <1>2, FlowTypes DEF WorkspaceOfCurrentFlow
<1>10. Top("branch") => ~NeedsGate(TopFlow)
  BY <1>1, <1>2, FlowTypes DEF Gated
<1> QED
  BY <1>3, <1>4, <1>5, <1>7, <1>8, <1>9, <1>10

(* Nor does one whose callback is done.                                      *)
LEMMA JobLeaves ==
  ASSUME FlowInv, NEW j \in jobs, NEW g, g = j.flow.gen
  PROVE  /\ j.flow \in Flows /\ g \in 0..MaxFlows /\ g <= generation
         /\ \A i \in DOMAIN stack : g # 0 => stack[i].flow.gen # g
         /\ \A k \in jobs \ {j} : g # 0 => k.flow.gen # g
         /\ \A u \in unasked : u.gen # g
         /\ j.task # "attach" => g # 0
BY FlowTypes DEF Begun, Apart, Gated

(* What is left of the modals and callbacks once flow g has gone on, to a      *)
(* modal among screens or a callback among work.                              *)
Rest(g, screens, work) ==
  /\ \A i \in DOMAIN stack' :
       \/ i \in DOMAIN stack /\ stack'[i] = stack[i] /\ (g # 0 => stack[i].flow.gen # g)
       \/ i = Len(stack') /\ stack'[i] \in screens
  /\ \A j \in jobs' :
       (j \in jobs /\ (g # 0 => j.flow.gen # g)) \/ j \in work

(* The shapes of a step: the modal on top goes, or is replaced, ...            *)
LEMMA TopRest ==
  ASSUME FlowInv, ~MainOnTop
  PROVE  /\ \A work \in SUBSET JobRecords :
              stack' = Below /\ jobs' = jobs \union work
                => stack' \in Seq(Modals) /\ Rest(TopFlow.gen, {}, work)
         /\ \A m \in Modals :
              stack' = Append(Below, m) /\ jobs' = jobs
                => /\ stack' \in Seq(Modals) /\ Len(stack') = Len(stack)
                   /\ Rest(TopFlow.gen, {m}, {})
                   /\ Len(stack) = 1 => \A i \in DOMAIN stack' : stack'[i] = m
<1>1. /\ stack \in Seq(Modals) /\ Len(stack) \in Nat \ {0} /\ DOMAIN stack = 1..Len(stack)
  BY FlowTypes DEF MainOnTop
<1>2. /\ Below \in Seq(Modals) /\ Len(Below) = Len(stack) - 1
      /\ DOMAIN Below = 1..Len(stack) - 1
      /\ \A i \in 1..Len(stack) - 1 : Below[i] = stack[i]
  BY <1>1 DEF Below
<1>3. /\ \A i \in 1..Len(stack) - 1 : TopFlow.gen # 0 => stack[i].flow.gen # TopFlow.gen
      /\ \A j \in jobs : TopFlow.gen # 0 => j.flow.gen # TopFlow.gen
  BY TopLeaves
<1>4. ASSUME NEW work \in SUBSET JobRecords, stack' = Below, jobs' = jobs \union work
      PROVE  stack' \in Seq(Modals) /\ Rest(TopFlow.gen, {}, work)
  BY <1>1, <1>2, <1>3, <1>4 DEF Rest
<1>5. ASSUME NEW m \in Modals, stack' = Append(Below, m), jobs' = jobs
      PROVE  /\ stack' \in Seq(Modals) /\ Len(stack') = Len(stack)
             /\ Rest(TopFlow.gen, {m}, {})
             /\ Len(stack) = 1 => \A i \in DOMAIN stack' : stack'[i] = m
  <2>1. PICK b : b = Below
    OBVIOUS
  <2>2. PICK n \in Nat : n + 1 = Len(stack)
    <3>1. Len(stack) - 1 \in Nat /\ (Len(stack) - 1) + 1 = Len(stack)
      BY <1>1
    <3> QED
      BY <3>1
  <2>3. /\ b \in Seq(Modals) /\ Len(b) = n /\ stack' = Append(b, m)
        /\ \A i \in 1..n : b[i] = stack[i]
    <3>1. Len(stack) - 1 = n
      BY <2>2
    <3>2. b \in Seq(Modals) /\ stack' = Append(b, m)
      BY <1>2, <1>5, <2>1
    <3>3. Len(b) = n /\ \A i \in 1..n : b[i] = stack[i]
      BY <1>2, <2>1, <3>1
    <3> QED
      BY <3>2, <3>3
  <2>4. /\ stack' \in Seq(Modals) /\ Len(stack') = n + 1 /\ DOMAIN stack' = 1..n + 1
        /\ \A i \in 1..n : stack'[i] = b[i]
        /\ stack'[n + 1] = m
    BY <2>2, <2>3
  <2>6. Rest(TopFlow.gen, {m}, {})
    <3>1. ASSUME NEW i \in DOMAIN stack'
          PROVE  \/ /\ i \in DOMAIN stack /\ stack'[i] = stack[i]
                    /\ TopFlow.gen # 0 => stack[i].flow.gen # TopFlow.gen
                 \/ i = Len(stack') /\ stack'[i] \in {m}
      BY <1>1, <1>3, <2>2, <2>3, <2>4
    <3> QED
      BY <1>3, <1>5, <3>1 DEF Rest
  <2>7. Len(stack) = 1 => \A i \in DOMAIN stack' : stack'[i] = m
    BY <2>2, <2>4
  <2> QED
    BY <2>2, <2>4, <2>6, <2>7
<1> QED
  BY <1>4, <1>5

(* ... or a callback is done, and goes on in a callback or in a modal.         *)
LEMMA JobRest ==
  ASSUME FlowInv, NEW j \in jobs
  PROVE  /\ \A work \in SUBSET JobRecords :
              stack' = stack /\ jobs' = (jobs \ {j}) \union work
                => stack' \in Seq(Modals) /\ Rest(j.flow.gen, {}, work)
         /\ \A m \in Modals :
              stack' = Append(stack, m) /\ jobs' = jobs \ {j}
                => /\ stack' \in Seq(Modals) /\ Len(stack') = Len(stack) + 1
                   /\ Rest(j.flow.gen, {m}, {})
<1>1. /\ stack \in Seq(Modals) /\ Len(stack) \in Nat /\ DOMAIN stack = 1..Len(stack)
  BY FlowTypes
<1>2. /\ \A i \in DOMAIN stack : j.flow.gen # 0 => stack[i].flow.gen # j.flow.gen
      /\ \A k \in jobs \ {j} : j.flow.gen # 0 => k.flow.gen # j.flow.gen
  BY JobLeaves
<1>3. ASSUME NEW work \in SUBSET JobRecords, stack' = stack, jobs' = (jobs \ {j}) \union work
      PROVE  stack' \in Seq(Modals) /\ Rest(j.flow.gen, {}, work)
  BY <1>1, <1>2, <1>3 DEF Rest
<1>4. ASSUME NEW m \in Modals, stack' = Append(stack, m), jobs' = jobs \ {j}
      PROVE  /\ stack' \in Seq(Modals) /\ Len(stack') = Len(stack) + 1
             /\ Rest(j.flow.gen, {m}, {})
  <2>1. /\ stack' \in Seq(Modals) /\ Len(stack') = Len(stack) + 1
        /\ DOMAIN stack' = 1..Len(stack) + 1
        /\ \A i \in 1..Len(stack) : stack'[i] = stack[i]
        /\ stack'[Len(stack) + 1] = m
    BY <1>1, <1>4
  <2> QED
    BY <1>1, <1>2, <1>4, <2>1 DEF Rest
<1> QED
  BY <1>3, <1>4

-----------------------------------------------------------------------------
(* The screens that may cover others.                                        *)
Covering == {"git", "choice", "confirm"}

(* One flow goes on: what the invariant asks of the step.                     *)
LEMMA FlowMoves ==
  ASSUME FlowInv,
         NEW g \in 0..MaxFlows, NEW screens \in SUBSET Modals, NEW work \in SUBSET JobRecords,
         Rest(g, screens, work), stack' \in Seq(Modals), UNCHANGED cwd,
         screens = {} \/ work = {}, \A j, k \in work : j = k,
         generation' \in 0..MaxFlows, g <= generation',
         \/ generation' = generation
         \/ generation' = generation + 1 /\ \A i \in DOMAIN stack' : stack'[i] \in screens,
         \A m \in screens :
           /\ m.flow.gen = g /\ (m.screen # "other" => g # 0)
           /\ m.screen \notin Covering => Len(stack') = 1
           /\ m.screen \in {"workspace", "branch"} => g = generation'
           /\ m.screen = "branch" => ~NeedsGate(m.flow),
         \A j \in work :
           /\ j.flow.gen = g /\ (j.task # "attach" => g # 0)
           /\ j.task = "commit" => j.flow \notin unready',
         \A u \in unready' :
           u \in Flows /\ NeedsGate(u) /\ (u \in unready \/ (u.gen = g /\ g # 0)),
         \A u \in unasked' :
           /\ u \in Flows
           /\ \/ u \in unasked /\ (u.gen = g => screens = {} /\ work = {})
              \/ u.gen = g /\ g # 0 /\ work = {} /\ screens = {Shown("confirm", u)}
  PROVE  FlowInv'
<1>1. /\ DOMAIN stack' = 1..Len(stack') /\ Len(stack') \in Nat
      /\ \A i \in DOMAIN stack' : stack'[i] \in Modals
  OBVIOUS
<1>2. jobs' \subseteq JobRecords
  BY FlowTypes DEF Rest
<1>3. generation \in Nat /\ generation' \in Nat /\ generation <= generation' /\ g \in Nat
  BY FlowTypes
<1>4. \A i \in DOMAIN stack : stack[i].flow.gen \in Nat /\ stack[i].flow.gen <= generation
  BY FlowTypes DEF Begun
<1>5. \A j \in jobs : j.flow.gen \in Nat /\ j.flow.gen <= generation
  BY FlowTypes DEF Begun
<1>6. FlowTypeOK'
  BY <1>2, FlowTypes DEF FlowTypeOK, Modals, JobRecords
<1>7. Begun'
  <2>1. ASSUME NEW i \in DOMAIN stack'
        PROVE  stack'[i].flow.gen <= generation' /\ (stack'[i].screen # "other" => stack'[i].flow.gen # 0)
    BY <1>3, <1>4, FlowTypes DEF Rest, Begun
  <2>2. ASSUME NEW j \in jobs'
        PROVE  j.flow.gen <= generation' /\ (j.task # "attach" => j.flow.gen # 0)
    BY <1>3, <1>5, FlowTypes DEF Rest, Begun
  <2>3. ASSUME NEW u \in unasked'  PROVE u.gen # 0 /\ u.gen <= generation'
    <3>1. \A v \in unasked : v.gen \in Nat /\ v.gen # 0 /\ v.gen <= generation
      BY FlowTypes DEF Begun, Flows
    <3> QED
      BY <1>3, <3>1
  <2> QED
    BY <2>1, <2>2, <2>3 DEF Begun
<1>8. Bottoms'
  BY <1>1, FlowTypes DEF Rest, Bottoms, Covering
<1>9. WorkspaceOfCurrentFlow'
  <2> SUFFICES ASSUME NEW i \in DOMAIN stack', stack'[i].screen \in {"workspace", "branch"}
               PROVE  i = 1 /\ stack'[i].flow.gen = generation'
    BY DEF WorkspaceOfCurrentFlow
  <2>1. i = 1
    BY <1>8 DEF Bottoms
  <2>2. CASE stack'[i] \in screens
    BY <2>1, <2>2
  <2>3. CASE stack'[i] \notin screens
    BY <2>1, <2>3, FlowTypes DEF Rest, WorkspaceOfCurrentFlow
  <2> QED
    BY <2>2, <2>3
<1>10. Apart'
  <2>1. ASSUME NEW i \in DOMAIN stack', NEW k \in DOMAIN stack',
               stack'[i].flow.gen = stack'[k].flow.gen, stack'[i].flow.gen # 0
        PROVE  i = k
    BY <2>1, FlowTypes DEF Rest, Apart
  <2>2. ASSUME NEW j \in jobs', NEW k \in jobs', j.flow.gen = k.flow.gen, j.flow.gen # 0
        PROVE  j = k
    BY <2>2, FlowTypes DEF Rest, Apart
  <2>3. ASSUME NEW i \in DOMAIN stack', NEW j \in jobs', stack'[i].flow.gen = j.flow.gen
        PROVE  j.flow.gen = 0
    BY <2>3, FlowTypes DEF Rest, Apart
  <2> QED
    BY <2>1, <2>2, <2>3 DEF Apart
<1>11. Gated'
  <2>1. ASSUME NEW j \in jobs', j.task = "commit"  PROVE j.flow \notin unready'
    <3>1. CASE j \in work
      BY <2>1, <3>1
    <3>2. CASE j \in jobs /\ (g # 0 => j.flow.gen # g)
      BY <2>1, <3>2, FlowTypes DEF Gated
    <3> QED
      BY <3>1, <3>2 DEF Rest
  <2>2. ASSUME NEW u \in unasked', NEW j \in jobs'  PROVE j.flow.gen # u.gen
    <3>1. CASE u \in unasked /\ (u.gen = g => screens = {} /\ work = {})
      BY <3>1, FlowTypes DEF Rest, Gated
    <3>2. CASE u.gen = g /\ g # 0 /\ work = {} /\ screens = {Shown("confirm", u)}
      BY <3>2 DEF Rest
    <3> QED
      BY <3>1, <3>2
  <2>3. ASSUME NEW u \in unasked', NEW i \in DOMAIN stack', stack'[i].flow.gen = u.gen
        PROVE  stack'[i] = Shown("confirm", u)
    <3>1. CASE u \in unasked /\ (u.gen = g => screens = {} /\ work = {})
      BY <2>3, <3>1, FlowTypes DEF Rest, Gated
    <3>2. CASE u.gen = g /\ g # 0 /\ work = {} /\ screens = {Shown("confirm", u)}
      BY <2>3, <3>2 DEF Rest
    <3> QED
      BY <3>1, <3>2
  <2>4. ASSUME NEW i \in DOMAIN stack', stack'[i].screen = "branch"
        PROVE  ~NeedsGate(stack'[i].flow)
    BY <2>4, FlowTypes DEF Rest, Gated
  <2> QED
    BY <2>1, <2>2, <2>3, <2>4 DEF Gated, NeedsGate
<1>12. CwdReadyIsCurrent'
  BY FlowTypes DEF CwdReadyIsCurrent
<1> QED
  BY <1>6, <1>7, <1>8, <1>9, <1>10, <1>11, <1>12 DEF FlowInv


(* The flow on top goes on to a callback, or is over.                         *)
LEMMA TopToWork ==
  ASSUME FlowInv, ~MainOnTop, NEW work \in SUBSET JobRecords,
         stack' = Below, jobs' = jobs \union work, UNCHANGED <<generation, cwd>>,
         \A j, k \in work : j = k,
         \A j \in work :
           /\ j.flow.gen = TopFlow.gen /\ (j.task # "attach" => ~Top("other"))
           /\ j.task = "commit" => j.flow \notin unready',
         \A u \in unready' :
           u \in Flows /\ NeedsGate(u) /\ (u \in unready \/ (u.gen = TopFlow.gen /\ ~Top("other"))),
         unasked' \subseteq unasked,
         work # {} => \A u \in unasked' : u.gen # TopFlow.gen
  PROVE  FlowInv'
<1>1. PICK g : g = TopFlow.gen
  OBVIOUS
<1>2. g \in 0..MaxFlows /\ g <= generation /\ (~Top("other") => g # 0)
  BY <1>1, TopLeaves
<1>3. stack' \in Seq(Modals) /\ Rest(g, {}, work)
  BY <1>1, TopRest
<1>4. PICK none \in SUBSET Modals : none = {}
  OBVIOUS
<1>5. \A u \in unasked' : u \in Flows
  BY FlowTypes
<1>6. generation' \in 0..MaxFlows /\ g <= generation'
  BY <1>2, FlowTypes
<1> QED
  BY <1>1, <1>2, <1>3, <1>4, <1>5, <1>6, FlowMoves

(* The flow on top asks its next question.                                    *)
LEMMA TopToModal ==
  ASSUME FlowInv, ~MainOnTop, ~Top("other"), ~Top("confirm"), NEW m \in Modals,
         stack' = Append(Below, m), jobs' = jobs,
         UNCHANGED <<generation, unready, unasked, cwd>>,
         m.flow.gen = TopFlow.gen, m.screen # "confirm",
         m.screen \notin Covering => Len(stack) = 1,
         m.screen \in {"workspace", "branch"} => TopFlow.gen = generation,
         m.screen = "branch" => ~NeedsGate(m.flow)
  PROVE  FlowInv'
<1>1. PICK g : g = TopFlow.gen
  OBVIOUS
<1>2. g \in 0..MaxFlows /\ g <= generation /\ g # 0 /\ \A u \in unasked : u.gen # g
  BY <1>1, TopLeaves
<1>3. stack' \in Seq(Modals) /\ Len(stack') = Len(stack) /\ Rest(g, {m}, {})
  BY <1>1, TopRest
<1>4. PICK one \in SUBSET Modals, none \in SUBSET JobRecords : one = {m} /\ none = {}
  OBVIOUS
<1>5. generation' \in 0..MaxFlows /\ g <= generation'
  BY <1>2, FlowTypes
<1>6. \A u \in unready' : u \in Flows /\ NeedsGate(u) /\ u \in unready
  BY FlowTypes DEF Gated
<1>7. \A u \in unasked' : u \in Flows /\ u \in unasked /\ u.gen # g
  BY <1>2, FlowTypes
<1> QED
  BY <1>1, <1>2, <1>3, <1>4, <1>5, <1>6, <1>7, FlowMoves

(* A callback is done and starts another, or its flow is over.                *)
LEMMA JobToWork ==
  ASSUME FlowInv, NEW j \in jobs, NEW work \in SUBSET JobRecords,
         stack' = stack, jobs' = (jobs \ {j}) \union work, UNCHANGED <<generation, cwd>>,
         \A k, l \in work : k = l,
         \A k \in work :
           /\ k.flow.gen = j.flow.gen /\ (k.task # "attach" => j.task # "attach")
           /\ k.task = "commit" => k.flow \notin unready',
         \A u \in unready' :
           u \in Flows /\ NeedsGate(u) /\ (u \in unready \/ (u.gen = j.flow.gen /\ j.task # "attach")),
         unasked' = unasked
  PROVE  FlowInv'
<1>1. PICK g : g = j.flow.gen
  OBVIOUS
<1>2. /\ g \in 0..MaxFlows /\ g <= generation /\ (j.task # "attach" => g # 0)
      /\ \A u \in unasked : u.gen # g
  BY <1>1, JobLeaves
<1>3. stack' \in Seq(Modals) /\ Rest(g, {}, work)
  BY <1>1, JobRest
<1>4. PICK none \in SUBSET Modals : none = {}
  OBVIOUS
<1>5. \A u \in unasked' : u \in Flows /\ u \in unasked /\ u.gen # g
  BY <1>2, FlowTypes
<1>6. generation' \in 0..MaxFlows /\ g <= generation'
  BY <1>2, FlowTypes
<1> QED
  BY <1>1, <1>2, <1>3, <1>4, <1>5, <1>6, FlowMoves

(* A callback is done and shows a modal; a prompt makes its flow unasked.      *)
LEMMA JobToModal ==
  ASSUME FlowInv, NEW j \in jobs, NEW m \in Modals, j.task # "attach",
         stack' = Append(stack, m), jobs' = jobs \ {j}, UNCHANGED <<generation, unready, cwd>>,
         m.flow.gen = j.flow.gen,
         m.screen \notin Covering => MainOnTop,
         m.screen = "workspace" => j.flow.gen = generation, m.screen # "branch",
         \/ unasked' = unasked
         \/ m = Shown("confirm", j.flow) /\ unasked' = unasked \union {j.flow}
  PROVE  FlowInv'
<1>1. PICK g : g = j.flow.gen
  OBVIOUS
<1>2. /\ g \in 0..MaxFlows /\ g <= generation /\ g # 0 /\ j.flow \in Flows
      /\ \A u \in unasked : u.gen # g
  BY <1>1, JobLeaves
<1>3. stack' \in Seq(Modals) /\ Len(stack') = Len(stack) + 1 /\ Rest(g, {m}, {})
  BY <1>1, JobRest
<1>4. PICK one \in SUBSET Modals, none \in SUBSET JobRecords : one = {m} /\ none = {}
  OBVIOUS
<1>5. generation' \in 0..MaxFlows /\ g <= generation'
  BY <1>2, FlowTypes
<1>6. \A u \in unready' : u \in Flows /\ NeedsGate(u) /\ u \in unready
  BY FlowTypes DEF Gated
<1>7. \A u \in unasked' :
        /\ u \in Flows
        /\ \/ u \in unasked /\ u.gen # g
           \/ u.gen = g /\ one = {Shown("confirm", u)}
  BY <1>1, <1>2, <1>4, FlowTypes
<1>8. MainOnTop => Len(stack') = 1
  BY <1>3 DEF MainOnTop
<1> QED
  BY <1>1, <1>2, <1>3, <1>4, <1>5, <1>6, <1>7, <1>8, FlowMoves

(* A flow begins, above the main screen or in place of the last question.      *)
LEMMA NewFlow ==
  ASSUME FlowInv, NEW m \in Modals, generation < MaxFlows,
         generation' = generation + 1, stack' = <<m>>,
         UNCHANGED <<jobs, unready, unasked, cwd>>,
         m.flow.gen = generation + 1, m.screen \notin {"workspace", "branch", "other"}
  PROVE  FlowInv'
<1>1. PICK g : g = generation + 1
  OBVIOUS
<1>2. g \in 0..MaxFlows /\ g # 0 /\ generation' \in 0..MaxFlows /\ g <= generation'
  BY <1>1, FlowTypes
<1>3. /\ \A j \in jobs : j.flow.gen # g
      /\ \A u \in unasked : u.gen # g
  BY <1>1, FlowTypes DEF Begun, Flows
<1>4. PICK one \in SUBSET Modals, none \in SUBSET JobRecords : one = {m} /\ none = {}
  OBVIOUS
<1>5. stack' \in Seq(Modals) /\ Len(stack') = 1 /\ DOMAIN stack' = {1} /\ stack'[1] = m
  OBVIOUS
<1>6. Rest(g, one, none)
  BY <1>3, <1>4, <1>5 DEF Rest
<1>7. \A u \in unready' : u \in Flows /\ NeedsGate(u) /\ u \in unready
  BY FlowTypes DEF Gated
<1>8. \A u \in unasked' : u \in Flows /\ u \in unasked /\ u.gen # g
  BY <1>3, FlowTypes
<1> QED
  BY <1>1, <1>2, <1>4, <1>5, <1>6, <1>7, <1>8, FlowMoves


-----------------------------------------------------------------------------
(* The steps.                                                               *)

(* What is done from the main screen.                                        *)
LEMMA MainScreenSteps ==
  ASSUME FlowInv, LaunchCwd \/ LaunchNew \/ LaunchExisting \/ AttachRow \/ OpenOther
  PROVE  FlowInv'
<1>1. /\ MaxFlows \in Nat /\ generation \in 0..MaxFlows /\ stack \in Seq(Modals)
      /\ \A u \in unasked : u \in Flows /\ u.gen # 0
      /\ \A u \in unready : u \in Flows /\ NeedsGate(u)
  BY FlowTypes DEF Begun, Gated
<1>2. ASSUME NEW x \in {"options", "name", "project"}, NEW row \in {"cwd", "new", "existing"},
             Begin(x, row)
      PROVE  FlowInv'
  <2>1. /\ generation < MaxFlows /\ generation' = generation + 1
        /\ stack' = <<Shown(x, [gen |-> generation + 1, row |-> row, place |-> "unknown"])>>
        /\ UNCHANGED <<jobs, unready, unasked, cwd>>
    BY <1>2 DEF Begin, cwdVars
  <2>2. PICK f \in Flows : f = [gen |-> generation + 1, row |-> row, place |-> "unknown"]
    <3>1. generation + 1 \in 0..MaxFlows
      BY <1>1, <2>1
    <3>2. [gen |-> generation + 1, row |-> row, place |-> "unknown"] \in Flows
      BY <3>1 DEF Flows
    <3> QED
      BY <3>2
  <2>3. PICK m \in Modals : m = Shown(x, f) /\ m.screen = x /\ m.flow = f
    BY NewPlaces DEF Screens
  <2>4. f.gen = generation + 1
    BY <2>2
  <2> QED
    BY <2>1, <2>2, <2>3, <2>4, NewFlow
<1>3. NoFlow \in Flows /\ NoFlow.gen = 0
  BY <1>1 DEF NoFlow, Flows
<1>4. CASE AttachRow
  <2>1. /\ stack = <<>> /\ stack' = stack /\ jobs' = jobs \union {Job("attach", NoFlow)}
        /\ UNCHANGED <<generation, unready, unasked, cwd>>
    BY <1>4 DEF AttachRow, Becomes, MainOnTop, cwdVars
  <2>0. Job("attach", NoFlow) \in JobRecords /\ 0 \in 0..MaxFlows
    BY <1>1, <1>3, NewPlaces DEF Tasks
  <2>2. PICK work \in SUBSET JobRecords, none \in SUBSET Modals, g \in 0..MaxFlows :
          work = {Job("attach", NoFlow)} /\ none = {} /\ g = 0
    <3>1. {Job("attach", NoFlow)} \in SUBSET JobRecords /\ {} \in SUBSET Modals
      BY <2>0
    <3> QED
      BY <2>0, <3>1
  <2>3. Rest(g, none, work)
    BY <2>1, <2>2 DEF Rest
  <2>4. \A j \in work : j.flow.gen = g /\ j.task = "attach"
    BY <1>3, <2>2, NewPlaces DEF Tasks
  <2> QED
    BY <1>1, <2>1, <2>2, <2>3, <2>4, FlowMoves
<1>5. CASE OpenOther
  <2>1. /\ stack' = <<Shown("other", NoFlow)>> /\ jobs' = jobs
        /\ UNCHANGED <<generation, unready, unasked, cwd>>
    BY <1>5 DEF OpenOther, Becomes, cwdVars
  <2>2. PICK m \in Modals : m = Shown("other", NoFlow) /\ m.screen = "other" /\ m.flow = NoFlow
    BY <1>3, NewPlaces DEF Screens
  <2>3. PICK one \in SUBSET Modals, none \in SUBSET JobRecords, g \in 0..MaxFlows :
          one = {m} /\ none = {} /\ g = 0
    <3>1. {m} \in SUBSET Modals /\ {} \in SUBSET JobRecords /\ 0 \in 0..MaxFlows
      BY <1>1
    <3> QED
      BY <3>1
  <2>4. stack' \in Seq(Modals) /\ Len(stack') = 1 /\ DOMAIN stack' = {1} /\ stack'[1] = m
    BY <2>1, <2>2
  <2>5. Rest(g, one, none)
    BY <2>1, <2>3, <2>4 DEF Rest
  <2> QED
    BY <1>1, <1>3, <2>1, <2>2, <2>3, <2>4, <2>5, FlowMoves
<1> QED
  BY <1>2, <1>4, <1>5 DEF LaunchCwd, LaunchNew, LaunchExisting

(* What is answered on a modal.                                              *)
LEMMA ModalSteps ==
  ASSUME FlowInv,
         \/ Dismiss \/ EnterName \/ PickProject \/ PickOptions \/ PickGitProfile
         \/ PickWorkspace \/ EnterBranch \/ PickSession \/ Consent
  PROVE  FlowInv'
<1>1. /\ ~MainOnTop /\ UNCHANGED cwd
      /\ \A u \in unready : u \in Flows /\ NeedsGate(u)
  BY FlowTypes
     DEF Dismiss, EnterName, PickProject, PickOptions, PickGitProfile, PickWorkspace, EnterBranch,
         PickSession, Consent, Top, Becomes, MainOnTop, cwdVars, Gated
<1>2. PICK f \in Flows : f = TopFlow
  BY <1>1, TopLeaves
<1>3. \A x, y : Top(x) /\ Top(y) => x = y
  BY DEF Top
<1>4. ASSUME stack' = Below, jobs' = jobs, UNCHANGED <<generation, unready, unasked>>
      PROVE  FlowInv'
  <2>1. PICK work \in SUBSET JobRecords : work = {}
    OBVIOUS
  <2> QED
    BY <1>1, <1>4, <2>1, TopToWork
<1>5. ASSUME NEW n \in JobRecords, stack' = Below, jobs' = jobs \union {n},
             ~Top("confirm"), ~Top("other"), n.flow.gen = f.gen,
             n.task = "commit" => n.flow \notin unready',
             unready' = unready \/ (unready' = unready \union {f} /\ NeedsGate(f)),
             UNCHANGED <<generation, unasked>>
      PROVE  FlowInv'
  <2>1. PICK work \in SUBSET JobRecords : work = {n}
    OBVIOUS
  <2>2. \A u \in unasked' : u.gen # TopFlow.gen
    BY <1>1, <1>5, TopLeaves
  <2>3. \A u \in unready' :
          u \in Flows /\ NeedsGate(u) /\ (u \in unready \/ u.gen = TopFlow.gen)
    BY <1>1, <1>2, <1>5
  <2> QED
    BY <1>1, <1>2, <1>5, <2>1, <2>2, <2>3, TopToWork
<1>6. CASE Dismiss
  BY <1>4, <1>6 DEF Dismiss, Becomes
<1>7. CASE EnterName
  <2>1. /\ Top("name") /\ stack' = Append(Below, Shown("options", f)) /\ jobs' = jobs
        /\ UNCHANGED <<generation, unready, unasked, cwd>>
    BY <1>2, <1>7 DEF EnterName, Becomes, cwdVars
  <2>2. ~Top("other") /\ ~Top("confirm") /\ Len(stack) = 1
    BY <1>1, <1>3, <2>1, TopLeaves
  <2>3. PICK m \in Modals : m = Shown("options", f) /\ m.screen = "options" /\ m.flow = f
    BY NewPlaces DEF Screens
  <2> QED
    BY <1>1, <1>2, <2>1, <2>2, <2>3, TopToModal
<1>8. CASE PickProject
  <2>1. /\ Top("project") /\ generation < MaxFlows /\ generation' = generation + 1
        /\ stack' = Append(Below, Shown("options", [f EXCEPT !.gen = generation + 1]))
        /\ UNCHANGED <<jobs, unready, unasked, cwd>>
    BY <1>2, <1>8 DEF PickProject, cwdVars
  <2>2. Len(stack) = 1
    BY <1>1, <1>3, <2>1, TopLeaves
  <2>3. generation + 1 \in 0..MaxFlows
    BY <2>1, FlowTypes
  <2>4. PICK x \in Flows : x = [f EXCEPT !.gen = generation + 1] /\ x.gen = generation + 1
    <3>1. /\ [f EXCEPT !.gen = generation + 1] \in Flows
          /\ [f EXCEPT !.gen = generation + 1].gen = generation + 1
      BY <2>3, FlowFields
    <3> QED
      BY <3>1
  <2>5. PICK m \in Modals : m = Shown("options", x) /\ m.screen = "options" /\ m.flow = x
    BY NewPlaces DEF Screens
  <2>6. Below = <<>>
    BY <2>2, FlowTypes DEF Below
  <2>7. stack' = <<m>>
    BY <2>1, <2>4, <2>5, <2>6
  <2> QED
    BY <2>1, <2>4, <2>5, <2>7, NewFlow
<1>9. CASE PickOptions
  <2>1. /\ Top("options") /\ stack' = Below /\ UNCHANGED <<generation, unready, unasked>>
        /\ \/ jobs' = jobs
           \/ jobs' = jobs \union {IF f.row # "new" THEN Job("worktrees", f)
                                   ELSE Job(IF GitCreateEnabled THEN "git_options" ELSE "sessions",
                                            [f EXCEPT !.place = "project"])}
    BY <1>2, <1>9 DEF PickOptions, Becomes
  <2>2. PICK x \in Flows : x = [f EXCEPT !.place = "project"] /\ x.gen = f.gen
    BY FlowFields
  <2>3. PICK n \in JobRecords :
          /\ n = IF f.row # "new" THEN Job("worktrees", f)
                 ELSE Job(IF GitCreateEnabled THEN "git_options" ELSE "sessions", x)
          /\ n.flow.gen = f.gen /\ n.task # "commit"
    <3>1. CASE f.row # "new"
      BY <3>1, NewPlaces DEF Tasks
    <3>2. CASE f.row = "new"
      <4>1. /\ Job("git_options", x) \in JobRecords /\ Job("sessions", x) \in JobRecords
            /\ Job("git_options", x).flow = x /\ Job("git_options", x).task = "git_options"
            /\ Job("sessions", x).flow = x /\ Job("sessions", x).task = "sessions"
        BY NewPlaces DEF Tasks
      <4>2. CASE GitCreateEnabled
        BY <2>2, <3>2, <4>1, <4>2
      <4>3. CASE ~GitCreateEnabled
        BY <2>2, <3>2, <4>1, <4>3
      <4> QED
        BY <4>2, <4>3
    <3> QED
      BY <3>1, <3>2
  <2> QED
    BY <1>3, <1>4, <1>5, <2>1, <2>2, <2>3
<1>10. CASE PickGitProfile
  <2>1. PICK n \in JobRecords : n = Job("sessions", f) /\ n.flow = f /\ n.task = "sessions"
    BY NewPlaces DEF Tasks
  <2> QED
    BY <1>2, <1>3, <1>5, <1>10, <2>1 DEF PickGitProfile, Becomes
<1>11. CASE PickWorkspace
  <2>1. Top("workspace") /\ UNCHANGED <<generation, unready, unasked, cwd>>
    BY <1>11 DEF PickWorkspace, Becomes, cwdVars
  <2>2. ~Top("other") /\ ~Top("confirm") /\ Len(stack) = 1 /\ f.gen = generation
    BY <1>1, <1>2, <1>3, <2>1, TopLeaves
  <2>3. CASE stack' = Below /\ jobs' = jobs
    BY <1>4, <2>1, <2>3
  <2>4. ASSUME NEW place \in {"folder", "worktree"}, stack' = Below,
               jobs' = jobs \union {Job("sessions", [f EXCEPT !.place = place])}
        PROVE  FlowInv'
    <3>1. PICK x \in Flows : x = [f EXCEPT !.place = place] /\ x.gen = f.gen
      BY FlowFields
    <3>2. PICK n \in JobRecords : n = Job("sessions", x) /\ n.flow = x /\ n.task = "sessions"
      BY NewPlaces DEF Tasks
    <3> QED
      BY <1>5, <2>1, <2>2, <2>4, <3>1, <3>2
  <2>5. CASE stack' = Append(Below, Shown("branch", [f EXCEPT !.place = "branch"])) /\ jobs' = jobs
    <3>1. PICK x \in Flows : x = [f EXCEPT !.place = "branch"] /\ x.gen = f.gen
      BY FlowFields
    <3>2. PICK m \in Modals : m = Shown("branch", x) /\ m.screen = "branch" /\ m.flow = x
      BY NewPlaces DEF Screens
    <3>3. ~NeedsGate(x)
      BY <3>1, FlowFields DEF NeedsGate
    <3> QED
      BY <1>1, <1>2, <2>1, <2>2, <2>5, <3>1, <3>2, <3>3, TopToModal
  <2> QED
    BY <1>2, <1>11, <2>3, <2>4, <2>5 DEF PickWorkspace, Becomes
<1>12. CASE EnterBranch
  <2>1. /\ Top("branch") /\ stack' = Below /\ jobs' = jobs \union {Job("commit", f)}
        /\ UNCHANGED <<generation, unready, unasked>>
    BY <1>2, <1>12 DEF EnterBranch, Becomes
  <2>2. f \notin unready
    BY <1>1, <1>2, <2>1, TopLeaves
  <2>3. PICK n \in JobRecords : n = Job("commit", f) /\ n.flow = f
    BY NewPlaces DEF Tasks
  <2> QED
    BY <1>3, <1>5, <2>1, <2>2, <2>3
<1>13. CASE PickSession
  <2>1. Top("choice") /\ stack' = Below /\ UNCHANGED <<generation, unasked>>
    BY <1>13 DEF PickSession, Becomes
  <2>2. CASE jobs' = jobs \union {Job("attach", f)} /\ unready' = unready
    <3>1. PICK n \in JobRecords : n = Job("attach", f) /\ n.flow = f /\ n.task = "attach"
      BY NewPlaces DEF Tasks
    <3> QED
      BY <1>3, <1>5, <2>1, <2>2, <3>1
  <2>3. CASE /\ jobs' = jobs \union {OnNew(f)}
             /\ unready' = IF NeedsGate(f) THEN unready \union {f} ELSE unready
    <3>1. PICK n \in JobRecords :
            /\ n = OnNew(f) /\ n.flow = f
            /\ n.task = IF NeedsGate(f) THEN "gate" ELSE "commit"
      BY NewPlaces DEF Tasks, OnNew
    <3>2. n.task = "commit" => n.flow \notin unready'
      BY <1>1, <2>3, <3>1
    <3> QED
      BY <1>3, <1>5, <2>1, <2>3, <3>1, <3>2
  <2> QED
    BY <1>2, <1>13, <2>2, <2>3 DEF PickSession, Becomes
<1>14. CASE Consent
  <2>1. /\ Top("confirm") /\ stack' = Below /\ jobs' = jobs \union {Job("prepare", f)}
        /\ unasked' = unasked \ {f} /\ UNCHANGED <<generation, unready>>
    BY <1>2, <1>14 DEF Consent
  <2>2. PICK n \in JobRecords : n = Job("prepare", f) /\ n.flow = f /\ n.task = "prepare"
    BY NewPlaces DEF Tasks
  <2>3. PICK work \in SUBSET JobRecords : work = {n}
    OBVIOUS
  <2>4. \A u \in unasked' : u.gen # TopFlow.gen
    BY <1>1, <1>2, <2>1, TopLeaves
  <2>5. ~Top("other")
    BY <1>3, <2>1
  <2> QED
    BY <1>1, <1>2, <2>1, <2>2, <2>3, <2>4, <2>5, TopToWork
<1> QED
  BY <1>6, <1>7, <1>8, <1>9, <1>10, <1>11, <1>12, <1>13, <1>14

(* What comes of the callbacks.                                              *)
LEMMA CallbackSteps ==
  ASSUME FlowInv,
         \/ CallbackFails \/ WorktreesProbed \/ GitOptionsProbed \/ SessionsProbed
         \/ GateProbed \/ RuntimePrepared
  PROVE  FlowInv'
<1>1. /\ UNCHANGED <<generation, cwd>>
      /\ \A u \in unready : u \in Flows /\ NeedsGate(u)
  BY FlowTypes
     DEF CallbackFails, WorktreesProbed, GitOptionsProbed, SessionsProbed, GateProbed,
         RuntimePrepared, Becomes, cwdVars, Gated
<1>2. ASSUME NEW j \in jobs, stack' = stack, jobs' = jobs \ {j}, unready' \subseteq unready,
             UNCHANGED unasked
      PROVE  FlowInv'
  <2>1. PICK work \in SUBSET JobRecords : work = {}
    OBVIOUS
  <2> QED
    BY <1>1, <1>2, <2>1, JobToWork
<1>3. ASSUME NEW j \in jobs, NEW n \in JobRecords, stack' = stack,
             jobs' = (jobs \ {j}) \union {n}, n.flow.gen = j.flow.gen, j.task # "attach",
             n.task = "commit" => n.flow \notin unready',
             \/ unready' \subseteq unready
             \/ unready' = unready \union {j.flow} /\ NeedsGate(j.flow),
             UNCHANGED unasked
      PROVE  FlowInv'
  <2>1. PICK work \in SUBSET JobRecords : work = {n}
    OBVIOUS
  <2>2. \A u \in unready' :
          u \in Flows /\ NeedsGate(u) /\ (u \in unready \/ u.gen = j.flow.gen)
    BY <1>1, <1>3, JobLeaves
  <2> QED
    BY <1>1, <1>3, <2>1, <2>2, JobToWork
<1>4. ASSUME NEW j \in jobs, NEW x \in {"git", "choice", "confirm"},
             stack' = Append(stack, Shown(x, j.flow)), jobs' = jobs \ {j},
             j.task # "attach", UNCHANGED unready,
             \/ UNCHANGED unasked
             \/ x = "confirm" /\ unasked' = unasked \union {j.flow}
      PROVE  FlowInv'
  <2>1. PICK m \in Modals : m = Shown(x, j.flow) /\ m.screen = x /\ m.flow = j.flow
    BY JobLeaves, NewPlaces DEF Screens
  <2> QED
    BY <1>1, <1>4, <2>1, JobToModal DEF Covering
<1>5. CASE CallbackFails
  BY <1>2, <1>5 DEF CallbackFails, Becomes
<1>6. CASE WorktreesProbed
  <2>1. PICK j \in jobs :
          /\ j.task = "worktrees" /\ UNCHANGED <<unready, unasked>>
          /\ \/ stack' = stack /\ jobs' = jobs \ {j}
             \/ /\ ~Superseded(j.flow)
                /\ stack' = Append(stack, Shown("workspace", j.flow)) /\ jobs' = jobs \ {j}
             \/ /\ stack' = stack
                /\ jobs' = (jobs \ {j}) \union {Job("sessions", [j.flow EXCEPT !.place = "folder"])}
    BY <1>6 DEF WorktreesProbed, Ends, Becomes
  <2>2. CASE stack' = stack /\ jobs' = jobs \ {j}
    BY <1>2, <2>1, <2>2
  <2>3. CASE /\ ~Superseded(j.flow)
             /\ stack' = Append(stack, Shown("workspace", j.flow)) /\ jobs' = jobs \ {j}
    <3>1. PICK m \in Modals : m = Shown("workspace", j.flow) /\ m.screen = "workspace" /\ m.flow = j.flow
      BY JobLeaves, NewPlaces DEF Screens
    <3>2. MainOnTop /\ j.flow.gen = generation
      BY <2>3 DEF Superseded
    <3> QED
      BY <1>1, <2>1, <2>3, <3>1, <3>2, JobToModal
  <2>4. CASE /\ stack' = stack
             /\ jobs' = (jobs \ {j}) \union {Job("sessions", [j.flow EXCEPT !.place = "folder"])}
    <3>1. PICK f \in Flows : f = j.flow
      BY JobLeaves
    <3>2. PICK x \in Flows : x = [f EXCEPT !.place = "folder"] /\ x.gen = f.gen
      BY FlowFields
    <3>3. PICK n \in JobRecords : n = Job("sessions", x) /\ n.flow = x /\ n.task = "sessions"
      BY NewPlaces DEF Tasks
    <3> QED
      BY <1>3, <2>1, <2>4, <3>1, <3>2, <3>3
  <2> QED
    BY <2>1, <2>2, <2>3, <2>4
<1>7. CASE GitOptionsProbed
  <2>1. PICK j \in jobs :
          /\ j.task = "git_options" /\ UNCHANGED <<unready, unasked>>
          /\ \/ stack' = Append(stack, Shown("git", j.flow)) /\ jobs' = jobs \ {j}
             \/ stack' = stack /\ jobs' = (jobs \ {j}) \union {Job("sessions", j.flow)}
    BY <1>7 DEF GitOptionsProbed, Ends, Becomes
  <2>2. PICK n \in JobRecords : n = Job("sessions", j.flow) /\ n.flow = j.flow /\ n.task = "sessions"
    BY JobLeaves, NewPlaces DEF Tasks
  <2> QED
    BY <1>3, <1>4, <2>1, <2>2
<1>8. CASE SessionsProbed
  <2>1. PICK j \in jobs :
          /\ j.task = "sessions" /\ UNCHANGED unasked
          /\ \/ stack' = Append(stack, Shown("choice", j.flow)) /\ jobs' = jobs \ {j} /\ unready' = unready
             \/ /\ stack' = stack /\ jobs' = (jobs \ {j}) \union {OnNew(j.flow)}
                /\ unready' = IF NeedsGate(j.flow) THEN unready \union {j.flow} ELSE unready
    BY <1>8 DEF SessionsProbed, Ends, Becomes
  <2>2. PICK n \in JobRecords :
          /\ n = OnNew(j.flow) /\ n.flow = j.flow
          /\ n.task = IF NeedsGate(j.flow) THEN "gate" ELSE "commit"
    BY JobLeaves, NewPlaces DEF Tasks, OnNew
  <2>3. CASE stack' = stack
    <3>1. n.task = "commit" => n.flow \notin unready /\ ~NeedsGate(j.flow)
      BY <1>1, <2>2
    <3>2. jobs' = (jobs \ {j}) \union {n} \/ jobs' = jobs \ {j}
      BY <2>1, <2>2
    <3> QED
      BY <1>2, <1>3, <2>1, <2>2, <2>3, <3>1, <3>2
  <2> QED
    BY <1>4, <2>1, <2>3
<1>9. CASE GateProbed
  <2>1. PICK j \in jobs, answer \in GateAnswers :
          /\ j.task = "gate"
          /\ stack' = AfterGate(answer, j.flow).screens
          /\ jobs' = (jobs \ {j}) \union AfterGate(answer, j.flow).work
          /\ unready' = IF answer = "ready" THEN unready \ {j.flow} ELSE unready
          /\ unasked' = IF answer = "prompt" THEN unasked \union {j.flow} ELSE unasked
    BY <1>9 DEF GateProbed, Ends
  <2>5. /\ AfterGate(answer, j.flow).screens =
             IF answer = "prompt" THEN Append(stack, Shown("confirm", j.flow)) ELSE stack
        /\ AfterGate(answer, j.flow).work =
             IF answer = "ready" THEN {Job("commit", j.flow)}
             ELSE IF answer = "automatic" THEN {Job("prepare", j.flow)} ELSE {}
    BY DEF AfterGate
  <2>2. CASE answer = "prompt"
    BY <1>4, <2>1, <2>2, <2>5
  <2>3. CASE answer \in {"ready", "automatic"}
    <3>1. PICK n \in JobRecords :
            /\ n = Job(IF answer = "ready" THEN "commit" ELSE "prepare", j.flow)
            /\ n.flow = j.flow /\ n.task = IF answer = "ready" THEN "commit" ELSE "prepare"
      BY JobLeaves, NewPlaces DEF Tasks
    <3> QED
      BY <1>3, <2>1, <2>3, <2>5, <3>1
  <2>4. CASE answer = "outside_policy"
    BY <1>2, <2>1, <2>4, <2>5
  <2> QED
    BY <2>2, <2>3, <2>4 DEF GateAnswers
<1>10. CASE RuntimePrepared
  <2>1. PICK j \in jobs :
          /\ j.task = "prepare" /\ jobs' = (jobs \ {j}) \union {Job("commit", j.flow)}
          /\ unready' = unready \ {j.flow} /\ UNCHANGED <<stack, unasked>>
    BY <1>10 DEF RuntimePrepared, Ends
  <2>2. PICK n \in JobRecords : n = Job("commit", j.flow) /\ n.flow = j.flow
    BY JobLeaves, NewPlaces DEF Tasks
  <2> QED
    BY <1>3, <2>1, <2>2
<1> QED
  BY <1>5, <1>6, <1>7, <1>8, <1>9, <1>10

(* A launch is requested, and the modals go; or the request comes too late.   *)
LEMMA PlannedStep ==
  ASSUME FlowInv, Planned
  PROVE  FlowInv'
<1>1. PICK j \in jobs :
        /\ jobs' = jobs \ {j} /\ (stack' = stack \/ stack' = <<>>)
        /\ UNCHANGED <<generation, unready, unasked, cwd>>
  BY DEF Planned, Ends, cwdVars
<1>2. PICK g : g = j.flow.gen
  OBVIOUS
<1>3. /\ g \in 0..MaxFlows /\ g <= generation
      /\ \A u \in unasked : u.gen # g
  BY <1>2, JobLeaves
<1>4. PICK none \in SUBSET Modals, nothing \in SUBSET JobRecords : none = {} /\ nothing = {}
  OBVIOUS
<1>5. stack' \in Seq(Modals) /\ Rest(g, none, nothing)
  <2>1. CASE stack' = stack
    BY <1>1, <1>2, <1>4, <2>1, JobRest
  <2>2. CASE stack' = <<>>
    <3>1. \A k \in jobs' : k \in jobs /\ (g # 0 => k.flow.gen # g)
      BY <1>1, <1>2, JobLeaves
    <3> QED
      BY <2>2, <3>1 DEF Rest
  <2> QED
    BY <1>1, <2>1, <2>2
<1>6. generation' \in 0..MaxFlows /\ g <= generation'
  BY <1>1, <1>3, FlowTypes
<1>7. \A u \in unready' : u \in Flows /\ NeedsGate(u) /\ u \in unready
  BY <1>1, FlowTypes DEF Gated
<1>8. \A u \in unasked' : u \in Flows /\ u \in unasked /\ u.gen # g
  BY <1>1, <1>3, FlowTypes
<1> QED
  BY <1>1, <1>3, <1>4, <1>5, <1>6, <1>7, <1>8, FlowMoves

(* The probes of the directory, of which only the last decides.               *)
LEMMA CwdSteps ==
  ASSUME FlowInv, CwdStep
  PROVE  FlowInv'
<1>1. UNCHANGED flowVars
  BY DEF CwdStep, KickCwd, ProbeAnswers, CwdUpdated
<1>2. cwd \in [generation : Nat, ready : BOOLEAN, of : Nat] /\ CwdReadyIsCurrent
  BY FlowTypes
<1>3. cwd' \in [generation : Nat, ready : BOOLEAN, of : Nat] /\ CwdReadyIsCurrent'
  <2>1. CASE KickCwd
    <3>1. PICK n \in Nat : n = cwd.generation + 1
      BY <1>2
    <3>2. cwd' = [generation |-> n, ready |-> FALSE, of |-> 0]
      BY <2>1, <3>1 DEF KickCwd, Blank
    <3> QED
      BY <3>2 DEF CwdReadyIsCurrent
  <2>2. CASE ProbeAnswers
    BY <1>2, <2>2 DEF ProbeAnswers, CwdReadyIsCurrent
  <2>3. CASE CwdUpdated
    <3>1. PICK p \in probes :
            cwd' = IF Current(p)
                   THEN [cwd EXCEPT !.ready = (p.found = "yes"), !.of = p.generation] ELSE cwd
      BY <2>3 DEF CwdUpdated
    <3>2. CASE Current(p)
      <4>1. p.generation = cwd.generation
        BY <3>2 DEF Current
      <4>2. PICK yes \in BOOLEAN : yes = (p.found = "yes")
        OBVIOUS
      <4>3. cwd' = [cwd EXCEPT !.ready = yes, !.of = cwd.generation]
        BY <3>1, <3>2, <4>1, <4>2
      <4> QED
        BY <1>2, <4>3 DEF CwdReadyIsCurrent
    <3>3. CASE ~Current(p)
      BY <1>2, <3>1, <3>3 DEF CwdReadyIsCurrent
    <3> QED
      BY <3>2, <3>3
  <2> QED
    BY <2>1, <2>2, <2>3 DEF CwdStep
<1>4. /\ FlowTypeOK' /\ Begun' /\ Bottoms' /\ Apart' /\ Gated' /\ WorkspaceOfCurrentFlow'
  BY <1>1, <1>3, FlowTypes
     DEF flowVars, FlowTypeOK, Begun, Bottoms, Apart, Gated, WorkspaceOfCurrentFlow
<1> QED
  BY <1>3, <1>4 DEF FlowInv

(* Where no flow is.                                                         *)
LEMMA FlowInvInit == FlowInit => FlowInv
<1> SUFFICES ASSUME FlowInit  PROVE FlowInv
  OBVIOUS
<1>1. /\ generation = 0 /\ stack = <<>> /\ jobs = {} /\ unready = {} /\ unasked = {}
      /\ cwd = [generation |-> 0, ready |-> FALSE, of |-> 0]
  BY DEF FlowInit, Blank
<1>2. FlowTypeOK
  BY <1>1, FlowAssumption DEF FlowTypeOK
<1>3. DOMAIN stack = {}
  BY <1>1
<1> QED
  BY <1>1, <1>2, <1>3
     DEF FlowInv, Begun, Bottoms, Apart, Gated, WorkspaceOfCurrentFlow, CwdReadyIsCurrent

(* A new app instance begins with no flow either.                             *)
LEMMA ReopenStep ==
  ASSUME Reopen
  PROVE  FlowInv'
<1>1. /\ generation' = 0 /\ stack' = <<>> /\ jobs' = {} /\ unready' = {} /\ unasked' = {}
      /\ cwd' = [generation |-> 0, ready |-> FALSE, of |-> 0]
  BY DEF Reopen, NewInstance, Blank
<1>2. FlowTypeOK'
  BY <1>1, FlowAssumption DEF FlowTypeOK
<1>3. DOMAIN stack' = {}
  BY <1>1
<1> QED
  BY <1>1, <1>2, <1>3
     DEF FlowInv, Begun, Bottoms, Apart, Gated, WorkspaceOfCurrentFlow, CwdReadyIsCurrent

(* Every step keeps the invariant.                                           *)
LEMMA FlowInvStep == FlowInv /\ [FlowNext]_vars => FlowInv'
<1> SUFFICES ASSUME FlowInv, [FlowNext]_vars  PROVE FlowInv'
  OBVIOUS
<1>1. ASSUME UNCHANGED <<flowVars, cwd>>  PROVE FlowInv'
  BY <1>1
     DEF flowVars, FlowInv, FlowTypeOK, Begun, Bottoms, Apart, Gated, WorkspaceOfCurrentFlow,
         CwdReadyIsCurrent
<1>2. CASE Quit \/ TerminalGone \/ Unmount \/ LaunchEnds \/ EnterPressed \/ UNCHANGED vars
  BY <1>1, <1>2
     DEF Quit, TerminalGone, Unmount, LaunchEnds, EnterPressed, vars, flowVars, cwdVars
<1>3. CASE UserStep /\ ~Quit /\ ~EnterPressed
  BY <1>3, MainScreenSteps, ModalSteps DEF UserStep
<1>4. CASE Continuation
  BY <1>4, CallbackSteps, PlannedStep DEF Continuation
<1>5. CASE CwdStep
  BY <1>5, CwdSteps
<1>6. CASE Reopen
  BY <1>6, ReopenStep
<1> QED
  BY <1>2, <1>3, <1>4, <1>5, <1>6 DEF FlowNext, UserStep, LoopStep

-----------------------------------------------------------------------------
(* The flows of every run of the TUI.                                        *)

(* Always: each modal and each callback belongs to a flow that has begun, a   *)
(* flow has one of them, and what it commits has passed its runtime's gate.   *)
THEOREM FlowInvariant == FlowSpec => []FlowInv
<1>1. FlowInit => FlowInv
  BY FlowInvInit
<1>2. FlowInv /\ [FlowNext]_vars => FlowInv'
  BY FlowInvStep
<1> QED
  BY <1>1, <1>2, PTL DEF FlowSpec

(* The questions about a workspace are asked of the flow begun last only.     *)
THEOREM WorkspaceIsCurrent == FlowSpec => []WorkspaceOfCurrentFlow
<1>1. FlowInv => WorkspaceOfCurrentFlow
  BY DEF FlowInv
<1> QED
  BY <1>1, FlowInvariant, PTL

(* The row of the TUI's own directory is enabled by the last probe only.      *)
THEOREM CwdRowIsCurrent == FlowSpec => []CwdReadyIsCurrent
<1>1. FlowInv => CwdReadyIsCurrent
  BY DEF FlowInv
<1> QED
  BY <1>1, FlowInvariant, PTL

(* No launch in an existing directory is committed before its runtime is      *)
(* ready, and none that asks for approval is prepared without it.             *)
THEOREM LaunchesAreGated == FlowSpec => []RuntimeGated
<1>1. FlowInv => RuntimeGated
  <2> SUFFICES ASSUME FlowInv  PROVE RuntimeGated
    OBVIOUS
  <2>1. \A j \in jobs : j.task = "commit" => j.flow \notin unready
    BY FlowTypes DEF Gated
  <2>2. \A j \in jobs : j.flow \notin unasked
    BY FlowTypes DEF Gated
  <2> QED
    BY <2>1, <2>2 DEF RuntimeGated
<1> QED
  BY <1>1, FlowInvariant, PTL

(* A set of which any two elements are the same counts at most one.           *)
LEMMA AtMostOne ==
  ASSUME NEW S, \A x, y \in S : x = y
  PROVE  Cardinality(S) \in {0, 1} /\ (S = {} => Cardinality(S) = 0)
<1>1. CASE S = {}
  BY <1>1, FS_EmptySet
<1>2. CASE S # {}
  <2>1. PICK x \in S : S = {x}
    BY <1>2
  <2> QED
    BY <2>1, FS_Singleton
<1> QED
  BY <1>1, <1>2

(* However many flows are under way, each has one modal or one callback: one  *)
(* choice of the user leads to one launch.                                    *)
THEOREM OneStepOfEachFlow == FlowSpec => []OneStepPerFlow
<1>1. FlowInv => OneStepPerFlow
  <2> SUFFICES ASSUME FlowInv, NEW g \in 1..MaxFlows  PROVE InFlow(g) <= 1
    BY DEF OneStepPerFlow
  <2>1. PICK M, W : /\ M = {i \in DOMAIN stack : stack[i].flow.gen = g}
                    /\ W = {j \in jobs : j.flow.gen = g}
    OBVIOUS
  <2>2. g # 0 /\ Apart
    BY FlowTypes
  <2>3. Cardinality(M) \in {0, 1} /\ (M = {} => Cardinality(M) = 0)
    <3>1. \A x, y \in M : x = y
      BY <2>1, <2>2 DEF Apart
    <3> QED
      BY <3>1, AtMostOne
  <2>4. Cardinality(W) \in {0, 1} /\ (W = {} => Cardinality(W) = 0)
    <3>1. \A x, y \in W : x = y
      BY <2>1, <2>2 DEF Apart
    <3> QED
      BY <3>1, AtMostOne
  <2>5. M = {} \/ W = {}
    BY <2>1, <2>2 DEF Apart
  <2>6. InFlow(g) = Cardinality(M) + Cardinality(W)
    BY <2>1 DEF InFlow
  <2> QED
    BY <2>3, <2>4, <2>5, <2>6
<1> QED
  BY <1>1, FlowInvariant, PTL

=============================================================================
