--------------------------- MODULE PlanAdmission ---------------------------
(***************************************************************************)
(* From a Planner's work graph to the Subtasks that run: the Kernel        *)
(* validates the graph and filters its lists by the availability of the    *)
(* Executors, the Runtime replaces the active revision by it, the frontier *)
(* dispatches it, and a cancellation closes over what depends on it.       *)
(* Several proposals of one Task may be between decision and activation.   *)
(*                                                                         *)
(* Left to other modules: the other actions of a plan and its submission   *)
(* (PlannerProposals), when a replan is asked for (GenerationReplan), an   *)
(* attempt's own life (AttemptExecution).  Contract texts, keys and counts *)
(* (validateKeyedDescriptions and the like) are left out.                  *)
(***************************************************************************)
EXTENDS Integers, Sequences, FiniteSets, SequencesExt, FiniteSetsExt

CONSTANTS
  Subtasks,          \* the ids a Planner gives the nodes of its graph
  Classes,           \* the AgentClasses of the catalog
  Covers,            \* [Classes -> set of capabilities], the verified catalog
  WorkGraphs,        \* [deps, contracts, cites]: what the Planner may propose
  Slots,             \* attempts that may run at once
  Threshold,         \* consecutive transient failures that open the breaker
  MaxProposals, MaxMishaps   \* bounds

ASSUME AdmissionAssumption ==
  /\ IsFiniteSet(Subtasks)
  /\ \A plan \in WorkGraphs : \A n \in Subtasks : plan.contracts[n].list \in Seq(Classes)
  /\ Threshold \in Nat /\ MaxMishaps \in Nat

VARIABLES
  proposed,   \* per proposal: where it is and what the Kernel made of it
  graph,       \* the active revision: number, author, dependencies, lists
  progress,    \* status of each Subtask of the active revision
  tried,       \* AgentClasses each Subtask was attempted with, the last one now
  evidence,    \* <<revision, Subtask>> whose result was materialised
  finished,    \* history: <<revision, Subtask>> that have been done
  classHealth, \* the projected health of each AgentClass
  streak,      \* its latest consecutive transient failures
  cooled,      \* the cooldown after the latest of them has passed
  probing,     \* a recovery probe of the AgentClass is in flight
  closing,     \* a decided Subtask cancellation that is not applied yet
  mishaps      \* failures of attempts and restarts so far

admission == << proposed, graph, progress, tried, evidence, finished,
                classHealth, streak, cooled, probing, closing, mishaps >>
availability == << classHealth, streak, cooled, probing >>
work == << graph, progress, tried, evidence, finished >>

Ids == 1 .. MaxProposals
Proposal(state, source, revision) ==
  [state |-> state, source |-> source, revision |-> revision,
   plan |-> <<>>, lists |-> <<>>, recorded |-> FALSE]
NoProposal == Proposal("idle", "none", 0)
Spent == Proposal("over", "none", 0)
NoGraph == [revision |-> 0, needs |-> <<>>, contracts |-> <<>>, lists |-> <<>>]
NoClosing == [revision |-> 0, nodes |-> {}, expected |-> <<>>]

(***************************************************************************)
(* Structure of a graph                                                    *)
(***************************************************************************)
Children(deps, n) == {m \in Subtasks : n \in deps[m]}

\* Whatever depends on a node of it belongs to it.
Closed(deps, T) == \A n \in T : Children(deps, n) \subseteq T

\* The nodes that depend on a node of T, directly or not, and T itself.
Downstream(deps, T) ==
  {n \in Subtasks : \A C \in SUBSET Subtasks : T \subseteq C /\ Closed(deps, C) => n \in C}

Acyclic(deps) ==
  \A n \in Subtasks : n \notin Downstream(deps, Children(deps, n))

\* What is left of a list keeps the list's order: its first class.
First(list, kept) == list[Min({k \in DOMAIN list : list[k] \in kept})]

\* A node and its only child with the same preferred class should be one node.
MergeableChain(plan, lists) ==
  \E up, down \in Subtasks :
    /\ plan.deps[down] = {up}
    /\ Children(plan.deps, up) = {down}
    /\ lists[up] # {}
    /\ lists[down] # {}
    /\ First(plan.contracts[up].list, lists[up]) = First(plan.contracts[down].list, lists[down])

ValidStructure(plan, lists) ==
  /\ \A n \in Subtasks : plan.deps[n] \subseteq Subtasks \ {n}
  /\ \E n \in Subtasks : plan.deps[n] = {}
  /\ Acyclic(plan.deps)
  /\ ~ MergeableChain(plan, lists)

\* The longest chain of dependencies above each node of an acyclic graph.
Layer(deps) ==
  LET depth[n \in Subtasks] ==
        IF deps[n] = {} THEN 0
        ELSE 1 + CHOOSE d \in 0 .. Cardinality(Subtasks) :
                   /\ \E m \in deps[n] : depth[m] = d
                   /\ \A m \in deps[n] : depth[m] <= d
  IN  depth

(***************************************************************************)
(* Routing and availability                                                *)
(***************************************************************************)
Eligible(needs) == {c \in Classes : needs \subseteq Covers[c]}

\* A contract is what a node needs and its preferred list.  The list is an order of exactly the eligible classes.
Routed(contract) ==
  /\ contract.needs # {}
  /\ contract.list # <<>>
  /\ IsInjective(contract.list)
  /\ ToSet(contract.list) = Eligible(contract.needs)

Unavailable(projected) ==
  {c \in Classes : \/ projected[c] = "error"
                   \/ /\ streak[c] >= Threshold
                      /\ ~ cooled[c]}

\* Of a preferred list, the classes that are kept.
Filtered(plan, out) ==
  [n \in Subtasks |-> ToSet(plan.contracts[n].list) \ out]

ValidPlan(plan) ==
  /\ ValidStructure(plan, Filtered(plan, {}))
  /\ \A n \in Subtasks : Routed(plan.contracts[n])

ContextIsEligible(plan) == plan.cites \subseteq evidence

(***************************************************************************)
(* Proposals: asked of the Planner, decided by the Kernel                  *)
(***************************************************************************)
InitAdmission ==
  /\ proposed = [i \in Ids |-> NoProposal]
  /\ graph = NoGraph
  /\ progress = [n \in Subtasks |-> "none"]
  /\ tried = [n \in Subtasks |-> <<>>]
  /\ evidence = {}
  /\ finished = {}
  /\ classHealth = [c \in Classes |-> "healthy"]
  /\ streak = [c \in Classes |-> 0]
  /\ cooled = [c \in Classes |-> FALSE]
  /\ probing = [c \in Classes |-> FALSE]
  /\ closing = NoClosing
  /\ mishaps = 0

Set(i, state) == proposed' = [proposed EXCEPT ![i].state = state]

\* Nothing more is made of it.
End(i) == proposed' = [proposed EXCEPT ![i] = Spent]

Fresh(i) == proposed[i].state = "idle" /\ \A j \in 1 .. i - 1 : proposed[j].state # "idle"

\* A prompt of the user is planned for the Task's first revision, whether or
\* not an earlier one is on its way.
AskFirst(i) ==
  /\ Fresh(i)
  /\ proposed' = [proposed EXCEPT ![i] = Proposal("asked", "initial", 1)]
  /\ UNCHANGED << work, availability, closing, mishaps >>

Done == {n \in Subtasks : progress[n] = "done"}
Results == {graph.revision} \X Done

\* The generation is quiescent and a Subtask has no class left.
AskReplan(i) ==
  /\ Fresh(i)
  /\ \E n \in Subtasks : progress[n] = "blocked"
  /\ \A n \in Subtasks : progress[n] # "running"
  /\ proposed' = [proposed EXCEPT ![i] = Proposal("asked", "replan", graph.revision + 1)]
  /\ evidence' = evidence \cup Results
  /\ UNCHANGED << graph, progress, tried, finished, availability, closing, mishaps >>

Decided(i, state, plan, lists) ==
  proposed' = [proposed EXCEPT ![i] =
    [state |-> state, source |-> @.source, revision |-> @.revision,
     plan |-> [deps |-> plan.deps, contracts |-> plan.contracts],
     lists |-> lists, recorded |-> FALSE]]

Authorized(i, plan, lists) == Decided(i, "authorized", plan, lists)

\* Kept whole: it is filtered again when a class recovers.
Deferred(i, plan) == Decided(i, "deferred", plan, <<>>)

\* The graph is validated again with the filtered lists: two nodes may have
\* the same preferred class now.
Admit(i, plan) ==
  LET lists == Filtered(plan, Unavailable(classHealth))
      unserved == \E n \in Subtasks : lists[n] = {}
  IN  CASE unserved /\ proposed[i].source = "replan"       -> Deferred(i, plan)
        [] unserved /\ proposed[i].source # "replan"       -> End(i)
        [] ~ unserved /\ ~ ValidStructure(plan, lists)     -> End(i)
        [] OTHER                                           -> Authorized(i, plan, lists)

DecidePlan(i, plan, otherTaskRuns) ==
  /\ proposed[i].state = "asked"
  /\ CASE ~ ValidPlan(plan)                -> End(i)
       [] otherTaskRuns                    -> End(i)
       [] /\ proposed[i].source = "initial"
          /\ graph # NoGraph               -> End(i)
       [] ~ ContextIsEligible(plan)        -> End(i)
       [] OTHER                            -> Admit(i, plan)
  /\ UNCHANGED << work, availability, closing, mishaps >>

(***************************************************************************)
(* Application of an authorised plan                                       *)
(***************************************************************************)
\* The session hands the plan to a background execution ...
ScheduleRun(i) ==
  /\ proposed[i].state = "authorized"
  /\ Set(i, "scheduled")
  /\ UNCHANGED << work, availability, closing, mishaps >>

\* ... and records the application of the decision.
RecordApplication(i) ==
  /\ proposed[i].state \in {"scheduled", "applied"}
  /\ ~ proposed[i].recorded
  /\ IF proposed[i].state = "applied" THEN End(i)
     ELSE proposed' = [proposed EXCEPT ![i].recorded = TRUE]
  /\ UNCHANGED << work, availability, closing, mishaps >>

Fits(i) ==
  IF graph = NoGraph
  THEN proposed[i].source = "initial" /\ proposed[i].revision = 1
  ELSE proposed[i].source # "initial"
       /\ proposed[i].revision = graph.revision + 1

Rows(i, lists) ==
  [revision |-> proposed[i].revision, needs |-> proposed[i].plan.deps,
   contracts |-> proposed[i].plan.contracts, lists |-> lists]

\* One transaction: what is not done is superseded, the results are kept as
\* evidence, the new rows are ready.
Replace(i) ==
  /\ evidence' = IF graph = NoGraph THEN evidence ELSE evidence \cup Results
  /\ graph' = Rows(i, proposed[i].lists)
  /\ progress' = [n \in Subtasks |-> "ready"]
  /\ tried' = [n \in Subtasks |-> <<>>]

\* An equal revision is taken for the same plan applied again.
Activates(i) == proposed[i].revision # graph.revision /\ Fits(i)

Activate(i) ==
  /\ proposed[i].state = "scheduled"
  /\ IF proposed[i].recorded THEN End(i) ELSE Set(i, "applied")
  /\ \/ Activates(i) /\ Replace(i)
     \/ ~ Activates(i) /\ UNCHANGED << graph, progress, tried, evidence >>
  /\ UNCHANGED << finished, availability, closing, mishaps >>

(***************************************************************************)
(* The Subtasks of the active revision                                     *)
(***************************************************************************)
DependenciesDone(n) == \A m \in graph.needs[n] : progress[m] = "done"

Frontier ==
  IF graph = NoGraph THEN {}
  ELSE {n \in Subtasks : progress[n] = "ready" /\ DependenciesDone(n)}

Running == {n \in Subtasks : progress[n] = "running"}

Usable(n) == graph.lists[n] \ Unavailable(classHealth)

FirstOf(n, kept) == First(graph.contracts[n].list, kept)

FreeSlots == Slots - Cardinality(Running)

\* As many of the frontier as there are free slots, upper layers first; those
\* without an available class are left out of the batch.
DispatchBatch(batch) ==
  LET started == {n \in batch : Usable(n) # {}}
  IN  /\ batch \subseteq Frontier
      /\ started # {}
      /\ Cardinality(batch) =
           IF Cardinality(Frontier) < FreeSlots THEN Cardinality(Frontier) ELSE FreeSlots
      /\ \A n \in batch, m \in Frontier \ batch :
           Layer(graph.needs)[n] <= Layer(graph.needs)[m]
      /\ progress' = [n \in Subtasks |-> IF n \in started THEN "running" ELSE progress[n]]
      /\ tried' = [n \in Subtasks |->
           IF n \in started THEN Append(tried[n], FirstOf(n, Usable(n))) ELSE tried[n]]
      /\ UNCHANGED << proposed, graph, evidence, finished, availability, closing, mishaps >>

Succeed(n) ==
  LET c == Last(tried[n])
  IN  /\ progress[n] = "running"
      /\ progress' = [progress EXCEPT ![n] = "done"]
      /\ finished' = finished \cup {<<graph.revision, n>>}
      /\ classHealth' = [classHealth EXCEPT ![c] = "healthy"]
      /\ streak' = [streak EXCEPT ![c] = 0]
      /\ cooled' = [cooled EXCEPT ![c] = FALSE]
      /\ tried' = [tried EXCEPT ![n] = <<>>]
      /\ UNCHANGED << proposed, graph, evidence, probing, closing, mishaps >>

\* The preferred class is tried once more after a transient failure, then every
\* other class of the list that is available.
NextClasses(n, fault) ==
  LET preferred == FirstOf(n, graph.lists[n])
  IN  IF fault = "transient" /\ tried[n] = << preferred >> THEN {preferred}
      ELSE Usable(n) \ ToSet(tried[n])

\* The failure is projected on its class, and the Subtask falls back.
Fail(n, fault) ==
  LET c == Last(tried[n])
      next == NextClasses(n, fault)
  IN  /\ mishaps < MaxMishaps
      /\ progress[n] = "running"
      /\ progress' = [progress EXCEPT ![n] = IF next = {} THEN "blocked" ELSE @]
      /\ tried' = [tried EXCEPT ![n] = IF next = {} THEN <<>> ELSE Append(@, FirstOf(n, next))]
      /\ classHealth' = [classHealth EXCEPT ![c] = IF fault = "permanent" THEN "error" ELSE @]
      /\ streak' = [streak EXCEPT ![c] =
           IF fault # "transient" THEN 0 ELSE IF @ < Threshold THEN @ + 1 ELSE @]
      /\ cooled' = [cooled EXCEPT ![c] = FALSE]
      /\ mishaps' = mishaps + 1
      /\ UNCHANGED << proposed, graph, evidence, finished, probing, closing >>

\* The user resumes the blocked Task: every blocked Subtask is ready again.
Retry ==
  /\ \E n \in Subtasks : progress[n] = "blocked"
  /\ progress' = [n \in Subtasks |-> IF progress[n] = "blocked" THEN "ready" ELSE progress[n]]
  /\ UNCHANGED << proposed, graph, tried, evidence, finished, availability, closing, mishaps >>

(***************************************************************************)
(* Cancellation of Subtasks                                                *)
(***************************************************************************)
ClosureOfTargets(targets) == targets

Closure(targets) == Downstream(graph.needs, targets)

\* Decided on a snapshot; refused whole when something of it is settled.
DecideCancel(targets) ==
  /\ graph # NoGraph
  /\ closing = NoClosing
  /\ \A n \in Closure(targets) : progress[n] \notin {"done", "cancelled"}
  /\ closing' = [revision |-> graph.revision, nodes |-> Closure(targets),
                 expected |-> [n \in Closure(targets) |-> progress[n]]]
  /\ UNCHANGED << proposed, work, availability, mishaps >>

StillAsDecided ==
  /\ closing.revision = graph.revision
  /\ \A n \in closing.nodes : progress[n] = closing.expected[n]

\* Applied only to what was decided; otherwise the application fails.
ApplyCancel ==
  /\ closing # NoClosing
  /\ progress' = IF StillAsDecided
                 THEN [n \in Subtasks |-> IF n \in closing.nodes THEN "cancelled" ELSE progress[n]]
                 ELSE progress
  /\ closing' = NoClosing
  /\ UNCHANGED << proposed, graph, tried, evidence, finished, availability, mishaps >>

(***************************************************************************)
(* Availability: time, recovery probes, restart                            *)
(***************************************************************************)
Cooldown(c) ==
  /\ streak[c] > 0
  /\ ~ cooled[c]
  /\ cooled' = [cooled EXCEPT ![c] = TRUE]
  /\ UNCHANGED << proposed, work, classHealth, streak, probing, closing, mishaps >>

\* The failures leave the window of ten minutes.
LeaveWindow(c) ==
  /\ cooled[c]
  /\ streak' = [streak EXCEPT ![c] = 0]
  /\ cooled' = [cooled EXCEPT ![c] = FALSE]
  /\ UNCHANGED << proposed, work, classHealth, probing, closing, mishaps >>

\* Only a class in error is probed, one probe at a time.
StartProbe(c) ==
  /\ classHealth[c] = "error"
  /\ ~ probing[c]
  /\ probing' = [probing EXCEPT ![c] = TRUE]
  /\ UNCHANGED << proposed, work, classHealth, streak, cooled, closing, mishaps >>

ProbeFails(c) ==
  /\ probing[c]
  /\ probing' = [probing EXCEPT ![c] = FALSE]
  /\ UNCHANGED << proposed, work, classHealth, streak, cooled, closing, mishaps >>

\* A deferred proposal is filtered again and activated at once when every node
\* has a class; the Task is still blocked on the revision before it.
Revivable(out) ==
  {i \in Ids :
     /\ proposed[i].state = "deferred"
     /\ proposed[i].revision = graph.revision + 1
     /\ \A n \in Subtasks : Filtered(proposed[i].plan, out)[n] # {}
     /\ ValidStructure(proposed[i].plan, Filtered(proposed[i].plan, out))}

Revive(i, out) ==
  LET lists == Filtered(proposed[i].plan, out)
  IN  /\ End(i)
      /\ graph' = Rows(i, lists)
      /\ evidence' = evidence \cup Results
      /\ progress' = [n \in Subtasks |-> "ready"]
      /\ tried' = [n \in Subtasks |-> <<>>]

\* The recovered class is reported to every deferred proposal.
ProbeRecovers(c) ==
  /\ probing[c]
  /\ probing' = [probing EXCEPT ![c] = FALSE]
  /\ classHealth' = [classHealth EXCEPT ![c] = "healthy"]
  /\ LET out == Unavailable(classHealth')
     IN  \/ \E i \in Revivable(out) : Revive(i, out)
         \/ /\ Revivable(out) = {}
            /\ UNCHANGED << proposed, graph, progress, tried, evidence >>
  /\ UNCHANGED << finished, streak, cooled, closing, mishaps >>

\* What a restart finds of a proposal: an unrecorded application is repeated,
\* a recorded one that was only scheduled is gone.
AfterCrash(p) ==
  IF p.state \notin {"scheduled", "applied"} THEN p
  ELSE IF p.recorded THEN Spent
  ELSE [p EXCEPT !.state = "authorized"]

RestartHost ==
  /\ mishaps < MaxMishaps
  /\ mishaps' = mishaps + 1
  /\ proposed' = [i \in Ids |-> AfterCrash(proposed[i])]
  /\ progress' = [n \in Subtasks |-> IF n \in Running THEN "blocked" ELSE progress[n]]
  /\ probing' = [c \in Classes |-> FALSE]
  /\ tried' = [n \in Subtasks |-> <<>>]
  /\ UNCHANGED << graph, evidence, finished, classHealth, streak, cooled, closing >>

NextAdmission ==
  \/ \E i \in Ids : \/ AskFirst(i) \/ AskReplan(i) \/ ScheduleRun(i)
                    \/ RecordApplication(i) \/ Activate(i)
  \/ \E i \in Ids, plan \in WorkGraphs, other \in BOOLEAN : DecidePlan(i, plan, other)
  \/ \E batch \in SUBSET Subtasks : DispatchBatch(batch)
  \/ \E n \in Subtasks : Succeed(n) \/ DecideCancel({n})
  \/ \E n \in Subtasks, fault \in {"transient", "permanent", "attempt"} : Fail(n, fault)
  \/ \E c \in Classes : \/ Cooldown(c) \/ LeaveWindow(c) \/ StartProbe(c)
                        \/ ProbeFails(c) \/ ProbeRecovers(c)
  \/ Retry
  \/ ApplyCancel
  \/ RestartHost

SpecAdmission == InitAdmission /\ [][NextAdmission]_admission

(***************************************************************************)
(* Properties                                                              *)
(***************************************************************************)
\* Whatever was cancelled, failed or replaced, a Subtask that is ready and not
\* below a blocked one can be dispatched or waits for a running one.
NeverStalls ==
  ( /\ \E n \in Subtasks : progress[n] = "ready"
    /\ \A n \in Subtasks : progress[n] \notin {"running", "blocked"} )
  => Frontier # {}

\* A Subtask starts when all it depends on is done, and that stays so.
InDependencyOrder ==
  \A n \in Subtasks :
    progress[n] \in {"running", "done"} => DependenciesDone(n)

\* No repeated, late or competing application of a plan takes a result back.
ResultsAreKept ==
  /\ \A n \in Subtasks : <<graph.revision, n>> \in finished => progress[n] = "done"
  /\ evidence \subseteq finished

\* The rows of the active revision are the graph the Kernel checked, with the
\* lists it checked, and every class in them covers the node's contract.
RowsAreAdmitted ==
  graph # NoGraph =>
    /\ ValidStructure([deps |-> graph.needs, contracts |-> graph.contracts], graph.lists)
    /\ \A n \in Subtasks :
         /\ graph.lists[n] # {}
         /\ graph.lists[n] \subseteq Eligible(graph.contracts[n].needs)

\* Through every fallback, retry and restart, an attempt runs on a class that
\* the Kernel admitted for its Subtask.
RunsWhereAdmitted ==
  \A n \in Subtasks : progress[n] = "running" =>
    tried[n] # <<>> /\ Last(tried[n]) \in graph.lists[n]

\* What the Kernel admits can be executed to its end, once, in order.
AdmissionIsSound ==
  /\ NeverStalls /\ InDependencyOrder /\ ResultsAreKept
  /\ RowsAreAdmitted /\ RunsWhereAdmitted
=============================================================================
