--------------------------- MODULE GenerationReplan ---------------------------
(***************************************************************************)
(* The automatic replan of a Task: when a Subtask has exhausted its        *)
(* Executors the kernel queues one request for the generation, waits until *)
(* nothing of the generation runs, asks the Planner, admits its proposal   *)
(* and replaces the active revision of the Work Graph, or defers the       *)
(* proposal until an Executor recovers.                                    *)
(*                                                                         *)
(* One Task and one generation.  A Subtask has the same name in every      *)
(* revision; dependencies are left out, and of a publication only that it  *)
(* is integrated, or waits for its approval, once no attempt runs.  A      *)
(* decision is issued and applied in one step, except the one that awaits  *)
(* the Planner.  Pauses and replans after a merge conflict are left out.   *)
(***************************************************************************)
EXTENDS Naturals, FiniteSets

CONSTANTS Subtasks,      \* the Subtasks of a revision
          MaxRevision,   \* bound: revisions of the Work Graph, with room for a replan
          MaxLosses,     \* bound: failures for an unknown reason and deaths of the process
          MaxCancels     \* bound: cancellations by the user

ASSUME ReplanAssumption == /\ MaxRevision \in Nat \ {0, 1}
                           /\ Subtasks # {} /\ MaxLosses \in Nat

VARIABLES
  task,        \* tasks.status
  active,      \* the revision of work_graph_revisions with status 'active'
  automatic,   \* revisions with automatic_replan = 1
  sub,         \* subtasks.status of each revision
  working,     \* <<revision, Subtask>> with an unfinished dispatch item
  holding,     \* those that have landed and still hold their WorkUnit and leases
  request,     \* generation_replan_requests.status, by source revision
  app,         \* kernel_decision_applications.status of its request_replan
  outcomes,    \* execution_outcome events that wait: [rev, sub, failure]
  plans,       \* plan_proposed events that wait: [rev, verdict]
  dispatch,    \* a dispatch_requested event waits
  unapplied,   \* decisions no workflow that runs accepts: [rev, action]
  open,        \* executions of the Task that have not returned
  draining,    \* those of them whose workflow takes events from the inbox
  asking,      \* the source revision an execution awaits the Planner for, 0: none
  queued,      \* an execution waits for the one in the background
  up,          \* the process runs
  early,       \* when the kernel last looked for quiescence, nothing but what
               \* landed attempts still held was in the way
  unknowns, cancels, deaths   \* how much of the bounds is used

durable == <<task, active, automatic, sub, request>>
inbox == <<outcomes, plans, dispatch, unapplied>>
execution == <<open, draining, asking, queued>>
attempts == <<working, holding>>
bounds == <<unknowns, cancels, deaths>>
replanning == <<durable, attempts, app, inbox, execution, up, early, bounds>>

Revisions == 1..MaxRevision
\* What calls execute(): startBackgroundExecution, one after the other, and
\* recoverDue of the timer and of the startup, which nothing holds back.
Executions == {"background", "timer"}
Live == {"pending_quiescence", "planning", "submitted", "waiting_for_availability"}
Closed == {"done", "cancelled"}

InitReplan ==
  /\ task = "running" /\ active = 1 /\ automatic = {}
  /\ sub = [r \in Revisions |-> [s \in Subtasks |-> IF r = 1 THEN "ready" ELSE "none"]]
  /\ working = {} /\ holding = {} /\ request = [r \in Revisions |-> "none"]
  /\ app = [r \in Revisions |-> "none"]
  /\ outcomes = {} /\ plans = {} /\ dispatch = TRUE /\ unapplied = {}
  /\ open = {"background"} /\ draining = open
  /\ asking = [f \in Executions |-> 0] /\ queued = FALSE
  /\ up = TRUE /\ early = FALSE /\ unknowns = 0 /\ cancels = 0 /\ deaths = 0

Ready == {s \in Subtasks : sub[active][s] = "ready"}
Dispatchable == {s \in Ready : <<active, s>> \notin working}
AllDone == \A s \in Subtasks : sub[active][s] = "done"
\* findActive: the request of the latest revision among the live ones.
ActiveRequest == LET live == {r \in Revisions : request[r] \in Live}
                 IN  IF live = {} THEN 0 ELSE CHOOSE r \in live : \A q \in live : q <= r
Awaiting == {s \in Subtasks : sub[active][s] = "awaiting_integration"}
\* generationQuiescent: no item is open, no candidate waits to be published, and
\* no sandbox, WorkUnit or lease is left.
Quiescent == Ready = {} /\ working = {} /\ holding = {} /\ Awaiting = {}
\* completionBlockedReasons
Residue == \/ working # {} \/ holding # {} \/ Awaiting # {}
           \/ \E r \in Revisions : request[r] \in Live \ {"waiting_for_availability"}
           \/ \E r \in Revisions : app[r] \in {"pending", "applying", "uncertain"}
           \/ unapplied # {}

Blocked(t) == IF t = "running" THEN "blocked" ELSE t
Launched(t) == IF t \in {"ready", "parked", "blocked", "running"} THEN "running" ELSE t

(***************************************************************************)
(* The work graph                                                          *)
(***************************************************************************)
\* apply(): an authorized graph is activated over the revision before it, is
\* found active, or does not fit.
Fits(r) == active = r
Recovered(r) == active = r + 1
Superseded(r) ==
  [sub EXCEPT ![r] = [s \in Subtasks |-> IF @[s] \in Closed THEN @[s] ELSE "cancelled"],
              ![r + 1] = [s \in Subtasks |-> "ready"]]
Activated(r) ==
  IF Fits(r)
  THEN /\ active' = r + 1 /\ automatic' = automatic \union {r + 1}
       /\ sub' = Superseded(r)
  ELSE UNCHANGED <<active, automatic, sub>>
\* A mutant of Resolved: an answer that has been submitted is not resolved.
ResolvedPlanning(r, rs) == [rs EXCEPT ![r] = IF @ = "planning" THEN "resolved" ELSE @]
Resolved(r, rs) ==
  [rs EXCEPT ![r] = IF @ \in Live \ {"pending_quiescence"} THEN "resolved" ELSE @]

(***************************************************************************)
(* Attempts                                                                *)
(***************************************************************************)
\* The attempt lands: its Subtask awaits its integration or the kernel's
\* decision; the fence of a cancelled one lands it as cancelled.  run() still
\* awaits the checkpoint and the tool servers with its WorkUnit and leases held.
AttemptLands(r, s) ==
  /\ up /\ <<r, s>> \in working
  /\ working' = working \ {<<r, s>>} /\ holding' = holding \union {<<r, s>>}
  /\ \/ /\ sub[r][s] = "running"
        /\ \/ sub' = [sub EXCEPT ![r][s] = "awaiting_integration"]
              /\ outcomes' = outcomes \union {[rev |-> r, sub |-> s, failure |-> "none"]}
              /\ UNCHANGED unknowns
           \/ sub' = [sub EXCEPT ![r][s] = "awaiting_decision"]
              /\ outcomes' = outcomes \union {[rev |-> r, sub |-> s, failure |-> "exhausted"]}
              /\ UNCHANGED unknowns
           \/ unknowns + deaths < MaxLosses /\ unknowns' = unknowns + 1
              /\ sub' = [sub EXCEPT ![r][s] = "awaiting_decision"]
              /\ outcomes' = outcomes \union {[rev |-> r, sub |-> s, failure |-> "unknown"]}
     \/ /\ sub[r][s] = "cancelled"
        /\ outcomes' = outcomes \union {[rev |-> r, sub |-> s, failure |-> "cancelled"]}
        /\ UNCHANGED <<sub, unknowns>>
  /\ UNCHANGED <<task, active, automatic, request, app, plans, dispatch, unapplied,
                 execution, up, early, cancels, deaths>>

\* Everything is given back, and the supervisor submits the outcome, which is in
\* the inbox already: all that does is wake the drain of an execution.
AttemptReleases(w) ==
  /\ up /\ w \in holding
  /\ holding' = holding \ {w}
  /\ \/ \E f \in open : draining' = draining \union {f}
     \/ open = {} /\ UNCHANGED draining
  /\ UNCHANGED <<durable, working, app, inbox, open, asking, queued, up, early, bounds>>

(***************************************************************************)
(* One turn of the drain of an execution's workflow                        *)
(***************************************************************************)
Draining(f) == up /\ f \in draining /\ asking[f] = 0
NoApplication == \A r \in Revisions : app[r] # "pending"

\* request_replan: only a request that waits for quiescence, or one this very
\* decision is planning, goes to the Planner.
AskPlanner(f, r) ==
  /\ Draining(f) /\ app[r] = "pending"
  /\ \/ /\ request[r] \in {"pending_quiescence", "planning"}
        /\ request' = [request EXCEPT ![r] = "planning"]
        /\ app' = [app EXCEPT ![r] = "applying"]
        /\ asking' = [asking EXCEPT ![f] = r]
     \/ /\ request[r] \notin {"pending_quiescence", "planning"}
        /\ app' = [app EXCEPT ![r] = "applied"]
        /\ UNCHANGED <<request, asking>>
  /\ UNCHANGED <<task, active, automatic, sub, attempts, inbox, open, draining, queued,
                 up, early, bounds>>

\* decidePlan with its application by the execution's workflow, over requests rs:
\* the rejection is not among the actions that workflow accepts.
Deferred(rs, r) == [rs EXCEPT ![r] = IF @ \in {"planning", "submitted"}
                                     THEN "waiting_for_availability" ELSE @]
Admitted(r, verdict, rs) ==
  CASE verdict = "executable" ->
         /\ Activated(r)
         /\ request' = IF Fits(r) \/ Recovered(r) THEN Resolved(r, rs) ELSE rs
         /\ dispatch' = (dispatch \/ Fits(r) \/ Recovered(r))
         /\ UNCHANGED <<task, unapplied>>
    [] verdict = "unavailable" ->
         /\ request' = Deferred(rs, r)
         /\ task' = IF request' # rs THEN Blocked(task) ELSE task
         /\ UNCHANGED <<active, automatic, sub, dispatch, unapplied>>
    [] verdict = "invalid" ->
         /\ request' = rs
         /\ unapplied' = unapplied \union {[rev |-> r, action |-> "reject"]}
         /\ UNCHANGED <<task, active, automatic, sub, dispatch>>

\* A mutant of MaySubmit: the answer is taken whatever became of the request.
MaySubmitLate(r) == request[r] # "none"
\* submitPlan: only while the request is planning.
MaySubmit(r) == request[r] = "planning"
Submitted(r) == [request EXCEPT ![r] = "submitted"]

\* The answer is submitted and, with no other await between, admitted.
PlannerAnswers(f, verdict) ==
  LET r == asking[f] IN
  /\ up /\ r # 0
  /\ asking' = [asking EXCEPT ![f] = 0]
  /\ IF MaySubmit(r) THEN Admitted(r, verdict, Submitted(r))
                     ELSE UNCHANGED <<durable, dispatch, unapplied>>
  /\ app' = [app EXCEPT ![r] = IF @ = "applying" THEN "applied" ELSE @]
  /\ UNCHANGED <<attempts, outcomes, plans, open, draining, queued, up, early, bounds>>
PlannerFails(f) ==
  LET r == asking[f] IN
  /\ up /\ r # 0
  /\ asking' = [asking EXCEPT ![f] = 0]
  /\ request' = [request EXCEPT ![r] = IF @ \in {"pending_quiescence", "planning"}
                                       THEN "failed" ELSE @]
  /\ app' = [app EXCEPT ![r] = IF @ = "applying" THEN "uncertain" ELSE @]
  /\ UNCHANGED <<task, active, automatic, sub, attempts, inbox, open, draining, queued,
                 up, early, bounds>>

\* decideDispatch and its application.
LaunchReady ==
  /\ Dispatchable # {}
  /\ working' = working \union ({active} \X Dispatchable)
  /\ sub' = [sub EXCEPT ![active] = [s \in Subtasks |->
               IF s \in Dispatchable THEN "running" ELSE @[s]]]
  /\ task' = Launched(task)
  /\ UNCHANGED <<request, app, early>>
Replan ==
  /\ Dispatchable = {} /\ ActiveRequest # 0 /\ request[ActiveRequest] = "pending_quiescence"
  /\ app' = IF Quiescent /\ app[active] = "none"
            THEN [app EXCEPT ![active] = "pending"] ELSE app
  /\ early' = (Ready = {} /\ working = {} /\ holding # {})
  /\ UNCHANGED <<task, sub, working, request>>
Waits == ActiveRequest # 0 /\ request[ActiveRequest] = "pending_quiescence"
Finish ==
  /\ Dispatchable = {} /\ ~Waits /\ AllDone
  /\ task' = IF ~Residue /\ task \in {"running", "blocked"} THEN "done" ELSE task
  /\ UNCHANGED <<sub, working, request, app, early>>
Stall ==
  /\ Dispatchable = {} /\ ~Waits /\ ~AllDone
  /\ task' = IF working # {} \/ Awaiting # {} THEN task ELSE Blocked(task)
  /\ UNCHANGED <<sub, working, request, app, early>>
DecideDispatch == /\ LaunchReady \/ Replan \/ Finish \/ Stall
                  /\ UNCHANGED <<active, automatic, holding>>

HandleDispatch(f) ==
  /\ Draining(f) /\ NoApplication /\ dispatch /\ dispatch' = FALSE
  /\ DecideDispatch
  /\ UNCHANGED <<outcomes, plans, unapplied, execution, up, bounds>>

\* decideOutcome: the Subtasks of the snapshot are those of the active
\* revision; the outcome of any other attempt has incomplete facts and blocks.
\* A mutant of Spent: the replan that made the active revision does not count.
SpentBefore == Cardinality(automatic \ {active})
\* countAutomaticReplans
Spent == Cardinality(automatic)
BlockWork(o) ==
  /\ sub' = IF sub[o.rev][o.sub] = "awaiting_decision"
            THEN [sub EXCEPT ![o.rev][o.sub] = "blocked"] ELSE sub
  /\ task' = Blocked(task)
  /\ UNCHANGED <<active, automatic, attempts, request, app, early, dispatch>>
\* A mutant of QueueReplan: no dispatch_requested follows the request.
QueueReplanSilently(o) ==
  /\ Cardinality(automatic) < 1
  /\ request' = [request EXCEPT ![active] = IF @ = "none" THEN "pending_quiescence" ELSE @]
  /\ UNCHANGED <<task, active, automatic, sub, attempts, app, early, dispatch>>
QueueReplan(o) ==
  /\ Spent < 1
  /\ request' = [request EXCEPT ![active] = IF @ = "none" THEN "pending_quiescence" ELSE @]
  /\ dispatch' = TRUE
  /\ UNCHANGED <<task, active, automatic, sub, attempts, app, early>>
ParkForReplan ==
  /\ Spent >= 1
  /\ task' = IF task \in {"ready", "running", "blocked"} THEN "parked" ELSE task
  /\ UNCHANGED <<active, automatic, sub, attempts, request, app, early, dispatch>>
HandleOutcome(f, o) ==
  /\ Draining(f) /\ NoApplication /\ o \in outcomes /\ outcomes' = outcomes \ {o}
  /\ IF o.failure = "none" THEN DecideDispatch /\ UNCHANGED dispatch
     ELSE IF o.rev # active THEN BlockWork(o)
     ELSE IF task = "cancelled" \/ sub[o.rev][o.sub] = "cancelled"
          THEN UNCHANGED <<durable, attempts, app, early, dispatch>>
     ELSE IF o.failure = "unknown" THEN BlockWork(o)
     ELSE QueueReplan(o) \/ ParkForReplan
  /\ UNCHANGED <<plans, unapplied, execution, up, bounds>>

\* A proposal that was left in the inbox.
HandlePlan(f, p) ==
  /\ Draining(f) /\ NoApplication /\ p \in plans /\ plans' = plans \ {p}
  /\ Admitted(p.rev, p.verdict, request)
  /\ UNCHANGED <<attempts, app, outcomes, execution, up, early, bounds>>

\* The deferral a planning workflow has decided but does not accept.
HandleDeferral(f, u) ==
  /\ Draining(f) /\ u \in unapplied /\ u.action = "defer"
  /\ unapplied' = unapplied \ {u}
  /\ request' = Deferred(request, u.rev)
  /\ task' = IF request' # request THEN Blocked(task) ELSE task
  /\ UNCHANGED <<active, automatic, sub, attempts, app, outcomes, plans, dispatch, execution,
                 up, early, bounds>>

\* The drain finds nothing and ends.
Nothing == /\ NoApplication /\ outcomes = {} /\ plans = {} /\ ~dispatch
           /\ ~\E u \in unapplied : u.action = "defer"
DrainEnds(f) ==
  /\ Draining(f) /\ Nothing /\ draining' = draining \ {f}
  /\ UNCHANGED <<durable, attempts, app, inbox, open, asking, queued, up, early, bounds>>

\* Once no attempt of the Task runs, drainPublications integrates the candidates
\* that are approved and submits a dispatch for what comes after them.
OutOfEvents(f) == up /\ f \in open \ draining /\ working = {} /\ holding = {}
Integrates(f, S) ==
  /\ OutOfEvents(f) /\ S # {} /\ S \subseteq Awaiting
  /\ sub' = [sub EXCEPT ![active] = [s \in Subtasks |-> IF s \in S THEN "done" ELSE @[s]]]
  /\ dispatch' = TRUE /\ draining' = draining \union {f}
  /\ UNCHANGED <<task, active, automatic, request, attempts, app, outcomes, plans, unapplied,
                 open, asking, queued, up, early, bounds>>

\* What else waits is not approved: execute() settles a partial cancellation and
\* returns.
Return(f) ==
  /\ OutOfEvents(f)
  /\ open' = open \ {f}
  /\ task' = IF /\ task # "cancelled" /\ ~Residue
                /\ \E s \in Subtasks : sub[active][s] = "cancelled"
                /\ \A s \in Subtasks : sub[active][s] \in Closed
             THEN "blocked" ELSE task
  /\ UNCHANGED <<active, automatic, sub, request, attempts, app, inbox, draining, asking, queued,
                 up, early, bounds>>

(***************************************************************************)
(* The session                                                             *)
(***************************************************************************)
\* /task resume: prepareExecution makes what is blocked ready at once, the
\* execution waits for the Task's background work.
Resume ==
  /\ up /\ task \in {"blocked", "parked", "ready"} /\ ~queued
  /\ sub' = IF task = "blocked"
            THEN [sub EXCEPT ![active] = [s \in Subtasks |->
                    IF @[s] = "blocked" THEN "ready" ELSE @[s]]] ELSE sub
  /\ task' = IF task = "blocked" THEN "ready" ELSE task
  /\ queued' = TRUE
  /\ UNCHANGED <<active, automatic, request, attempts, app, inbox, open, draining, asking,
                 up, early, bounds>>
\* The user approves a candidate: the Task's execution is queued.
Approve ==
  /\ up /\ Awaiting # {} /\ ~queued /\ queued' = TRUE
  /\ UNCHANGED <<durable, attempts, app, inbox, open, draining, asking, up, early, bounds>>
Begin ==
  /\ up /\ queued /\ "background" \notin open
  /\ queued' = FALSE /\ open' = open \union {"background"}
  /\ draining' = draining \union {"background"} /\ dispatch' = TRUE
  /\ UNCHANGED <<durable, attempts, app, outcomes, plans, unapplied, asking, up, early, bounds>>

\* The timer recovers the blocked Tasks: reconcileProcessing takes back the
\* application that awaits the Planner.
Reconciled == app' = [r \in Revisions |-> IF app[r] = "applying" THEN "pending" ELSE app[r]]
TimerRecovers ==
  /\ up /\ task = "blocked" /\ "timer" \notin open
  /\ Reconciled /\ open' = open \union {"timer"} /\ draining' = draining \union {"timer"}
  /\ UNCHANGED <<durable, attempts, inbox, asking, queued, up, early, bounds>>

CancelTask ==
  /\ up /\ cancels < MaxCancels /\ cancels' = cancels + 1
  /\ task \notin {"done", "cancelled"}
  /\ task' = "cancelled"
  /\ sub' = [sub EXCEPT ![active] = [s \in Subtasks |->
               IF @[s] \in Closed THEN @[s] ELSE "cancelled"]]
  /\ request' = [r \in Revisions |-> IF request[r] \in Live THEN "cancelled" ELSE request[r]]
  /\ UNCHANGED <<active, automatic, attempts, app, inbox, execution, up, early,
                 unknowns, deaths>>
CancelSubtask(s) ==
  /\ up /\ cancels < MaxCancels /\ cancels' = cancels + 1
  /\ task \notin {"done", "cancelled"} /\ sub[active][s] \notin Closed
  /\ sub' = [sub EXCEPT ![active][s] = "cancelled"]
  /\ request' = [r \in Revisions |-> IF request[r] \in Live THEN "cancelled" ELSE request[r]]
  /\ UNCHANGED <<task, active, automatic, attempts, app, inbox, execution, up, early,
                 unknowns, deaths>>

\* executorRecovered of the recovery refresh: a deferred plan of a blocked Task
\* becomes its revision and the Task ready; nothing is dispatched.
ExecutorRecovers(r) ==
  /\ up /\ request[r] = "waiting_for_availability" /\ task = "blocked" /\ Fits(r)
  /\ Activated(r) /\ request' = Resolved(r, request) /\ task' = "ready"
  /\ UNCHANGED <<attempts, app, inbox, execution, up, early, bounds>>

\* A workflow that plans drains every plan_proposed event, of any Task, and
\* applies it with the session's runtime: the graph is activated, an execution
\* queued, the request left as it is.
PlanInSession(p) ==
  /\ p \in plans /\ plans' = plans \ {p}
  /\ CASE p.verdict = "executable" ->
            Activated(p.rev) /\ queued' = (queued \/ Fits(p.rev) \/ Recovered(p.rev))
            /\ UNCHANGED unapplied
       [] p.verdict = "unavailable" ->
            /\ unapplied' = unapplied \union {[rev |-> p.rev, action |-> "defer"]}
            /\ UNCHANGED <<active, automatic, sub, queued>>
       [] p.verdict = "invalid" -> UNCHANGED <<active, automatic, sub, queued, unapplied>>
  /\ UNCHANGED <<task, request, attempts, app, outcomes, dispatch, open, draining, asking,
                 early, bounds>>
UserPlans ==
  /\ up /\ UNCHANGED up
  /\ \/ \E p \in plans : PlanInSession(p)
     \/ \E u \in unapplied :
          /\ u.action = "reject" /\ unapplied' = unapplied \ {u}
          /\ UNCHANGED <<durable, attempts, app, outcomes, plans, dispatch, execution, early,
                         bounds>>

(***************************************************************************)
(* Crash and startup                                                       *)
(***************************************************************************)
ProcessStops ==
  /\ up /\ unknowns + deaths < MaxLosses /\ deaths' = deaths + 1
  /\ up' = FALSE /\ open' = {} /\ draining' = {}
  /\ asking' = [f \in Executions |-> 0] /\ queued' = FALSE
  /\ UNCHANGED <<durable, attempts, app, inbox, early, unknowns, cancels>>

\* Death between submitPlan and the claim of the event it wrote.
CrashSubmitted(f, verdict) ==
  LET r == asking[f] IN
  /\ up /\ r # 0 /\ MaySubmit(r) /\ unknowns + deaths < MaxLosses /\ deaths' = deaths + 1
  /\ request' = Submitted(r)
  /\ plans' = plans \union {[rev |-> r, verdict |-> verdict]}
  /\ up' = FALSE /\ open' = {} /\ draining' = {}
  /\ asking' = [g \in Executions |-> 0] /\ queued' = FALSE
  /\ UNCHANGED <<task, active, automatic, sub, attempts, app, outcomes, dispatch, unapplied,
                 early, unknowns, cancels>>

\* Docker, Git or the state cannot be reconciled: nothing else is recovered.
StartupBlocked ==
  /\ ~up /\ up' = TRUE /\ task' = Blocked(task)
  /\ UNCHANGED <<active, automatic, sub, request, attempts, app, inbox, execution, early, bounds>>

NoRecoverableWork == /\ outcomes = {} /\ ~dispatch
                     /\ ~\E u \in unapplied : u.action = "defer"
                     /\ \A r \in Revisions : app[r] \in {"none", "applied"}
\* Applications are reconciled, plans drained by a planning workflow (one step
\* of it for each plan), attempts that were claimed landed as orphans (one that had
\* landed gets the event of an orphan as well), and the Task's own workflow
\* recovered.
Startup ==
  /\ ~up
  /\ \/ plans # {} /\ UNCHANGED up /\ \E p \in plans : PlanInSession(p)
     \/ /\ plans = {} /\ up' = TRUE /\ Reconciled
        /\ LET lost == {w \in working : sub[w[1]][w[2]] = "running"}
               claimed == lost \union holding
               idle == claimed = {} /\ task = "running" /\ NoRecoverableWork
               orphans == IF idle THEN {w \in {active} \X Subtasks :
                                          sub[active][w[2]] \notin Closed} ELSE claimed IN
           /\ sub' = [r \in Revisions |-> [s \in Subtasks |->
                        IF <<r, s>> \in lost THEN "awaiting_decision" ELSE sub[r][s]]]
           /\ \E found \in (IF idle /\ orphans # {} THEN {{w} : w \in orphans} ELSE {orphans}) :
                outcomes' = outcomes \union
                  {[rev |-> w[1], sub |-> w[2], failure |-> "unknown"] : w \in found}
        /\ working' = {} /\ holding' = {}
        /\ unapplied' = {u \in unapplied : u.action = "defer"}
        /\ open' = IF task \in {"running", "blocked"} THEN {"timer"} ELSE {}
        /\ draining' = open'
        /\ UNCHANGED <<task, active, automatic, request, plans, dispatch, asking, queued,
                       early, bounds>>

Verdicts == {"executable", "unavailable", "invalid"}
Turn(f) == \/ \E r \in Revisions : AskPlanner(f, r)
           \/ HandleDispatch(f)
           \/ \E o \in outcomes : HandleOutcome(f, o)
           \/ \E p \in plans : HandlePlan(f, p)
           \/ \E u \in unapplied : HandleDeferral(f, u)
           \/ DrainEnds(f) \/ Return(f)
           \/ \E S \in SUBSET Awaiting : Integrates(f, S)
Answered(f) == PlannerFails(f) \/ \E v \in Verdicts : PlannerAnswers(f, v)
NextReplan ==
  \/ \E f \in Executions : Turn(f) \/ Answered(f)
  \/ \E r \in Revisions, s \in Subtasks : AttemptLands(r, s)
  \/ \E w \in holding : AttemptReleases(w)
  \/ Resume \/ Approve \/ Begin \/ TimerRecovers \/ CancelTask \/ UserPlans
  \/ \E s \in Subtasks : CancelSubtask(s)
  \/ \E r \in Revisions : ExecutorRecovers(r)
  \/ ProcessStops \/ StartupBlocked \/ Startup
  \/ \E f \in Executions, v \in Verdicts : CrashSubmitted(f, v)
Safely == InitReplan /\ [][NextReplan]_replanning

(***************************************************************************)
(* Properties                                                              *)
(***************************************************************************)
\* Every variable has its type.
ReplanTyped ==
  /\ task \in {"running", "blocked", "parked", "ready", "cancelled", "done"}
  /\ active \in Revisions /\ automatic \subseteq Revisions
  /\ sub \in [Revisions -> [Subtasks -> {"none", "ready", "running", "awaiting_decision",
                                        "awaiting_integration", "blocked", "done", "cancelled"}]]
  /\ request \in [Revisions -> Live \union {"none", "resolved", "cancelled", "failed"}]
  /\ app \in [Revisions -> {"none", "pending", "applying", "applied", "uncertain"}]
  /\ working \subseteq Revisions \X Subtasks /\ holding \subseteq Revisions \X Subtasks
  /\ draining \subseteq open /\ open \subseteq Executions
  /\ asking \in [Executions -> 0..MaxRevision]

\* However many Subtasks exhaust their Executors and however often the Planner
\* is asked, a generation is replanned automatically at most once.
OneAutomaticReplan == Cardinality(automatic) <= 1

\* In a process that never died, a request that was cancelled or has failed
\* never gets its revision: the answer of a Planner asked before is dropped.
LatePlanIsRejected ==
  [][\A r \in Revisions : deaths = 0 /\ request[r] \in {"cancelled", "failed"} /\ active = r
       => active' = r]_replanning

\* In a process that never died, a request is closed with the revision it asked
\* for: nothing that blocks the completion of the Task is left behind.
NoStaleRequest ==
  deaths = 0 => \A r \in Revisions : r < active => request[r] \notin Live

\* The two together: the bookkeeping of the requests of a Task.
ReplanIsOrderly == OneAutomaticReplan /\ NoStaleRequest

\* In a process that never died, a running Task that nobody executes has a replan
\* that failed, was cancelled or was rejected, Subtasks the user cancelled, a
\* candidate that waits for its approval, or a replan that was considered while an
\* attempt that had landed still held its WorkUnit (subtask-attempt-runner.ts:1002);
\* in every other case the Task ends, blocks or is parked.
Unattended == up /\ deaths = 0 /\ task = "running" /\ open = {} /\ ~queued
StallIsExplained ==
  Unattended => \/ \E r \in Revisions : request[r] \in {"failed", "cancelled", "submitted"}
                \/ \E s \in Subtasks : sub[active][s] \in {"cancelled", "awaiting_integration"}
                \/ early /\ \E r \in Revisions : request[r] = "pending_quiescence"

\* Once nothing of the generation runs, the Planner is asked: a request does not
\* wait for quiescence in a Task that nobody executes, if what it waited for was an
\* attempt in progress (control-kernel.ts:676).
QuiescenceIsNoticed ==
  Unattended /\ Quiescent /\ ~early => \A r \in Revisions : request[r] # "pending_quiescence"

\* The same, if what it waited for was the WorkUnit and the leases of an attempt
\* that had landed (kernel-execution-runtime.ts:569).
ReleaseIsNoticed ==
  Unattended /\ Quiescent /\ early => \A r \in Revisions : request[r] # "pending_quiescence"
=============================================================================
