------------------------- MODULE GenerationReplanProofs ------------------------
(***************************************************************************)
(* Proofs about GenerationReplan, for every set of Subtasks and any number *)
(* of revisions, unknown failures, cancellations and crashes.              *)
(*                                                                         *)
(* Only the first generation ever has a request (First, Generations), so   *)
(* one replan is all there is.  What holds in a process that never died    *)
(* needs to know who owns the request at each stage (Calm): while it is    *)
(* planning an execution awaits the Planner, a running Task has work, a    *)
(* request under way or an explanation (Progress), and what waits has a    *)
(* drain that is awake or an attempt whose release wakes one (Watched).    *)
(***************************************************************************)
EXTENDS GenerationReplan, TLAPS, FiniteSetTheorems

SubStatus == {"none", "ready", "running", "awaiting_decision",
              "awaiting_integration", "blocked", "done", "cancelled"}
TaskStatus == {"running", "blocked", "parked", "ready", "cancelled", "done"}
RequestStatus == Live \union {"none", "resolved", "cancelled", "failed"}
AppStatus == {"none", "pending", "applying", "applied", "uncertain"}
Outcomes == [rev : Revisions, sub : Subtasks, failure : {"none", "exhausted", "unknown", "cancelled"}]

RowsTyped == /\ task \in TaskStatus /\ active \in Revisions /\ automatic \subseteq Revisions
             /\ sub \in [Revisions -> [Subtasks -> SubStatus]]
             /\ request \in [Revisions -> RequestStatus] /\ app \in [Revisions -> AppStatus]
EventsTyped == /\ working \subseteq Revisions \X Subtasks /\ holding \subseteq Revisions \X Subtasks
               /\ outcomes \subseteq Outcomes
               /\ plans \subseteq [rev : {1}, verdict : Verdicts]
               /\ unapplied \subseteq [rev : {1}, action : {"reject", "defer"}]
               /\ dispatch \in BOOLEAN
FlowsTyped == /\ open \subseteq Executions /\ draining \subseteq open /\ early \in BOOLEAN
              /\ asking \in [Executions -> {0, 1}]
              /\ queued \in BOOLEAN /\ up \in BOOLEAN /\ deaths \in Nat
              /\ \A f \in Executions : asking[f] # 0 => f \in draining
              /\ ~up => open = {}
Typed == RowsTyped /\ EventsTyped /\ FlowsTyped

\* Only the first generation is ever replanned.
First == \A r \in Revisions : r # 1 => request[r] = "none" /\ app[r] = "none"
Generations == \/ active = 1 /\ automatic = {}
               \/ active = 2 /\ automatic = {2}

Asked == \E f \in Executions : asking[f] # 0

\* A request that has reached the Planner waits for quiescence no more.
Begun == \/ Asked \/ plans # {} \/ unapplied # {} \/ active = 2
         => request[1] \notin {"none", "pending_quiescence"}

Inv == Typed /\ First /\ Generations /\ Begun

-------------------------------------------------------------------------------
\* In a process that never died.

Work == dispatch \/ outcomes # {} \/ working # {}

\* What the request of the first generation says of its application, of the
\* executions that await the Planner, and of the generation it asked for.
Stages ==
  /\ request[1] = "none" => app[1] = "none"
  /\ request[1] = "pending_quiescence" => app[1] \in {"none", "pending"}
  /\ request[1] = "planning" => Asked
  /\ app[1] = "applying" => request[1] \in {"planning", "cancelled"} /\ Asked
  /\ app[1] = "uncertain" => request[1] \in {"failed", "cancelled"}
  /\ unapplied # {} => request[1] \in {"submitted", "cancelled"}
  /\ active = 2 => request[1] \notin Live

Explained == \/ request[1] \in {"failed", "cancelled", "submitted"}
             \/ \E s \in Subtasks : sub[active][s] \in {"cancelled", "awaiting_integration"}
             \/ early /\ request[1] = "pending_quiescence"

Progress == task = "running" /\ ~Explained =>
              \/ Work
              \/ request[1] = "planning"
              \/ request[1] = "pending_quiescence" /\ app[1] = "pending"
Attended == task = "running" /\ ~Explained => open # {} \/ queued

\* Whatever waits has a drain that is awake, or an attempt whose release wakes one;
\* no execution returns before the attempts, and nothing is done before that.
Watched == /\ ~Nothing => draining # {} \/ holding # {}
           /\ working # {} \/ holding # {} => open # {}
           /\ AllDone => working = {} /\ holding = {}

Calm == /\ up /\ plans = {} /\ \A u \in unapplied : u.action = "reject"
        /\ Stages /\ Progress /\ Attended /\ Watched

CalmInv == deaths = 0 => Calm

-------------------------------------------------------------------------------
LEMMA Numbers ==
  /\ Revisions \subseteq Nat \ {0} /\ 1 \in Revisions /\ 2 \in Revisions
  /\ 1 + 1 = 2 /\ Verdicts = {"executable", "unavailable", "invalid"}
  /\ Executions = {"background", "timer"}
  BY ReplanAssumption DEF Revisions, Verdicts, Executions

LEMMA InitHolds ==
  ASSUME InitReplan
  PROVE  Inv /\ Calm
  <1>1. RowsTyped
    BY Numbers DEF InitReplan, RowsTyped, TaskStatus, SubStatus, RequestStatus, AppStatus
  <1>2. EventsTyped
    BY DEF InitReplan, EventsTyped
  <1>3. FlowsTyped
    BY DEF InitReplan, FlowsTyped, Executions
  <1>4. First /\ Generations /\ Begun
    BY DEF InitReplan, First, Generations, Begun, Asked
  <1>5. Stages
    BY Numbers DEF InitReplan, Stages, Asked, Live
  <1>6. Progress /\ Attended
    BY DEF InitReplan, Progress, Attended, Work
  <1>7. Watched
    <2>1. working = {} /\ holding = {} /\ draining # {}
      BY DEF InitReplan
    <2> QED BY <2>1 DEF Watched
  <1>8. up /\ plans = {} /\ unapplied = {}
    BY DEF InitReplan
  <1> QED BY <1>1, <1>2, <1>3, <1>4, <1>5, <1>6, <1>7, <1>8 DEF Inv, Typed, Calm

\* findActive finds the request of the first generation, if it is live.
LEMMA ActiveIs ==
  ASSUME Inv
  PROVE  ActiveRequest = IF request[1] \in Live THEN 1 ELSE 0
  <1> DEFINE live == {r \in Revisions : request[r] \in Live}
  <1>1. live = IF request[1] \in Live THEN {1} ELSE {}
    <2>1. \A r \in Revisions : r # 1 => request[r] \notin Live
      BY DEF Inv, First, Live
    <2> QED BY <2>1, Numbers
  <1>2. ActiveRequest = IF live = {} THEN 0 ELSE CHOOSE r \in live : \A q \in live : q <= r
    BY DEF ActiveRequest
  <1>3. ASSUME live = {1}
        PROVE  (CHOOSE r \in live : \A q \in live : q <= r) = 1
    <2>1. \A r \in live : r = 1
      BY <1>3
    <2>2. \E r \in live : \A q \in live : q <= r
      BY <1>3
    <2>3. (CHOOSE r \in live : \A q \in live : q <= r) \in live
      BY <2>2
    <2> QED BY <2>1, <2>3
  <1> HIDE DEF live
  <1>4. CASE request[1] \in Live
    <2>1. live = {1}
      BY <1>1, <1>4
    <2>2. live # {}
      BY <2>1
    <2> QED BY <1>2, <1>3, <1>4, <2>1, <2>2
  <1>5. CASE request[1] \notin Live
    BY <1>1, <1>2, <1>5
  <1> QED BY <1>4, <1>5
-------------------------------------------------------------------------------
\* Types and generations, action by action.

LEMMA ActivatedKeeps ==
  ASSUME Inv, Activated(1)
  PROVE  /\ Generations' /\ active' \in Revisions /\ automatic' \subseteq Revisions
         /\ sub' \in [Revisions -> [Subtasks -> SubStatus]]
  <1>1. CASE Fits(1)
    <2>1. active' = 2 /\ automatic' = {2} /\ sub' = Superseded(1)
      BY <1>1, Numbers DEF Activated, Fits, Inv, Generations
    <2>2. Superseded(1) \in [Revisions -> [Subtasks -> SubStatus]]
      BY Numbers DEF Superseded, Inv, Typed, RowsTyped, SubStatus, Closed
    <2> QED BY <2>1, <2>2, Numbers DEF Generations
  <1>2. CASE ~Fits(1)
    BY <1>2 DEF Activated, Inv, Typed, RowsTyped, Generations
  <1> QED BY <1>1, <1>2

LEMMA ResolvedTyped ==
  ASSUME NEW rs \in [Revisions -> RequestStatus], \A r \in Revisions : r # 1 => rs[r] = "none"
  PROVE  /\ rs[1] \notin {"none", "pending_quiescence"} =>
              /\ Resolved(1, rs)[1] \notin {"none", "pending_quiescence"}
              /\ Deferred(rs, 1)[1] \notin {"none", "pending_quiescence"}
         /\ Resolved(1, rs) \in [Revisions -> RequestStatus]
         /\ Deferred(rs, 1) \in [Revisions -> RequestStatus]
         /\ \A r \in Revisions : r # 1 => Resolved(1, rs)[r] = "none" /\ Deferred(rs, 1)[r] = "none"
  BY Numbers DEF Resolved, Deferred, RequestStatus, Live

\* The application of a decision on a plan, over the requests rs.
LEMMA AdmittedKeeps ==
  ASSUME Inv, NEW rs \in [Revisions -> RequestStatus], \A r \in Revisions : r # 1 => rs[r] = "none",
         NEW v \in Verdicts, Admitted(1, v, rs)
  PROVE  /\ Generations' /\ active' \in Revisions /\ automatic' \subseteq Revisions
         /\ sub' \in [Revisions -> [Subtasks -> SubStatus]] /\ task' \in TaskStatus
         /\ request' \in [Revisions -> RequestStatus]
         /\ \A r \in Revisions : r # 1 => request'[r] = "none"
         /\ rs[1] \notin {"none", "pending_quiescence"} =>
              request'[1] \notin {"none", "pending_quiescence"}
         /\ unapplied' \subseteq [rev : {1}, action : {"reject", "defer"}] /\ dispatch' \in BOOLEAN
  <1> USE DEF Inv, Typed
  <1>1. CASE v = "executable"
    <2>1. Activated(1) /\ UNCHANGED << task, unapplied >>
          /\ request' = (IF Fits(1) \/ Recovered(1) THEN Resolved(1, rs) ELSE rs)
          /\ dispatch' = (dispatch \/ Fits(1) \/ Recovered(1))
      BY <1>1 DEF Admitted
    <2> QED BY <2>1, ActivatedKeeps, ResolvedTyped DEF RowsTyped, EventsTyped
  <1>2. CASE v = "unavailable"
    <2>1. /\ request' = Deferred(rs, 1)
          /\ task' \in {task, Blocked(task)}
          /\ UNCHANGED <<active, automatic, sub, dispatch, unapplied>>
      BY <1>2 DEF Admitted
    <2> QED BY <2>1, ResolvedTyped DEF RowsTyped, EventsTyped, Generations, Blocked, TaskStatus
  <1>3. CASE v = "invalid"
    <2>1. /\ request' = rs
          /\ unapplied' = unapplied \union {[rev |-> 1, action |-> "reject"]}
          /\ UNCHANGED <<task, active, automatic, sub, dispatch>>
      BY <1>3 DEF Admitted
    <2> QED BY <2>1 DEF RowsTyped, EventsTyped, Generations
  <1> QED BY <1>1, <1>2, <1>3, Numbers

LEMMA LandsStep ==
  ASSUME Inv, NEW r \in Revisions, NEW s \in Subtasks, AttemptLands(r, s)
  PROVE  Inv'
  <1> USE DEF durable, attempts, inbox, execution, bounds, Inv, Typed
  <1>1. sub' \in [Revisions -> [Subtasks -> SubStatus]]
    <2>1. CASE UNCHANGED sub
      BY <2>1 DEF RowsTyped
    <2>2. CASE sub' = [sub EXCEPT ![r][s] = "awaiting_integration"]
      BY <2>2 DEF RowsTyped, SubStatus
    <2>3. CASE sub' = [sub EXCEPT ![r][s] = "awaiting_decision"]
      BY <2>3 DEF RowsTyped, SubStatus
    <2> QED BY <2>1, <2>2, <2>3 DEF AttemptLands
  <1>2. working' \subseteq Revisions \X Subtasks /\ holding' \subseteq Revisions \X Subtasks
    BY DEF AttemptLands, EventsTyped
  <1>3. PICK x \in {"none", "exhausted", "unknown", "cancelled"} :
          outcomes' = outcomes \union {[rev |-> r, sub |-> s, failure |-> x]}
    BY DEF AttemptLands
  <1>4. outcomes' \subseteq Outcomes
    BY <1>3 DEF EventsTyped, Outcomes
  <1> QED BY <1>1, <1>2, <1>4 DEF AttemptLands, RowsTyped, EventsTyped, FlowsTyped, First, Generations, Begun, Asked

LEMMA AskStep ==
  ASSUME Inv, NEW f \in Executions, NEW r \in Revisions, AskPlanner(f, r)
  PROVE  Inv' /\ r = 1
  <1> USE DEF durable, attempts, inbox, execution, bounds, Inv, Typed
  <1>1. r = 1
    BY DEF AskPlanner, First
  <1>2. /\ request' \in [Revisions -> RequestStatus] /\ app' \in [Revisions -> AppStatus]
        /\ First'
    BY <1>1 DEF AskPlanner, First, RowsTyped, RequestStatus, AppStatus, Live
  <1>3. asking' \in [Executions -> {0, 1}] /\ \A g \in Executions : asking'[g] # 0 => g \in draining
    BY <1>1 DEF AskPlanner, Draining, FlowsTyped
  <1>4. Begun'
    BY <1>1 DEF AskPlanner, RowsTyped, FlowsTyped, Begun, Asked
  <1> QED BY <1>1, <1>2, <1>3, <1>4 DEF AskPlanner, RowsTyped, EventsTyped, FlowsTyped, Generations

LEMMA AnswerStep ==
  ASSUME Inv, NEW f \in Executions, NEW v \in Verdicts, PlannerAnswers(f, v)
  PROVE  Inv' /\ asking[f] = 1
  <1> USE DEF durable, attempts, inbox, execution, bounds, Inv, Typed
  <1>1. asking[f] = 1 /\ asking' = [asking EXCEPT ![f] = 0]
    BY DEF PlannerAnswers, FlowsTyped
  <1>2. /\ app' = [app EXCEPT ![1] = IF @ = "applying" THEN "applied" ELSE @]
        /\ UNCHANGED <<attempts, early, outcomes, plans, open, draining, queued, up, unknowns, cancels, deaths>>
        /\ IF MaySubmit(1) THEN Admitted(1, v, Submitted(1))
                           ELSE UNCHANGED <<task, active, automatic, sub, request, dispatch, unapplied>>
    BY <1>1 DEF PlannerAnswers
  <1>3. /\ Submitted(1) \in [Revisions -> RequestStatus] /\ Submitted(1)[1] = "submitted"
        /\ \A r \in Revisions : r # 1 => Submitted(1)[r] = "none"
    BY Numbers DEF Submitted, RowsTyped, First, RequestStatus, Live
  <1>4. /\ Generations' /\ active' \in Revisions /\ automatic' \subseteq Revisions
        /\ sub' \in [Revisions -> [Subtasks -> SubStatus]] /\ task' \in TaskStatus
        /\ request' \in [Revisions -> RequestStatus]
        /\ \A r \in Revisions : r # 1 => request'[r] = "none"
        /\ request'[1] \notin {"none", "pending_quiescence"}
        /\ unapplied' \subseteq [rev : {1}, action : {"reject", "defer"}] /\ dispatch' \in BOOLEAN
    <2>1. CASE MaySubmit(1)
      BY <1>2, <1>3, <2>1, AdmittedKeeps
    <2>2. CASE ~MaySubmit(1)
      BY <1>1, <1>2, <2>2 DEF RowsTyped, EventsTyped, First, Generations, Begun, Asked
    <2> QED BY <2>1, <2>2
  <1>5. app' \in [Revisions -> AppStatus] /\ \A r \in Revisions : r # 1 => app'[r] = "none"
    BY <1>2 DEF RowsTyped, First, AppStatus
  <1>6. FlowsTyped'
    BY <1>1, <1>2 DEF FlowsTyped
  <1> QED BY <1>1, <1>2, <1>4, <1>5, <1>6 DEF RowsTyped, EventsTyped, First, Begun

LEMMA FailStep ==
  ASSUME Inv, NEW f \in Executions, PlannerFails(f)
  PROVE  Inv' /\ asking[f] = 1
  <1> USE DEF durable, attempts, inbox, execution, bounds, Inv, Typed
  <1>1. asking[f] = 1 /\ asking' = [asking EXCEPT ![f] = 0]
    BY DEF PlannerFails, FlowsTyped
  <1>2. /\ request' = [request EXCEPT ![1] = IF @ \in {"pending_quiescence", "planning"} THEN "failed" ELSE @]
        /\ app' = [app EXCEPT ![1] = IF @ = "applying" THEN "uncertain" ELSE @]
        /\ UNCHANGED <<task, active, automatic, sub, attempts, early, outcomes, plans, dispatch, unapplied,
                       open, draining, queued, up, unknowns, cancels, deaths>>
    BY <1>1 DEF PlannerFails
  <1>3. request' \in [Revisions -> RequestStatus] /\ app' \in [Revisions -> AppStatus] /\ First'
    BY <1>2 DEF RowsTyped, First, AppStatus, RequestStatus, Live
  <1>4. Begun'
    BY <1>1, <1>2, Numbers DEF RowsTyped, FlowsTyped, Begun, Asked
  <1> QED BY <1>1, <1>2, <1>3, <1>4 DEF RowsTyped, EventsTyped, FlowsTyped, Generations

LEMMA DispatchKeeps ==
  ASSUME Inv, DecideDispatch
  PROVE  /\ RowsTyped' /\ First' /\ Generations' /\ working' \subseteq Revisions \X Subtasks
         /\ early' \in BOOLEAN /\ UNCHANGED << active, automatic, request, holding >>
  <1> USE DEF Inv, Typed
  <1>1. UNCHANGED << active, automatic, request, holding >>
    BY DEF DecideDispatch, LaunchReady, Replan, Finish, Stall
  <1>2. task' \in TaskStatus
    BY DEF DecideDispatch, LaunchReady, Replan, Finish, Stall, Launched, Blocked, RowsTyped, TaskStatus
  <1>3. /\ sub' \in [Revisions -> [Subtasks -> SubStatus]]
        /\ working' \subseteq Revisions \X Subtasks
    <2>1. CASE LaunchReady
      BY <2>1 DEF LaunchReady, Dispatchable, Ready, RowsTyped, EventsTyped, SubStatus
    <2> QED BY <2>1 DEF DecideDispatch, Replan, Finish, Stall, RowsTyped, EventsTyped
  <1>4. app' \in [Revisions -> AppStatus] /\ \A r \in Revisions : r # 1 => app'[r] = "none"
    <2>1. CASE app' = app
      BY <2>1 DEF RowsTyped, First
    <2>2. CASE Replan /\ app' # app
      <3>1. request[1] \in Live /\ request[1] = "pending_quiescence"
        BY <2>2, ActiveIs DEF Replan
      <3>2. app' = [app EXCEPT ![active] = "pending"] /\ app[active] = "none"
        BY <2>2 DEF Replan
      <3>3. active = 1
        BY <3>1 DEF Begun, Generations
      <3> QED BY <3>2, <3>3 DEF RowsTyped, First, AppStatus
    <2> QED BY <2>1, <2>2 DEF DecideDispatch, LaunchReady, Finish, Stall
  <1>5. early' \in BOOLEAN
    BY DEF DecideDispatch, LaunchReady, Replan, Finish, Stall, FlowsTyped
  <1> QED BY <1>1, <1>2, <1>3, <1>4, <1>5 DEF RowsTyped, First, Generations
LEMMA DispatchStep ==
  ASSUME Inv, NEW f \in Executions, HandleDispatch(f)
  PROVE  Inv'
  <1>1. DecideDispatch /\ dispatch' = FALSE /\ UNCHANGED <<outcomes, plans, unapplied, execution, up, bounds>>
    BY DEF HandleDispatch
  <1>2. /\ RowsTyped' /\ First' /\ Generations' /\ working' \subseteq Revisions \X Subtasks
        /\ early' \in BOOLEAN /\ UNCHANGED << active, automatic, request, holding >>
    BY <1>1, DispatchKeeps
  <1> QED BY <1>1, <1>2 DEF Inv, Typed, EventsTyped, FlowsTyped, Begun, Asked, execution, bounds

LEMMA OutcomeStep ==
  ASSUME Inv, NEW f \in Executions, NEW o \in outcomes, HandleOutcome(f, o)
  PROVE  Inv'
  <1> USE DEF durable, attempts, inbox, execution, bounds, Inv, Typed
  <1>1. o \in Outcomes /\ o.rev \in Revisions /\ o.sub \in Subtasks
    BY DEF EventsTyped, Outcomes
  <1>2. outcomes' = outcomes \ {o} /\ UNCHANGED <<plans, unapplied, execution, up, bounds>>
    BY DEF HandleOutcome
  <1>3. /\ RowsTyped' /\ First' /\ Generations' /\ working' \subseteq Revisions \X Subtasks
        /\ dispatch' \in BOOLEAN /\ early' \in BOOLEAN /\ UNCHANGED << active, automatic, holding >>
        /\ request[1] \notin {"none", "pending_quiescence"} => request'[1] = request[1]
    <2>1. CASE DecideDispatch /\ UNCHANGED dispatch
      BY <2>1, DispatchKeeps DEF EventsTyped
    <2>2. CASE BlockWork(o)
      BY <1>1, <2>2 DEF BlockWork, Blocked, RowsTyped, EventsTyped, FlowsTyped, First, Generations, TaskStatus, SubStatus
    <2>3. CASE UNCHANGED <<durable, attempts, app, early, dispatch>>
      BY <2>3 DEF RowsTyped, EventsTyped, FlowsTyped, First, Generations
    <2>4. CASE QueueReplan(o)
      <3>1. active = 1
        <4>1. CASE active = 2 /\ automatic = {2}
          <5>1. Cardinality({2}) = 1
            BY FS_Singleton
          <5>2. Cardinality(automatic) < 1
            BY <2>4 DEF QueueReplan, Spent
          <5> QED BY <4>1, <5>1, <5>2
        <4> QED BY <4>1 DEF Generations
      <3>2. /\ request' = [request EXCEPT ![1] = IF @ = "none" THEN "pending_quiescence" ELSE @]
            /\ UNCHANGED <<task, active, automatic, sub, attempts, early, app>> /\ dispatch' = TRUE
        BY <2>4, <3>1 DEF QueueReplan
      <3> QED BY <3>2, Numbers DEF RowsTyped, EventsTyped, FlowsTyped, First, Generations, RequestStatus, Live
    <2>5. CASE ParkForReplan
      BY <2>5 DEF ParkForReplan, RowsTyped, EventsTyped, FlowsTyped, First, Generations, TaskStatus
    <2> QED BY <2>1, <2>2, <2>3, <2>4, <2>5 DEF HandleOutcome
  <1>4. Begun'
    BY <1>2, <1>3 DEF Begun, Asked
  <1> QED BY <1>2, <1>3, <1>4 DEF EventsTyped, FlowsTyped

LEMMA PlanStep ==
  ASSUME Inv, NEW f \in Executions, NEW p \in plans, HandlePlan(f, p)
  PROVE  Inv'
  <1> USE DEF durable, attempts, inbox, execution, bounds, Inv, Typed
  <1>1. p.rev = 1 /\ p.verdict \in Verdicts
    BY DEF EventsTyped
  <1>2. /\ Admitted(1, p.verdict, request) /\ plans' = plans \ {p}
        /\ UNCHANGED <<attempts, early, app, outcomes, execution, up, bounds>>
    BY <1>1 DEF HandlePlan
  <1>3. request[1] \notin {"none", "pending_quiescence"}
    BY DEF Begun
  <1>4. /\ Generations' /\ active' \in Revisions /\ automatic' \subseteq Revisions
        /\ sub' \in [Revisions -> [Subtasks -> SubStatus]] /\ task' \in TaskStatus
        /\ request' \in [Revisions -> RequestStatus]
        /\ \A r \in Revisions : r # 1 => request'[r] = "none"
        /\ request'[1] \notin {"none", "pending_quiescence"}
        /\ unapplied' \subseteq [rev : {1}, action : {"reject", "defer"}] /\ dispatch' \in BOOLEAN
    BY <1>1, <1>2, <1>3, AdmittedKeeps DEF RowsTyped, First
  <1> QED BY <1>2, <1>4 DEF RowsTyped, EventsTyped, FlowsTyped, First, Begun

LEMMA DeferralStep ==
  ASSUME Inv, NEW f \in Executions, NEW u \in unapplied, HandleDeferral(f, u)
  PROVE  Inv'
  <1> USE DEF durable, attempts, inbox, execution, bounds, Inv, Typed
  <1>1. u.rev = 1
    BY DEF EventsTyped
  <1>2. request[1] \notin {"none", "pending_quiescence"}
    BY DEF Begun
  <1>3. /\ request' = Deferred(request, 1) /\ unapplied' \subseteq unapplied
        /\ task' \in {task, Blocked(task)}
        /\ UNCHANGED <<active, automatic, sub, attempts, early, app, outcomes, plans, dispatch, execution, up, bounds>>
    BY <1>1 DEF HandleDeferral
  <1>4. /\ request' \in [Revisions -> RequestStatus]
        /\ \A r \in Revisions : r # 1 => request'[r] = "none"
        /\ request'[1] \notin {"none", "pending_quiescence"}
    BY <1>2, <1>3, ResolvedTyped DEF RowsTyped, First
  <1>5. task' \in TaskStatus
    BY <1>3 DEF RowsTyped, Blocked, TaskStatus
  <1> QED BY <1>3, <1>4, <1>5 DEF RowsTyped, EventsTyped, FlowsTyped, First, Generations, Begun

LEMMA ReleaseStep ==
  ASSUME Inv, \/ \E w \in holding : AttemptReleases(w)
              \/ \E f \in Executions : DrainEnds(f)
              \/ Approve
  PROVE  Inv'
  <1> USE DEF durable, attempts, inbox, execution, bounds, Inv, Typed
  <1>1. ASSUME NEW w \in holding, AttemptReleases(w) PROVE Inv'
    <2>1. draining \subseteq draining' /\ draining' \subseteq open
      BY <1>1 DEF AttemptReleases, FlowsTyped
    <2> QED BY <1>1, <2>1 DEF AttemptReleases, RowsTyped, EventsTyped, FlowsTyped, First, Generations,
                              Begun, Asked
  <1>2. ASSUME NEW f \in Executions, DrainEnds(f) PROVE Inv'
    <2>1. draining' = draining \ {f} /\ asking[f] = 0
      BY <1>2 DEF DrainEnds, Draining
    <2> QED BY <1>2, <2>1 DEF DrainEnds, RowsTyped, EventsTyped, FlowsTyped, First, Generations, Begun, Asked
  <1>3. CASE Approve
    BY <1>3 DEF Approve, RowsTyped, EventsTyped, FlowsTyped, First, Generations, Begun, Asked
  <1> QED BY <1>1, <1>2, <1>3

LEMMA IntegratesStep ==
  ASSUME Inv, NEW f \in Executions, NEW S \in SUBSET Awaiting, Integrates(f, S)
  PROVE  Inv'
  <1> USE DEF durable, attempts, inbox, execution, bounds, Inv, Typed
  <1>1. sub' \in [Revisions -> [Subtasks -> SubStatus]]
    BY DEF Integrates, RowsTyped, SubStatus
  <1>2. draining' = draining \union {f} /\ f \in open
    BY DEF Integrates, OutOfEvents
  <1> QED BY <1>1, <1>2 DEF Integrates, RowsTyped, EventsTyped, FlowsTyped, First, Generations, Begun, Asked

LEMMA SettleStep ==
  ASSUME Inv,
         \/ \E f \in Executions : Return(f)
         \/ Resume \/ Begin \/ TimerRecovers
  PROVE  Inv'
  <1> USE DEF durable, attempts, inbox, execution, bounds, Inv, Typed
  <1>1. ASSUME NEW f \in Executions, Return(f) PROVE Inv'
    BY <1>1 DEF Return, OutOfEvents, RowsTyped, EventsTyped, FlowsTyped, First, Generations, Begun, Asked, TaskStatus
  <1>2. CASE Resume
    <2>1. sub' \in [Revisions -> [Subtasks -> SubStatus]] /\ task' \in TaskStatus
      BY <1>2 DEF Resume, RowsTyped, SubStatus, TaskStatus
    <2> QED BY <1>2, <2>1 DEF Resume, RowsTyped, EventsTyped, FlowsTyped, First, Generations, Begun, Asked
  <1>3. CASE Begin
    BY <1>3 DEF Begin, Executions, RowsTyped, EventsTyped, FlowsTyped, First, Generations, Begun, Asked
  <1>4. CASE TimerRecovers
    <2>1. app' \in [Revisions -> AppStatus] /\ \A r \in Revisions : r # 1 => app'[r] = "none"
      BY <1>4 DEF TimerRecovers, Reconciled, RowsTyped, First, AppStatus
    <2> QED BY <1>4, <2>1 DEF TimerRecovers, Executions, RowsTyped, EventsTyped, FlowsTyped, First, Generations, Begun, Asked
  <1> QED BY <1>1, <1>2, <1>3, <1>4

LEMMA CancelStep ==
  ASSUME Inv, CancelTask \/ \E s \in Subtasks : CancelSubtask(s)
  PROVE  Inv' /\ (request[1] \in Live => request'[1] = "cancelled")
              /\ (request[1] \notin Live => request'[1] = request[1])
  <1> USE DEF durable, attempts, inbox, execution, bounds, Inv, Typed
  <1>1. /\ request' = [r \in Revisions |-> IF request[r] \in Live THEN "cancelled" ELSE request[r]]
        /\ UNCHANGED <<active, automatic, attempts, app, inbox, execution, up, early, deaths>>
    BY DEF CancelTask, CancelSubtask
  <1>2. sub' \in [Revisions -> [Subtasks -> SubStatus]] /\ task' \in TaskStatus
    <2>1. CASE CancelTask
      BY <2>1 DEF CancelTask, RowsTyped, SubStatus, TaskStatus
    <2>2. ASSUME NEW s \in Subtasks, CancelSubtask(s)
          PROVE  sub' = [sub EXCEPT ![active][s] = "cancelled"] /\ task' = task
      BY <2>2 DEF CancelSubtask
    <2> QED BY <2>1, <2>2 DEF RowsTyped, SubStatus
  <1>3. /\ request' \in [Revisions -> RequestStatus]
        /\ \A r \in Revisions : r # 1 => request'[r] = "none"
        /\ request[1] \in Live => request'[1] = "cancelled"
        /\ request[1] \notin Live => request'[1] = request[1]
    BY <1>1, Numbers DEF RowsTyped, First, RequestStatus, Live
  <1> QED BY <1>1, <1>2, <1>3 DEF RowsTyped, EventsTyped, FlowsTyped, First, Generations, Begun, Asked

LEMMA RecoversStep ==
  ASSUME Inv, NEW r \in Revisions, ExecutorRecovers(r)
  PROVE  Inv' /\ r = 1 /\ request'[1] = "resolved"
  <1> USE DEF durable, attempts, inbox, execution, bounds, Inv, Typed
  <1>1. r = 1 /\ request[1] = "waiting_for_availability"
    BY DEF ExecutorRecovers, First
  <1>2. Activated(1) /\ request' = Resolved(1, request) /\ task' = "ready"
        /\ UNCHANGED <<attempts, early, app, inbox, execution, up, bounds>>
    BY <1>1 DEF ExecutorRecovers
  <1>3. request'[1] = "resolved"
    BY <1>1, <1>2, Numbers DEF Resolved, RowsTyped, Live
  <1> QED BY <1>1, <1>2, <1>3, ActivatedKeeps, ResolvedTyped
          DEF RowsTyped, EventsTyped, FlowsTyped, First, Begun, TaskStatus

\* A plan that a planning workflow of the session applies.
LEMMA PlanInSessionKeeps ==
  ASSUME Inv, NEW p \in plans, PlanInSession(p)
  PROVE  /\ RowsTyped' /\ EventsTyped' /\ First' /\ Generations' /\ Begun'
         /\ queued' \in BOOLEAN
  <1> USE DEF durable, attempts, inbox, execution, bounds, Inv, Typed
  <1>1. p.rev = 1 /\ p.verdict \in Verdicts
    BY DEF EventsTyped
  <1>2. plans' = plans \ {p}
        /\ UNCHANGED <<task, request, attempts, app, outcomes, dispatch, open, draining, asking, early, bounds>>
    BY DEF PlanInSession
  <1>3. /\ Generations' /\ active' \in Revisions /\ automatic' \subseteq Revisions
        /\ sub' \in [Revisions -> [Subtasks -> SubStatus]]
        /\ unapplied' \subseteq [rev : {1}, action : {"reject", "defer"}] /\ queued' \in BOOLEAN
    <2>1. CASE p.verdict = "executable"
      <3>1. Activated(1) /\ queued' = (queued \/ Fits(1) \/ Recovered(1)) /\ UNCHANGED unapplied
        BY <1>1, <2>1 DEF PlanInSession
      <3> QED BY <3>1, ActivatedKeeps DEF EventsTyped, FlowsTyped
    <2>2. CASE p.verdict = "unavailable"
      <3>1. /\ unapplied' = unapplied \union {[rev |-> 1, action |-> "defer"]}
            /\ UNCHANGED <<active, automatic, sub, queued>>
        BY <1>1, <2>2 DEF PlanInSession
      <3> QED BY <3>1 DEF RowsTyped, EventsTyped, FlowsTyped, Generations
    <2>3. CASE p.verdict = "invalid"
      <3>1. UNCHANGED <<active, automatic, sub, queued, unapplied>>
        BY <2>3 DEF PlanInSession
      <3> QED BY <3>1 DEF RowsTyped, EventsTyped, FlowsTyped, Generations
    <2> QED BY <1>1, <2>1, <2>2, <2>3, Numbers
  <1>4. request[1] \notin {"none", "pending_quiescence"}
    BY DEF Begun
  <1> QED BY <1>2, <1>3, <1>4 DEF RowsTyped, EventsTyped, First, Begun

LEMMA UserPlansStep ==
  ASSUME Inv, UserPlans
  PROVE  Inv'
  <1> USE DEF durable, attempts, inbox, execution, bounds, Inv, Typed
  <1>1. ASSUME NEW p \in plans, PlanInSession(p), UNCHANGED up PROVE Inv'
    BY <1>1, PlanInSessionKeeps DEF PlanInSession, FlowsTyped
  <1>2. ASSUME NEW u \in unapplied, unapplied' = unapplied \ {u}, UNCHANGED up,
               UNCHANGED <<durable, attempts, early, app, outcomes, plans, dispatch, execution, bounds>>
        PROVE  Inv'
    BY <1>2 DEF RowsTyped, EventsTyped, FlowsTyped, First, Generations, Begun, Asked
  <1> QED BY <1>1, <1>2 DEF UserPlans

LEMMA DeathStep ==
  ASSUME Inv, ProcessStops \/ StartupBlocked \/ \E f \in Executions, v \in Verdicts : CrashSubmitted(f, v)
  PROVE  Inv'
  <1> USE DEF durable, attempts, inbox, execution, bounds, Inv, Typed
  <1>1. CASE ProcessStops
    <2>1. /\ open' = {} /\ draining' = {} /\ asking' = [f \in Executions |-> 0] /\ queued' = FALSE /\ up' = FALSE
          /\ deaths' = deaths + 1 /\ UNCHANGED << durable, attempts, early, app, inbox >>
      BY <1>1 DEF ProcessStops
    <2>2. FlowsTyped'
      <3>1. asking' \in [Executions -> {0, 1}] /\ \A f \in Executions : asking'[f] = 0
        BY <2>1
      <3>2. deaths' \in Nat
        BY <2>1 DEF FlowsTyped
      <3> QED BY <2>1, <3>1, <3>2 DEF FlowsTyped
    <2>3. ~Asked'
      BY <2>1 DEF Asked
    <2> QED BY <2>1, <2>2, <2>3 DEF RowsTyped, EventsTyped, First, Generations, Begun
  <1>2. CASE StartupBlocked
    BY <1>2 DEF StartupBlocked, Blocked, RowsTyped, EventsTyped, FlowsTyped, First, Generations,
                Begun, Asked, TaskStatus
  <1>3. ASSUME NEW f \in Executions, NEW v \in Verdicts, CrashSubmitted(f, v) PROVE Inv'
    <2>1. asking[f] = 1
      BY <1>3 DEF CrashSubmitted, FlowsTyped
    <2>2. /\ request' = [request EXCEPT ![1] = "submitted"]
          /\ plans' = plans \union {[rev |-> 1, verdict |-> v]}
          /\ open' = {} /\ draining' = {} /\ asking' = [g \in Executions |-> 0] /\ queued' = FALSE /\ up' = FALSE
          /\ deaths' = deaths + 1
          /\ UNCHANGED <<task, active, automatic, sub, attempts, early, app, outcomes, dispatch, unapplied>>
      BY <1>3, <2>1 DEF CrashSubmitted, Submitted
    <2>3. /\ request' \in [Revisions -> RequestStatus] /\ request'[1] = "submitted"
          /\ \A r \in Revisions : r # 1 => request'[r] = "none"
      BY <2>2, Numbers DEF RowsTyped, First, RequestStatus, Live
    <2>4. FlowsTyped'
      <3>1. asking' \in [Executions -> {0, 1}] /\ \A g \in Executions : asking'[g] = 0
        BY <2>2
      <3>2. deaths' \in Nat
        BY <2>2 DEF FlowsTyped
      <3> QED BY <2>2, <3>1, <3>2 DEF FlowsTyped
    <2>5. EventsTyped'
      BY <2>2 DEF EventsTyped
    <2> QED BY <2>2, <2>3, <2>4, <2>5 DEF RowsTyped, First, Generations, Begun
  <1> QED BY <1>1, <1>2, <1>3

LEMMA StartupStep ==
  ASSUME Inv, Startup
  PROVE  Inv'
  <1> USE DEF durable, attempts, inbox, execution, bounds, Inv, Typed
  <1>1. ASSUME NEW p \in plans, PlanInSession(p), UNCHANGED up PROVE Inv'
    BY <1>1, PlanInSessionKeeps DEF PlanInSession, FlowsTyped
  <1>2. CASE plans = {} /\ up' = TRUE /\ Reconciled
    <2>1. app' \in [Revisions -> AppStatus] /\ \A r \in Revisions : r # 1 => app'[r] = "none"
      BY <1>2 DEF Reconciled, RowsTyped, First, AppStatus
    <2>2. /\ working' = {} /\ holding' = {} /\ unapplied' \subseteq unapplied
          /\ open' \in {{"timer"}, {}} /\ draining' = open'
          /\ UNCHANGED <<task, active, automatic, request, plans, dispatch, asking, queued, early, bounds>>
      BY <1>2 DEF Startup
    <2>3. PICK lost \in SUBSET working :
            sub' = [r \in Revisions |-> [s \in Subtasks |->
                      IF <<r, s>> \in lost THEN "awaiting_decision" ELSE sub[r][s]]]
      BY <1>2 DEF Startup
    <2>4. sub' \in [Revisions -> [Subtasks -> SubStatus]]
      BY <2>3 DEF RowsTyped, SubStatus
    <2>5. outcomes' \subseteq Outcomes
      <3>1. PICK found \in SUBSET (Revisions \X Subtasks) :
              outcomes' = outcomes \union {[rev |-> w[1], sub |-> w[2], failure |-> "unknown"] : w \in found}
        <4> DEFINE vanished == {w \in working : sub[w[1]][w[2]] = "running"} \union holding
                   left == {w \in {active} \X Subtasks : sub[active][w[2]] \notin Closed}
                   idle == vanished = {} /\ task = "running" /\ NoRecoverableWork
                   orphans == IF idle THEN left ELSE vanished
        <4>1. \E found \in (IF idle /\ orphans # {} THEN {{w} : w \in orphans} ELSE {orphans}) :
                outcomes' = outcomes \union
                  {[rev |-> w[1], sub |-> w[2], failure |-> "unknown"] : w \in found}
          BY <1>2 DEF Startup
        <4>2. orphans \subseteq Revisions \X Subtasks
          BY DEF EventsTyped, RowsTyped
        <4> HIDE DEF orphans, idle
        <4>3. (IF idle /\ orphans # {} THEN {{w} : w \in orphans} ELSE {orphans})
                \subseteq SUBSET (Revisions \X Subtasks)
          BY <4>2
        <4> QED BY <4>1, <4>3
      <3>2. \A w \in found : w[1] \in Revisions /\ w[2] \in Subtasks
        OBVIOUS
      <3> QED BY <3>1, <3>2 DEF EventsTyped, Outcomes
    <2>6. \A f \in Executions : asking[f] = 0
      BY <1>2 DEF Startup, FlowsTyped
    <2>7. FlowsTyped'
      BY <1>2, <2>2, <2>6 DEF FlowsTyped, Executions
    <2>8. EventsTyped'
      BY <2>2, <2>5 DEF EventsTyped
    <2>9. Begun'
      BY <2>2 DEF Begun, Asked
    <2> QED BY <2>1, <2>2, <2>4, <2>7, <2>8, <2>9 DEF RowsTyped, First, Generations
  <1> QED BY <1>1, <1>2 DEF Startup
LEMMA Inductive ==
  ASSUME Inv, [NextReplan]_replanning
  PROVE  Inv'
  <1>1. CASE UNCHANGED replanning
    BY <1>1 DEF replanning, durable, attempts, inbox, execution, bounds, Inv, Typed, RowsTyped, EventsTyped, FlowsTyped,
                First, Generations, Begun, Asked
  <1>2. ASSUME NEW f \in Executions, Turn(f) PROVE Inv'
    BY <1>2, AskStep, DispatchStep, OutcomeStep, PlanStep, DeferralStep, SettleStep,
        ReleaseStep, IntegratesStep DEF Turn
  <1>3. ASSUME NEW f \in Executions, Answered(f) PROVE Inv'
    BY <1>3, FailStep, AnswerStep DEF Answered
  <1> QED BY <1>1, <1>2, <1>3, LandsStep, ReleaseStep, SettleStep, CancelStep, UserPlansStep, RecoversStep,
             DeathStep, StartupStep DEF NextReplan

-------------------------------------------------------------------------------
\* A process that has not died stays calm, action by action.

\* Steps after which Explained and Stages read what they read before.
LEMMA SameStages ==
  ASSUME Inv, Stages, active' = active, request'[1] = request[1], app'[1] = app[1],
         asking' = asking, unapplied' \subseteq unapplied
  PROVE  Stages'
  BY DEF Stages, Asked

\* A Subtask that is done was done, and its generation is the same.
LEMMA NothingNewDone ==
  ASSUME Inv, active' = active,
         \A s \in Subtasks : sub'[active][s] = "done" => sub[active][s] = "done"
  PROVE  AllDone' => AllDone
  BY DEF AllDone

\* The attempts and the executions are left alone, and nothing new waits.
LEMMA SameWatch ==
  ASSUME Inv, Watched, UNCHANGED << attempts, open, draining >>,
         Nothing => Nothing' \/ draining # {}, AllDone' => AllDone
  PROVE  Watched'
  BY DEF Watched, attempts

\* The graph that a plan activates has Subtasks to run.
LEMMA ActivatedIsNotDone ==
  ASSUME Inv, Activated(1), Fits(1)
  PROVE  ~AllDone'
  <1>1. active' = 2 /\ sub'[2] = [s \in Subtasks |-> "ready"]
    BY Numbers DEF Activated, Fits, Superseded, Inv, Typed, RowsTyped
  <1>2. PICK s : s \in Subtasks
    BY ReplanAssumption
  <1> QED BY <1>1, <1>2 DEF AllDone

LEMMA LandsCalm ==
  ASSUME Inv, Calm, NEW r \in Revisions, NEW s \in Subtasks, AttemptLands(r, s)
  PROVE  Calm'
  <1> USE DEF durable, attempts, inbox, execution, bounds
  <1>1. /\ UNCHANGED <<task, active, request, app, plans, unapplied, open, draining, asking, queued, up>>
        /\ outcomes' # {} /\ early' = early
    BY DEF AttemptLands
  <1>2. Explained => Explained'
    <2>1. ASSUME NEW q \in Subtasks, sub[active][q] \in {"cancelled", "awaiting_integration"}
          PROVE  sub'[active][q] = sub[active][q]
      BY <2>1 DEF AttemptLands, Inv, Typed, RowsTyped
    <2> QED BY <1>1, <2>1 DEF Explained
  <1>3. Stages'
    BY <1>1, SameStages DEF Calm
  <1>4. Watched'
    <2>1. working # {} /\ holding' # {} /\ open' = open
      BY DEF AttemptLands
    <2>2. AllDone' => AllDone
      <3>1. ASSUME NEW q \in Subtasks, sub'[active][q] = "done" PROVE sub[active][q] = "done"
        BY <3>1 DEF AttemptLands, Inv, Typed, RowsTyped
      <3> QED BY <1>1, <3>1, NothingNewDone
    <2> QED BY <2>1, <2>2 DEF Calm, Watched
  <1> QED BY <1>1, <1>2, <1>3, <1>4 DEF Calm, Progress, Attended, Work

LEMMA ReleaseCalm ==
  ASSUME Inv, Calm, NEW w \in holding, AttemptReleases(w)
  PROVE  Calm'
  <1> USE DEF durable, inbox, bounds
  <1>1. /\ UNCHANGED <<task, active, sub, request, working, app, outcomes, plans, dispatch, unapplied,
                       open, asking, queued, up, early>>
        /\ holding' = holding \ {w}
    BY DEF AttemptReleases
  <1>2. Stages'
    BY <1>1, SameStages DEF Calm
  <1>3. Progress' /\ Attended'
    BY <1>1 DEF Calm, Progress, Attended, Work, Explained
  <1>4. Watched'
    <2>1. open # {}
      BY DEF Calm, Watched
    <2>2. draining' # {}
      BY <2>1 DEF AttemptReleases
    <2>3. ~AllDone'
      BY <1>1 DEF Calm, Watched, AllDone
    <2> QED BY <1>1, <2>1, <2>2, <2>3 DEF Watched
  <1> QED BY <1>1, <1>2, <1>3, <1>4 DEF Calm

LEMMA DrainEndsCalm ==
  ASSUME Inv, Calm, NEW f \in Executions, DrainEnds(f)
  PROVE  Calm'
  <1> USE DEF durable, attempts, inbox, bounds
  <1>1. /\ UNCHANGED <<task, active, sub, request, working, holding, app, outcomes, plans, dispatch,
                       unapplied, open, asking, queued, up, early>>
        /\ Nothing
    BY DEF DrainEnds
  <1>2. Stages'
    BY <1>1, SameStages DEF Calm
  <1>3. Progress' /\ Attended'
    BY <1>1 DEF Calm, Progress, Attended, Work, Explained
  <1>4. Nothing' /\ (AllDone' <=> AllDone)
    BY <1>1 DEF Nothing, NoApplication, AllDone
  <1>5. Watched'
    BY <1>1, <1>4 DEF Calm, Watched
  <1> QED BY <1>1, <1>2, <1>3, <1>5 DEF Calm

LEMMA IntegratesCalm ==
  ASSUME Inv, Calm, NEW f \in Executions, NEW S \in SUBSET Awaiting, Integrates(f, S)
  PROVE  Calm'
  <1> USE DEF durable, attempts, inbox, bounds
  <1>1. /\ UNCHANGED <<task, active, request, working, holding, app, outcomes, plans, unapplied,
                       open, asking, queued, up, early>>
        /\ dispatch' = TRUE /\ f \in open /\ f \in draining' /\ working = {} /\ holding = {}
    BY DEF Integrates, OutOfEvents
  <1>2. Stages'
    BY <1>1, SameStages DEF Calm
  <1>3. Progress' /\ Attended'
    BY <1>1 DEF Calm, Progress, Attended, Work
  <1>4. Watched'
    BY <1>1 DEF Watched
  <1> QED BY <1>1, <1>2, <1>3, <1>4 DEF Calm

LEMMA ApproveCalm ==
  ASSUME Inv, Calm, Approve
  PROVE  Calm'
  <1> USE DEF durable, attempts, inbox, bounds
  <1>1. /\ UNCHANGED <<task, active, sub, request, working, holding, app, outcomes, plans, dispatch,
                       unapplied, open, draining, asking, up, early>>
        /\ queued'
    BY DEF Approve
  <1>2. Stages'
    BY <1>1, SameStages DEF Calm
  <1>3. Progress' /\ Attended'
    BY <1>1 DEF Calm, Progress, Attended, Work, Explained
  <1>4. (Nothing' <=> Nothing) /\ (AllDone' <=> AllDone)
    BY <1>1 DEF Nothing, NoApplication, AllDone
  <1>5. Watched'
    BY <1>1, <1>4 DEF Calm, Watched
  <1> QED BY <1>1, <1>2, <1>3, <1>5 DEF Calm

LEMMA AskCalm ==
  ASSUME Inv, Calm, NEW f \in Executions, NEW r \in Revisions, AskPlanner(f, r)
  PROVE  Calm'
  <1> USE DEF durable, attempts, inbox, execution, bounds
  <1>1. r = 1
    BY AskStep
  <1>2. /\ UNCHANGED <<task, active, sub, attempts, early, outcomes, plans, dispatch, unapplied, open, draining, queued, up>>
        /\ f \in draining /\ app[1] = "pending"
    BY <1>1 DEF AskPlanner, Draining
  <1>5. Watched'
    BY <1>2, NothingNewDone, SameWatch DEF Calm
  <1>6. f \in open
    BY <1>2 DEF Inv, Typed, FlowsTyped
  <1>3. CASE request[1] \in {"pending_quiescence", "planning"}
    <2>1. request'[1] = "planning" /\ app'[1] = "applying" /\ asking'[f] = 1
      BY <1>1, <1>3, Numbers DEF AskPlanner, Inv, Typed, RowsTyped, FlowsTyped
    <2>2. Asked'
      BY <2>1 DEF Asked
    <2>3. active # 2 /\ unapplied = {}
      BY <1>3 DEF Calm, Stages, Live
    <2>4. Stages'
      BY <1>2, <2>1, <2>2, <2>3 DEF Stages
    <2> QED BY <1>2, <1>5, <1>6, <2>1, <2>4 DEF Calm, Progress, Attended
  <1>4. CASE request[1] \notin {"pending_quiescence", "planning"}
    <2>1. app'[1] = "applied" /\ request' = request /\ asking' = asking
      BY <1>1, <1>4, Numbers DEF AskPlanner, Inv, Typed, RowsTyped
    <2>2. Stages'
      BY <1>2, <1>4, <2>1 DEF Calm, Stages, Asked
    <2>3. Progress'
      BY <1>2, <1>4, <2>1 DEF Calm, Progress, Work, Explained
    <2> QED BY <1>2, <1>5, <1>6, <2>2, <2>3 DEF Calm, Attended
  <1> QED BY <1>3, <1>4

LEMMA AnswerCalm ==
  ASSUME Inv, Calm, NEW f \in Executions, NEW v \in Verdicts, PlannerAnswers(f, v)
  PROVE  Calm'
  <1> USE DEF durable, attempts, inbox, execution, bounds
  <1>1. asking[f] = 1 /\ f \in draining /\ f \in open
    BY AnswerStep DEF Inv, Typed, FlowsTyped
  <1>2. /\ UNCHANGED <<attempts, early, outcomes, plans, open, draining, queued, up>>
        /\ app'[1] = (IF app[1] = "applying" THEN "applied" ELSE app[1])
        /\ asking' = [asking EXCEPT ![f] = 0]
        /\ IF MaySubmit(1) THEN Admitted(1, v, Submitted(1))
                           ELSE UNCHANGED <<task, active, automatic, sub, request, dispatch, unapplied>>
    BY <1>1, Numbers DEF PlannerAnswers, Inv, Typed, RowsTyped
  <1>3. request[1] \notin {"none", "pending_quiescence"}
    BY <1>1 DEF Inv, Begun, Asked
  <1>4. CASE ~MaySubmit(1)
    <2>1. request[1] # "planning" /\ UNCHANGED <<task, active, sub, request, dispatch, unapplied>>
      BY <1>2, <1>4 DEF MaySubmit
    <2>2. Stages'
      BY <1>2, <1>3, <2>1 DEF Calm, Stages
    <2>3. Progress'
      BY <1>2, <1>3, <2>1 DEF Calm, Progress, Work, Explained
    <2>4. Watched'
      BY <1>1, <1>2, <2>1, NothingNewDone, SameWatch DEF Calm
    <2> QED BY <1>1, <1>2, <2>1, <2>2, <2>3, <2>4 DEF Calm, Attended
  <1>5. CASE MaySubmit(1)
    <2>1. /\ request[1] = "planning" /\ active = 1 /\ unapplied = {} /\ app[1] # "uncertain"
          /\ Submitted(1) \in [Revisions -> RequestStatus] /\ Submitted(1)[1] = "submitted"
      BY <1>5, Numbers DEF MaySubmit, Submitted, Calm, Stages, Inv, Generations, Typed, RowsTyped,
                           RequestStatus, Live
    <2>2. Admitted(1, v, Submitted(1))
      BY <1>2, <1>5
    <2>3. CASE v = "executable"
      <3>1. /\ Activated(1) /\ Fits(1) /\ UNCHANGED unapplied /\ dispatch' = TRUE
            /\ request' = Resolved(1, Submitted(1))
        BY <2>1, <2>2, <2>3 DEF Admitted, Fits
      <3>2. request'[1] = "resolved"
        BY <2>1, <3>1, Numbers DEF Resolved, Live
      <3>3. Stages'
        BY <1>2, <2>1, <3>1, <3>2 DEF Stages, Live
      <3>4. Watched'
        <4>1. ~AllDone'
          BY <3>1, ActivatedIsNotDone
        <4> QED BY <1>1, <1>2, <4>1, SameWatch DEF Calm
      <3> QED BY <1>1, <1>2, <2>1, <3>1, <3>3, <3>4 DEF Calm, Progress, Attended, Work
    <2>4. CASE v = "unavailable"
      <3>1. /\ request' = Deferred(Submitted(1), 1)
            /\ task' = (IF request' # Submitted(1) THEN Blocked(task) ELSE task)
            /\ UNCHANGED <<active, sub, unapplied>>
        BY <2>2, <2>4 DEF Admitted
      <3>2. request'[1] = "waiting_for_availability"
        BY <2>1, <3>1, Numbers DEF Deferred
      <3>3. task' # "running"
        BY <2>1, <3>1, <3>2 DEF Blocked
      <3>4. Stages'
        BY <1>2, <2>1, <3>1, <3>2 DEF Stages
      <3>5. Watched'
        BY <1>1, <1>2, <3>1, NothingNewDone, SameWatch DEF Calm
      <3> QED BY <1>2, <2>1, <3>1, <3>3, <3>4, <3>5 DEF Calm, Progress, Attended
    <2>5. CASE v = "invalid"
      <3>1. /\ request' = Submitted(1)
            /\ unapplied' = {[rev |-> 1, action |-> "reject"]}
            /\ UNCHANGED <<active, sub>>
        BY <2>1, <2>2, <2>5 DEF Admitted
      <3>2. Explained'
        BY <2>1, <3>1 DEF Explained
      <3>3. Stages'
        BY <1>2, <2>1, <3>1 DEF Stages
      <3>4. Watched'
        BY <1>1, <1>2, <3>1, NothingNewDone, SameWatch DEF Calm
      <3> QED BY <1>2, <3>1, <3>2, <3>3, <3>4 DEF Calm, Progress, Attended
    <2> QED BY <2>3, <2>4, <2>5, Numbers
  <1> QED BY <1>4, <1>5

LEMMA FailCalm ==
  ASSUME Inv, Calm, NEW f \in Executions, PlannerFails(f)
  PROVE  Calm'
  <1> USE DEF durable, attempts, inbox, execution, bounds
  <1>1. asking[f] = 1 /\ f \in draining /\ f \in open
    BY FailStep DEF Inv, Typed, FlowsTyped
  <1>2. /\ request'[1] = (IF request[1] \in {"pending_quiescence", "planning"} THEN "failed" ELSE request[1])
        /\ app'[1] = (IF app[1] = "applying" THEN "uncertain" ELSE app[1])
        /\ UNCHANGED <<task, active, sub, attempts, early, outcomes, plans, dispatch, unapplied, open, draining, queued, up>>
    BY <1>1, Numbers DEF PlannerFails, Inv, Typed, RowsTyped
  <1>3. request[1] \notin {"none", "pending_quiescence"}
    BY <1>1 DEF Inv, Begun, Asked
  <1>4. Stages'
    BY <1>2, <1>3 DEF Calm, Stages, Live
  <1>5. Progress'
    BY <1>2, <1>3 DEF Calm, Progress, Work, Explained
  <1>6. Watched'
    BY <1>1, <1>2, NothingNewDone, SameWatch DEF Calm
  <1> QED BY <1>1, <1>2, <1>4, <1>5, <1>6 DEF Calm, Attended

\* Every decision to dispatch that leaves the Task running leaves something that
\* will ask for the next one, or an explanation.
LEMMA DispatchCalm ==
  ASSUME Inv, Calm, NoApplication, DecideDispatch, UNCHANGED << unapplied, asking >>
  PROVE  /\ Stages'
         /\ task' = "running" /\ ~Explained' =>
              \/ working' # {}
              \/ request'[1] = "planning"
              \/ request'[1] = "pending_quiescence" /\ app'[1] = "pending"
  <1>1. UNCHANGED << active, request >>
    BY DEF DecideDispatch, LaunchReady, Replan, Finish, Stall
  <1>2. app[1] # "pending"
    BY Numbers DEF NoApplication
  <1>3. CASE LaunchReady
    <2>1. app' = app /\ working' # {}
      <3>1. PICK s : s \in Dispatchable
        BY <1>3 DEF LaunchReady
      <3>2. << active, s >> \in working'
        BY <1>3, <3>1 DEF LaunchReady
      <3> QED BY <1>3, <3>2 DEF LaunchReady
    <2>2. Stages'
      BY <1>1, <2>1, SameStages DEF Calm
    <2> QED BY <2>1, <2>2
  <1>4. CASE ~LaunchReady
    <2>1. UNCHANGED << sub, working >> /\ Dispatchable = {}
      BY <1>4 DEF DecideDispatch, Replan, Finish, Stall
    <2>2. Awaiting = {} \/ Explained'
      BY <1>1, <2>1 DEF Awaiting, Explained
    <2>3. Ready # {} => working # {}
      BY <2>1 DEF Dispatchable
    <2>4. CASE Replan
      <3>1. request[1] = "pending_quiescence" /\ active = 1 /\ task' = task
        BY <2>4, ActiveIs DEF Replan, Inv, Begun, Generations
      <3>2. app[1] = "none"
        BY <1>2, <3>1 DEF Calm, Stages
      <3>3. app'[1] = IF Quiescent THEN "pending" ELSE "none"
        BY <2>4, <3>1, <3>2, Numbers DEF Replan, Inv, Typed, RowsTyped
      <3>4. ~Quiescent => working # {} \/ Explained'
        <4>1. early' <=> (Ready = {} /\ working = {} /\ holding # {})
          BY <2>4 DEF Replan
        <4>2. early' => Explained'
          BY <1>1, <3>1 DEF Explained
        <4> QED BY <2>2, <2>3, <4>1, <4>2 DEF Quiescent
      <3>5. Stages'
        BY <1>1, <3>1, <3>3 DEF Calm, Stages, Asked
      <3> QED BY <1>1, <2>1, <3>1, <3>3, <3>4, <3>5
    <2>5. CASE Finish \/ Stall
      <3>1. app' = app /\ early' = early
        BY <2>5 DEF Finish, Stall
      <3>2. Stages'
        BY <1>1, <3>1, SameStages DEF Calm
      <3>3. ASSUME task' = "running", ~Explained'
            PROVE  working # {} \/ request[1] = "planning"
        <4>0. ~Explained /\ Awaiting = {}
          BY <1>1, <2>1, <2>2, <3>1, <3>3 DEF Explained
        <4>1. CASE Stall
          BY <3>3, <4>0, <4>1 DEF Stall, Blocked
        <4>2. CASE Finish
          <5>1. Residue
            BY <3>3, <4>2 DEF Finish
          <5>2. request[1] # "pending_quiescence"
            BY <4>2, ActiveIs, Numbers DEF Finish, Waits, Live
          <5>3. CASE \E r \in Revisions : request[r] \in Live \ {"waiting_for_availability"}
            BY <4>0, <5>2, <5>3 DEF Inv, First, Live, Explained
          <5>4. CASE \E r \in Revisions : app[r] \in {"pending", "applying", "uncertain"}
            BY <1>2, <4>0, <5>4 DEF Inv, First, Explained, Calm, Stages
          <5>5. CASE unapplied # {}
            BY <4>0, <5>5 DEF Explained, Calm, Stages
          <5>6. holding = {}
            BY <4>2 DEF Finish, Calm, Watched
          <5> QED BY <4>0, <5>1, <5>3, <5>4, <5>5, <5>6 DEF Residue
        <4> QED BY <2>5, <4>1, <4>2
      <3> QED BY <1>1, <2>1, <3>2, <3>3
    <2> QED BY <1>4, <2>4, <2>5 DEF DecideDispatch
  <1> QED BY <1>3, <1>4
\* Nothing is launched in a generation that is done, or makes it done.
LEMMA DispatchWatched ==
  ASSUME Inv, Watched, DecideDispatch
  PROVE  AllDone' => working' = {} /\ holding' = {}
  <1>1. active' = active /\ holding' = holding
    BY DEF DecideDispatch, LaunchReady, Replan, Finish, Stall
  <1>2. CASE LaunchReady
    <2>1. PICK s \in Subtasks : s \in Dispatchable
      BY <1>2 DEF LaunchReady, Dispatchable, Ready
    <2>2. sub'[active][s] = "running"
      BY <1>2, <2>1 DEF LaunchReady, Inv, Typed, RowsTyped
    <2> QED BY <1>1, <2>1, <2>2 DEF AllDone
  <1>3. CASE ~LaunchReady
    <2>1. UNCHANGED << sub, working >>
      BY <1>3 DEF DecideDispatch, Replan, Finish, Stall
    <2> QED BY <1>1, <2>1 DEF AllDone, Watched
  <1> QED BY <1>2, <1>3

LEMMA HandleCalm ==
  ASSUME Inv, Calm, NEW f \in Executions,
         HandleDispatch(f) \/ \E o \in outcomes : HandleOutcome(f, o)
  PROVE  Calm'
  <1> USE DEF durable, attempts, inbox, execution, bounds
  <1>1. /\ f \in draining /\ NoApplication
        /\ UNCHANGED <<plans, unapplied, open, draining, asking, queued, up>>
    BY DEF HandleDispatch, HandleOutcome, Draining
  <1>5. f \in open /\ open' # {} /\ draining' # {}
    BY <1>1 DEF Inv, Typed, FlowsTyped
  <1>2. CASE DecideDispatch
    <2>1. /\ Stages'
          /\ task' = "running" /\ ~Explained' =>
               \/ working' # {}
               \/ request'[1] = "planning"
               \/ request'[1] = "pending_quiescence" /\ app'[1] = "pending"
      BY <1>1, <1>2, DispatchCalm
    <2>2. Watched'
      BY <1>2, <1>5, DispatchWatched DEF Calm, Watched
    <2> QED BY <1>1, <1>5, <2>1, <2>2 DEF Calm, Progress, Attended, Work
  <1>3. ASSUME NEW o \in outcomes, HandleOutcome(f, o), ~DecideDispatch
        PROVE  Calm'
    <2>1. CASE BlockWork(o) \/ ParkForReplan
      <3>1. task' # "running" /\ UNCHANGED <<active, request, app>>
        BY <2>1 DEF BlockWork, Blocked, ParkForReplan
      <3>2. Stages'
        BY <1>1, <3>1, SameStages DEF Calm
      <3>3. AllDone' => AllDone
        <4>1. \A s \in Subtasks : sub'[active][s] = "done" => sub[active][s] = "done"
          BY <2>1 DEF BlockWork, ParkForReplan, Inv, Typed, RowsTyped
        <4> QED BY <3>1, <4>1, NothingNewDone
      <3>4. Watched'
        <4>1. UNCHANGED attempts
          BY <2>1 DEF BlockWork, ParkForReplan
        <4> QED BY <1>1, <1>5, <3>3, <4>1, SameWatch DEF Calm
      <3> QED BY <1>1, <3>1, <3>2, <3>4 DEF Calm, Progress, Attended
    <2>2. CASE QueueReplan(o)
      <3>1. /\ dispatch' = TRUE /\ UNCHANGED <<active, app>>
            /\ request'[1] = request[1] \/ (request[1] = "none" /\ request'[1] = "pending_quiescence")
        BY <2>2, Numbers DEF QueueReplan, Inv, Typed, RowsTyped
      <3>2. Stages'
        <4>1. CASE request'[1] = request[1]
          BY <1>1, <3>1, <4>1, SameStages DEF Calm
        <4>2. CASE request[1] = "none" /\ request'[1] = "pending_quiescence"
          <5>1. active # 2 /\ unapplied = {}
            BY <4>2 DEF Inv, Begun
          <5> QED BY <1>1, <3>1, <4>2, <5>1 DEF Calm, Stages
        <4> QED BY <3>1, <4>1, <4>2
      <3>3. UNCHANGED <<attempts, sub, active>>
        BY <2>2 DEF QueueReplan
      <3>4. Watched'
        BY <1>1, <1>5, <3>3, NothingNewDone, SameWatch DEF Calm
      <3> QED BY <1>1, <1>5, <3>1, <3>2, <3>4 DEF Calm, Progress, Attended, Work
    <2>3. CASE /\ o.rev = active /\ (task = "cancelled" \/ sub[o.rev][o.sub] = "cancelled")
               /\ UNCHANGED <<durable, attempts, app, early, dispatch>>
      <3>1. task' # "running" \/ Explained'
        BY <2>3 DEF Explained, Inv, Typed, EventsTyped, Outcomes
      <3>2. Stages'
        BY <1>1, <2>3, SameStages DEF Calm
      <3>3. Watched'
        BY <1>1, <1>5, <2>3, NothingNewDone, SameWatch DEF Calm
      <3> QED BY <1>1, <3>1, <3>2, <3>3 DEF Calm, Progress, Attended
    <2> QED BY <1>3, <2>1, <2>2, <2>3 DEF HandleOutcome
  <1> QED BY <1>2, <1>3 DEF HandleDispatch

LEMMA ReturnCalm ==
  ASSUME Inv, Calm, NEW f \in Executions, Return(f)
  PROVE  Calm'
  <1> USE DEF durable, attempts, inbox, execution, bounds
  <1>1. /\ f \in open \ draining /\ open' = open \ {f} /\ working = {} /\ holding = {}
        /\ task' = "running" => task = "running"
        /\ UNCHANGED <<active, sub, request, working, holding, app, outcomes, plans, dispatch, unapplied,
                       draining, asking, queued, up, early>>
    BY DEF Return, OutOfEvents
  <1>2. Stages'
    BY <1>1, SameStages DEF Calm
  <1>3. Progress'
    BY <1>1 DEF Calm, Progress, Work, Explained
  <1>4. ASSUME task = "running", ~Explained PROVE open' # {}
    <2>1. draining # {}
      <3>1. CASE request[1] = "planning"
        BY <3>1 DEF Calm, Stages, Asked, Inv, Typed, FlowsTyped
      <3>2. CASE request[1] # "planning"
        <4>1. dispatch \/ outcomes # {} \/ app[1] = "pending"
          BY <1>1, <1>4, <3>2 DEF Calm, Progress, Work
        <4>2. ~Nothing
          BY <4>1, Numbers DEF Nothing, NoApplication
        <4> QED BY <1>1, <4>2 DEF Calm, Watched
      <3> QED BY <3>1, <3>2
    <2>2. PICK g \in draining : TRUE
      BY <2>1
    <2>3. g \in open /\ g # f
      BY <1>1, <2>2 DEF Inv, Typed, FlowsTyped
    <2> QED BY <1>1, <2>3
  <1>5. Explained' <=> Explained
    BY <1>1 DEF Explained
  <1>6. (Nothing' <=> Nothing) /\ (AllDone' <=> AllDone)
    BY <1>1 DEF Nothing, NoApplication, AllDone
  <1>7. Watched'
    BY <1>1, <1>6 DEF Calm, Watched
  <1> QED BY <1>1, <1>2, <1>3, <1>4, <1>5, <1>7 DEF Calm, Attended

LEMMA SettleCalm ==
  ASSUME Inv, Calm, Resume \/ Begin \/ TimerRecovers
  PROVE  Calm'
  <1> USE DEF durable, attempts, inbox, execution, bounds
  <1>1. /\ UNCHANGED <<active, request, plans, unapplied, asking, up>>
        /\ task' # "running" \/ (dispatch' = TRUE /\ open' # {})
    BY DEF Resume, Begin, TimerRecovers
  <1>2. app'[1] = app[1] \/ (app[1] = "applying" /\ app'[1] = "pending")
    BY Numbers DEF Resume, Begin, TimerRecovers, Reconciled
  <1>3. Stages'
    BY <1>1, <1>2 DEF Calm, Stages, Asked
  <1>4. Watched'
    <2>1. active' = active /\ working' = working /\ holding' = holding
      BY DEF Resume, Begin, TimerRecovers
    <2>2. \A s \in Subtasks : sub'[active][s] = "done" => sub[active][s] = "done"
      BY DEF Resume, Begin, TimerRecovers, Inv, Typed, RowsTyped
    <2>3. AllDone' => AllDone
      BY <2>1, <2>2, NothingNewDone
    <2>4. CASE Resume
      <3>1. Nothing => Nothing'
        BY <2>4 DEF Resume, Nothing, NoApplication
      <3> QED BY <2>3, <2>4, <3>1, SameWatch DEF Resume, Calm
    <2>5. CASE Begin \/ TimerRecovers
      <3>1. draining' # {} /\ open' # {}
        BY <2>5 DEF Begin, TimerRecovers
      <3> QED BY <2>1, <2>3, <3>1 DEF Calm, Watched
    <2> QED BY <2>4, <2>5
  <1> QED BY <1>1, <1>3, <1>4 DEF Calm, Progress, Attended, Work

LEMMA CancelCalm ==
  ASSUME Inv, Calm, CancelTask \/ \E s \in Subtasks : CancelSubtask(s)
  PROVE  Calm'
  <1> USE DEF durable, attempts, inbox, execution, bounds
  <1>1. UNCHANGED <<active, app, plans, unapplied, asking, up>>
    BY DEF CancelTask, CancelSubtask
  <1>2. /\ request[1] \in Live => request'[1] = "cancelled"
        /\ request[1] \notin Live => request'[1] = request[1]
    BY CancelStep
  <1>3. task' # "running" \/ Explained'
    <2>1. CASE CancelTask
      BY <2>1 DEF CancelTask
    <2>2. ASSUME NEW s \in Subtasks, CancelSubtask(s) PROVE Explained'
      BY <2>2 DEF CancelSubtask, Explained, Inv, Typed, RowsTyped
    <2> QED BY <2>1, <2>2
  <1>4. Stages'
    BY <1>1, <1>2 DEF Calm, Stages, Asked, Live
  <1>5. Watched'
    <2>1. Nothing => Nothing'
      BY DEF CancelTask, CancelSubtask, Nothing, NoApplication
    <2>2. \A s \in Subtasks : sub'[active][s] = "done" => sub[active][s] = "done"
      BY DEF CancelTask, CancelSubtask, Inv, Typed, RowsTyped
    <2>3. AllDone' => AllDone
      BY <1>1, <2>2, NothingNewDone
    <2>4. UNCHANGED << attempts, open, draining >>
      BY DEF CancelTask, CancelSubtask
    <2> QED BY <2>1, <2>3, <2>4, SameWatch DEF Calm
  <1> QED BY <1>1, <1>3, <1>4, <1>5 DEF Calm, Progress, Attended

LEMMA RecoversCalm ==
  ASSUME Inv, Calm, NEW r \in Revisions, ExecutorRecovers(r)
  PROVE  Calm'
  <1> USE DEF durable, attempts, inbox, execution, bounds
  <1>1. r = 1 /\ request'[1] = "resolved" /\ request[1] = "waiting_for_availability"
    BY RecoversStep DEF ExecutorRecovers
  <1>2. task' = "ready" /\ UNCHANGED <<app, plans, unapplied, asking, up>>
    BY DEF ExecutorRecovers
  <1>3. Stages'
    BY <1>1, <1>2 DEF Calm, Stages, Live
  <1>4. Watched'
    <2>1. Activated(1) /\ Fits(1) /\ UNCHANGED << working, holding, app, outcomes, plans, dispatch, unapplied,
                                                  open, draining >>
      BY <1>1 DEF ExecutorRecovers
    <2>2. ~AllDone'
      BY <2>1, ActivatedIsNotDone
    <2>3. Nothing => Nothing'
      BY <2>1 DEF Nothing, NoApplication
    <2> QED BY <2>1, <2>2, <2>3, SameWatch DEF Calm
  <1> QED BY <1>2, <1>3, <1>4 DEF Calm, Progress, Attended

\* What only a process that has died before can do.
LEMMA NeverCalm ==
  ASSUME Inv, Calm
  PROVE  /\ \A f \in Executions : /\ ~\E p \in plans : HandlePlan(f, p)
                             /\ ~\E u \in unapplied : HandleDeferral(f, u)
         /\ ~\E p \in plans : PlanInSession(p)
         /\ ~StartupBlocked /\ ~Startup
  BY DEF Calm, HandleDeferral, StartupBlocked, Startup

LEMMA UserPlansCalm ==
  ASSUME Inv, Calm, UserPlans
  PROVE  Calm'
  <1> USE DEF durable, attempts, inbox, execution, bounds
  <1>1. PICK u \in unapplied :
          /\ unapplied' = unapplied \ {u}
          /\ UNCHANGED <<durable, attempts, early, app, outcomes, plans, dispatch, execution, bounds>>
    BY NeverCalm DEF UserPlans
  <1>2. UNCHANGED up
    BY DEF UserPlans
  <1>3. Stages'
    BY <1>1, SameStages DEF Calm
  <1>4. Watched'
    <2>1. Nothing => Nothing'
      BY <1>1 DEF Nothing, NoApplication
    <2>2. AllDone' => AllDone
      BY <1>1, NothingNewDone
    <2> QED BY <1>1, <2>1, <2>2, SameWatch DEF Calm
  <1> QED BY <1>1, <1>2, <1>3, <1>4 DEF Calm, Progress, Attended, Work, Explained

LEMMA CalmStep ==
  ASSUME Inv, CalmInv, [NextReplan]_replanning
  PROVE  CalmInv'
  <1>1. SUFFICES ASSUME deaths' = 0 PROVE Calm'
    BY DEF CalmInv
  <1>2. PICK c \in Nat : c = deaths
    BY DEF Inv, Typed, FlowsTyped
  <1>3. ~ProcessStops /\ ~\E f \in Executions, v \in Verdicts : CrashSubmitted(f, v)
    BY <1>1, <1>2 DEF ProcessStops, CrashSubmitted
  <1>4. deaths' = deaths
    <2> USE DEF durable, attempts, inbox, execution, bounds
    <2>1. ASSUME NEW f \in Executions, Turn(f) \/ Answered(f) PROVE deaths' = deaths
      BY <2>1 DEF Turn, Answered, AskPlanner, HandleDispatch, HandleOutcome, HandlePlan, HandleDeferral,
                  Return, DrainEnds, Integrates, PlannerFails, PlannerAnswers
    <2>2. ASSUME \/ \E r \in Revisions, s \in Subtasks : AttemptLands(r, s)
                 \/ \E w \in holding : AttemptReleases(w)
                 \/ Resume \/ Approve \/ Begin \/ TimerRecovers \/ CancelTask \/ UserPlans
                 \/ \E s \in Subtasks : CancelSubtask(s)
                 \/ \E r \in Revisions : ExecutorRecovers(r)
                 \/ StartupBlocked \/ Startup \/ UNCHANGED replanning
          PROVE  deaths' = deaths
      BY <2>2 DEF AttemptLands, AttemptReleases, Resume, Approve, Begin, TimerRecovers, CancelTask, UserPlans, PlanInSession,
                  CancelSubtask, ExecutorRecovers, StartupBlocked, Startup, replanning
    <2> QED BY <1>3, <2>1, <2>2 DEF NextReplan
  <1>5. Calm
    BY <1>1, <1>4 DEF CalmInv
  <1>6. CASE UNCHANGED replanning
    <2> USE <1>6 DEF replanning, durable, attempts, inbox, execution, bounds
    <2>1. Stages'
      BY <1>5, SameStages DEF Calm
    <2>2. (Nothing' <=> Nothing) /\ (AllDone' <=> AllDone)
      BY DEF Nothing, NoApplication, AllDone
    <2>3. Watched'
      BY <1>5, <2>2 DEF Calm, Watched
    <2> QED BY <1>5, <2>1, <2>3 DEF Calm, Progress, Attended, Work, Explained
  <1>7. ASSUME NEW f \in Executions, Turn(f) \/ Answered(f) PROVE Calm'
    BY <1>5, <1>7, AskCalm, HandleCalm, ReturnCalm, FailCalm, AnswerCalm, DrainEndsCalm,
        IntegratesCalm, NeverCalm DEF Turn, Answered
  <1> QED BY <1>3, <1>5, <1>6, <1>7, NeverCalm, LandsCalm, ReleaseCalm, ApproveCalm, SettleCalm, CancelCalm, RecoversCalm,
             UserPlansCalm DEF NextReplan

LEMMA Calmness == Safely => [](Inv /\ CalmInv)
  <1>1. InitReplan => Inv /\ CalmInv
    BY InitHolds DEF CalmInv
  <1>2. Inv /\ CalmInv /\ [NextReplan]_replanning => (Inv /\ CalmInv)'
    BY Inductive, CalmStep
  <1> QED BY <1>1, <1>2, PTL DEF Safely

\* Every column of a replan and every field of the executions that work on it
\* has the values the code gives it.
THEOREM ReplanTypeCorrect == Safely => []ReplanTyped
  <1>1. Inv => ReplanTyped
    <2> SUFFICES ASSUME Inv PROVE ReplanTyped
      OBVIOUS
    <2>1. asking \in [Executions -> 0..MaxRevision]
      BY ReplanAssumption DEF Inv, Typed, FlowsTyped
    <2> QED BY <2>1 DEF Inv, Typed, RowsTyped, EventsTyped, FlowsTyped, ReplanTyped, SubStatus, TaskStatus,
                        RequestStatus, AppStatus
  <1> QED BY <1>1, Calmness, PTL

\* However many Subtasks exhaust their Executors, however often the Planner is
\* asked and the process dies, a Task is replanned automatically at most once
\* (countAutomaticReplans); and in a process that never died no request is left
\* open behind the revision it asked for.
THEOREM ReplansAreOrderly == Safely => []ReplanIsOrderly
  <1>1. Inv => OneAutomaticReplan
    BY FS_EmptySet, FS_Singleton DEF Inv, Generations, OneAutomaticReplan
  <1>2. Inv /\ CalmInv => NoStaleRequest
    <2> SUFFICES ASSUME Inv, Calm, NEW r \in Revisions, r < active
                 PROVE  request[r] \notin Live
      BY DEF CalmInv, NoStaleRequest
    <2>1. r = 1 /\ active = 2
      BY Numbers DEF Inv, Generations
    <2> QED BY <2>1 DEF Calm, Stages
  <1> QED BY <1>1, <1>2, Calmness, PTL DEF ReplanIsOrderly

\* While the process lives, a running Task that nobody executes has a replan
\* that failed, was cancelled or was rejected, Subtasks the user cancelled, a
\* candidate that waits for its approval, or a replan that was considered while an
\* attempt that had landed still held its WorkUnit (the defect of
\* ReleaseIsNoticed): nothing else leaves a Task without anybody to go on with it.
THEOREM StallsAreExplained == Safely => []StallIsExplained
  <1>1. Inv /\ CalmInv => StallIsExplained
    BY Numbers DEF CalmInv, Calm, Attended, Explained, StallIsExplained, Unattended
  <1> QED BY <1>1, Calmness, PTL

\* While the process lives, the answer of a Planner that was asked before the
\* request was cancelled or had failed never becomes a revision
\* (storage/generation-replan-request-repo.ts, submitPlan).
THEOREM LatePlansAreRejected == Safely => LatePlanIsRejected
  <1> DEFINE Rejects == \A r \in Revisions :
               deaths = 0 /\ request[r] \in {"cancelled", "failed"} /\ active = r => active' = r
  <1>1. Inv /\ CalmInv /\ [NextReplan]_replanning => [Rejects]_replanning
    <2> SUFFICES ASSUME Inv, Calm, [NextReplan]_replanning, NEW r \in Revisions,
                        request[r] \in {"cancelled", "failed"}, active = r
                 PROVE  active' = r
      BY DEF CalmInv
    <2>1. r = 1
      BY DEF Inv, First
    <2>2. ASSUME NEW f \in Executions, Turn(f) PROVE active' = active
      <3>1. CASE \/ \E q \in Revisions : AskPlanner(f, q)
                 \/ HandleDispatch(f) \/ Return(f) \/ DrainEnds(f)
                 \/ \E S \in SUBSET Awaiting : Integrates(f, S)
        BY <3>1 DEF AskPlanner, HandleDispatch, DecideDispatch, Return, DrainEnds, Integrates, durable
      <3>2. ASSUME NEW o \in outcomes, HandleOutcome(f, o) PROVE active' = active
        BY <3>2 DEF HandleOutcome, DecideDispatch, BlockWork, QueueReplan, ParkForReplan, durable
      <3> QED BY <2>2, <3>1, <3>2, NeverCalm DEF Turn
    <2>3. ASSUME NEW f \in Executions, Answered(f) PROVE active' = active
      <3>1. asking[f] = 1
        BY <2>3, AnswerStep, FailStep DEF Answered
      <3> QED BY <2>1, <2>3, <3>1 DEF Answered, PlannerAnswers, PlannerFails, MaySubmit, durable
    <2>4. CASE \/ \E q \in Revisions, s \in Subtasks : AttemptLands(q, s)
               \/ \E w \in holding : AttemptReleases(w)
               \/ Resume \/ Approve \/ Begin \/ TimerRecovers \/ CancelTask
               \/ \E s \in Subtasks : CancelSubtask(s)
               \/ ProcessStops \/ \E f \in Executions, v \in Verdicts : CrashSubmitted(f, v)
               \/ UNCHANGED replanning
      BY <2>4 DEF AttemptLands, AttemptReleases, Resume, Approve, Begin, TimerRecovers, CancelTask, CancelSubtask, ProcessStops,
                  CrashSubmitted, durable, replanning
    <2>5. CASE UserPlans
      BY <2>5, NeverCalm DEF UserPlans, durable
    <2>6. ASSUME NEW q \in Revisions, ExecutorRecovers(q) PROVE FALSE
      BY <2>1, <2>6, RecoversStep DEF ExecutorRecovers
    <2> QED BY <2>2, <2>3, <2>4, <2>5, <2>6, NeverCalm DEF NextReplan
  <1> QED BY <1>1, Calmness, PTL DEF Safely, LatePlanIsRejected
===============================================================================
