---------------------------- MODULE TaskCompletion ----------------------------
(* The end of one Task: the lifecycle of its row (task/task-engine.ts, behind  *)
(* task/task-runtime-service.ts), the decisions that complete it, whole or in  *)
(* part (kernel/control-kernel.ts, execution/kernel-execution-runtime.ts), and *)
(* the notification they leave in the outbox                                   *)
(* (storage/kernel-effect-outbox-repo.ts), sent by the completion itself or by *)
(* the startup of any session of the host. How Subtasks get done, and how the  *)
(* workflow claims events, are in AttemptExecution, Publication and            *)
(* KernelWorkflow: here a decision is issued, and may stay behind a crash.     *)
EXTENDS Integers, FiniteSets

CONSTANTS Subtasks, Decisions,  \* Subtasks, and ids of completing decisions
          Executions,  \* calls of execute() that may be alive at once
          Sessions,    \* sessions over the database; they start one by one
          MaxUser,     \* bound on what the user does
          MaxCrashes   \* bound on crashes of the process

VARIABLES task,        \* tasks.status
          work,        \* subtasks.status: open, done or cancelled
          cleaning,    \* cancelled Subtasks whose attempt is not yet removed
          revision,    \* the Work Graph revision: active, full or partial
          application, \* kernel_decision_applications.status of each decision
          kind,        \* what each decision completes: full or partial
          effect,      \* kernel_effect_outbox.status of its notification
          records,     \* interactions recorded for it
          notified,    \* times the notifier was called for it
          flights,     \* the deliveries being awaited, each by its sender
          execution,   \* where each execute() is
          session,     \* where the startup of each session is
          pending,     \* what each starting session has still to deliver
          turn,        \* the decision in its synchronous stretch, if any
          users, crashes

durable == << task, work, cleaning, revision, application, kind, effect, records >>
memory == << flights, execution, session, pending, turn >>
vars == << durable, notified, memory, users, crashes >>

NoDecision == "nobody's"
Applier == "completion"    \* the sender that is no session's startup
Idle == turn = NoDecision

TaskStatus == {"created", "ready", "running", "parked", "blocked", "done", "archived", "cancelled"}

(* VALID_TRANSITIONS; cancel() writes the row without asking for it.           *)
Targets == [created   |-> {"ready", "parked", "cancelled"},
            ready     |-> {"running", "parked", "cancelled"},
            running   |-> {"parked", "blocked", "done"},
            parked    |-> {"ready", "cancelled"},
            blocked   |-> {"ready", "parked", "done"},
            done      |-> {"archived"},
            archived  |-> {}, cancelled |-> {}]

(* completeTask passes through running when the Task is ready.                 *)
Completable(status) == status \in {"ready", "running", "blocked"}

AllDone == \A s \in Subtasks : work[s] = "done"
Closed == \A s \in Subtasks : work[s] # "open"
Partial == Closed /\ (\E s \in Subtasks : work[s] = "cancelled")

(* completionBlockedReasons: attempts being cleaned up, and every application  *)
(* of the Task that is not settled, but for the decision that asks.            *)
Residue(asking) == cleaning # {} \/ \E d \in Decisions \ {asking} :
                                      application[d] \in {"pending", "applying", "uncertain"}

Unused == {d \in Decisions : application[d] = "none"}
-------------------------------------------------------------------------------
(* The outbox.                                                                 *)

(* Faulty: what is in flight is sent again as well.                            *)
DeliverableInFlight(d) == effect[d] \in {"pending", "sending", "uncertain"}

(* deliver() sends what nobody has tried to send.                              *)
Deliverable(d) == effect[d] = "pending"

(* deliver() up to the await of the sender.                                    *)
Deliver(d, sender) ==
    IF Deliverable(d)
    THEN /\ effect' = [effect EXCEPT ![d] = "sending"]
         /\ notified' = [notified EXCEPT ![d] = @ + 1]
         /\ flights' = flights \cup {<< d, sender >>}
    ELSE UNCHANGED << effect, notified, flights >>

(* The sender returns: deliverTaskCompletion catches what the notifier throws. *)
(* An effect that was reconciled in the meantime stays uncertain.              *)
Delivered(d, sender) ==
    /\ << d, sender >> \in flights /\ Idle
    /\ flights' = flights \ {<< d, sender >>}
    /\ effect' = [effect EXCEPT ![d] = IF @ = "sending" THEN "sent" ELSE @]
    /\ application' = [application EXCEPT ![d] =
                         IF sender = Applier /\ @ = "applying" THEN "applied" ELSE @]
    /\ UNCHANGED << task, work, cleaning, revision, kind, records, notified, execution,
                    session, pending, turn, users, crashes >>

(* Faulty: the user's retry makes an uncertain effect pending again.           *)
ResolvedEffectRetried == {"sent", "pending"}

(* resolve(): the kernel refuses the retry of an effect (retrySafe is false).  *)
ResolvedEffect == {"sent"}

(* /task recover on an effect or on an application; no dispatch follows.       *)
Resolve(d) ==
    /\ Idle /\ users < MaxUser /\ users' = users + 1
    /\ \/ /\ effect[d] = "uncertain"
          /\ \E e \in ResolvedEffect : effect' = [effect EXCEPT ![d] = e]
          /\ UNCHANGED application
       \/ /\ application[d] = "uncertain"
          /\ \E a \in {"applied", "pending"} : application' = [application EXCEPT ![d] = a]
          /\ UNCHANGED effect
    /\ UNCHANGED << task, work, cleaning, revision, kind, records, notified, memory, crashes >>
-------------------------------------------------------------------------------
(* Completion.                                                                 *)

Issue(d, k) == /\ application' = [application EXCEPT ![d] = "pending"]
               /\ kind' = [kind EXCEPT ![d] = k]
               /\ turn' = d

(* Faulty: a decision applied twice is completed twice.                        *)
AppliedNever(d) == FALSE

(* The guard of complete_task against a second application of one decision.    *)
AppliedBefore(d) == kind[d] = "full" /\ task = "done" /\ effect[d] # "none"

(* Faulty: an acceptance asks only for the Subtasks.                           *)
MayAcceptUnclean(d) == Partial

(* What accept_partial_result finds changed since it was decided.              *)
MayAccept(d) == revision = "active" /\ Partial /\ ~Residue(d)

Blocked == IF task = "running" THEN "blocked" ELSE task

(* Faulty: the effect is queued after the transaction that completes the Task. *)
TransactionWithoutEffect(d) ==
    /\ task' = "done"
    /\ revision' = IF revision = "active" THEN kind[d] ELSE revision
    /\ records' = [records EXCEPT ![d] = @ + 1]
    /\ UNCHANGED effect

(* The transaction of completeTask: revision, result, interaction, status and  *)
(* effect (INSERT OR IGNORE).                                                  *)
Transaction(d) ==
    /\ task' = "done"
    /\ revision' = IF revision = "active" THEN kind[d] ELSE revision
    /\ records' = [records EXCEPT ![d] = @ + 1]
    /\ effect' = [effect EXCEPT ![d] = IF @ = "none" THEN "pending" ELSE @]

(* applyExecutionDecision of complete_task and the runtime of a control event, *)
(* in the synchronous stretch of the drain; what throws leaves the             *)
(* application uncertain, and a rejected acceptance is applied as nothing.     *)
Settled(d, status) ==
    /\ application' = [application EXCEPT ![d] = status]
    /\ turn' = NoDecision
    /\ UNCHANGED << revision, records, effect >>

Apply(d) ==
    /\ turn = d /\ application[d] = "pending"
    /\ \/ /\ AppliedBefore(d)
          /\ Settled(d, "applied") /\ UNCHANGED task
       \/ /\ ~AppliedBefore(d) /\ kind[d] = "full" /\ Residue(d)
          /\ task' = Blocked /\ Settled(d, "applied")
       \/ /\ ~AppliedBefore(d) /\ kind[d] = "partial" /\ ~MayAccept(d)
          /\ Settled(d, "applied") /\ UNCHANGED task
       \/ /\ ~AppliedBefore(d)
          /\ IF kind[d] = "full" THEN ~Residue(d) ELSE MayAccept(d)
          /\ IF Completable(task) \/ task = "done"
             THEN /\ Transaction(d)
                  /\ application' = [application EXCEPT ![d] = "applying"]
                  /\ UNCHANGED turn
             ELSE Settled(d, "uncertain") /\ UNCHANGED task
    /\ UNCHANGED << work, cleaning, kind, notified, flights, execution, session, pending,
                    users, crashes >>

(* The delivery that follows the transaction; what is not sent returns at once.*)
Notify(d) ==
    /\ turn = d /\ application[d] = "applying"
    /\ Deliver(d, Applier)
    /\ application' = [application EXCEPT ![d] = IF Deliverable(d) THEN @ ELSE "applied"]
    /\ turn' = NoDecision
    /\ UNCHANGED << task, work, cleaning, revision, kind, records, execution, session,
                    pending, users, crashes >>
-------------------------------------------------------------------------------
(* Executions.                                                                 *)

(* startBackgroundExecution: the new execution waits for those before it.      *)
Begin(e) ==
    /\ Idle /\ execution[e] = "queued"
    /\ \A f \in Executions : execution[f] \in {"off", "queued"}
    /\ execution' = [execution EXCEPT ![e] = "asking"]
    /\ UNCHANGED << durable, notified, flights, session, pending, turn, users, crashes >>

(* decideDispatch and its application, when no earlier decision waits to be    *)
(* applied. With work left an attempt is launched, which makes the Task run.   *)
Dispatch(e) ==
    /\ Idle /\ execution[e] = "asking"
    /\ \A d \in Decisions : ~(application[d] = "pending" /\ kind[d] = "full")
    /\ execution' = [execution EXCEPT ![e] = "working"]
    /\ \/ /\ ~Closed
          /\ task' = IF task = "cancelled" \/ cleaning # {} THEN task ELSE "running"
          /\ UNCHANGED << application, kind, turn >>
       \/ /\ AllDone /\ ~Residue(NoDecision)
          /\ \E d \in Unused : Issue(d, "full")
          /\ UNCHANGED task
       \/ /\ AllDone /\ Residue(NoDecision)
          /\ UNCHANGED << task, application, kind, turn >>
       \/ /\ Partial
          /\ task' = IF cleaning = {} THEN Blocked ELSE task
          /\ UNCHANGED << application, kind, turn >>
    /\ UNCHANGED << work, cleaning, revision, effect, records, notified, flights, session,
                    pending, users, crashes >>

(* A candidate is integrated; every execution that awaits the drain asks again.*)
Integrate(s) ==
    /\ Idle /\ work[s] = "open" /\ \E e \in Executions : execution[e] = "working"
    /\ work' = [work EXCEPT ![s] = "done"]
    /\ execution' = [e \in Executions |-> IF execution[e] = "working" THEN "asking" ELSE execution[e]]
    /\ UNCHANGED << task, cleaning, revision, application, kind, effect, records, notified,
                    flights, session, pending, turn, users, crashes >>

(* settlePartialCancellation.                                                  *)
SettledTask == IF revision = "active" /\ Partial /\ ~Residue(NoDecision) /\ task # "cancelled"
               THEN "blocked" ELSE task

End(e) ==
    /\ Idle /\ execution[e] = "working" /\ (Closed \/ task # "running")
    /\ execution' = [execution EXCEPT ![e] = "off"]
    /\ task' = SettledTask
    /\ UNCHANGED << work, cleaning, revision, application, kind, effect, records, notified,
                    flights, session, pending, turn, users, crashes >>

(* A recoverable application is applied before any event is claimed: by an     *)
(* execution, by the end of a startup, or by the timer, if the Task is blocked.*)
RecoversDue ==
    \/ \E e \in Executions : execution[e] \in {"asking", "working"}
    \/ task \in {"running", "blocked"} /\ \E s \in Sessions : session[s] = "starting"
    \/ task = "blocked" /\ \E s \in Sessions : session[s] \in {"up", "blocked", "failed"}

Reapply(d) ==
    /\ Idle /\ application[d] = "pending" /\ kind[d] = "full" /\ RecoversDue
    /\ turn' = d
    /\ UNCHANGED << durable, notified, flights, execution, session, pending, users, crashes >>

(* The coordinator's recover().  It need never succeed: AttemptExecution.      *)
CleanUp(s) ==
    /\ Idle /\ s \in cleaning /\ \E x \in Sessions : session[x] # "down"
    /\ cleaning' = cleaning \ {s}
    /\ task' = IF cleaning = {s} /\ revision = "active" /\ Partial /\ task # "cancelled"
                  /\ \A d \in Decisions : application[d] \in {"none", "applied"}
               THEN "blocked" ELSE task
    /\ UNCHANGED << work, revision, application, kind, effect, records, notified, memory,
                    users, crashes >>
-------------------------------------------------------------------------------
(* The user.                                                                   *)

User == /\ Idle /\ users < MaxUser /\ users' = users + 1
        /\ \E s \in Sessions : session[s] \in {"up", "blocked"}

(* The recovery of a blocked Task, when its execution is prepared.             *)
Unblocked == IF task = "blocked" THEN "ready" ELSE task

(* /task resume: unblocked at once, parked until an attempt is launched.       *)
Resume(e) ==
    /\ User /\ task \in {"ready", "parked", "blocked"} /\ execution[e] = "off"
    /\ task' = Unblocked
    /\ execution' = [execution EXCEPT ![e] = "queued"]
    /\ UNCHANGED << work, cleaning, revision, application, kind, effect, records, notified,
                    flights, session, pending, turn, crashes >>

Interrupt(status) ==
    /\ User /\ task = "running"
    /\ status \in Targets[task] /\ task' = status
    /\ UNCHANGED << work, cleaning, revision, application, kind, effect, records, notified,
                    memory, crashes >>

(* /task pause and /task block; what runs is aborted, see End.                 *)
Pause == Interrupt("parked")
Block == Interrupt("blocked")

Cancellable == task \notin {"done", "archived", "cancelled"}
Open == {s \in Subtasks : work[s] = "open"}

Cancel(S) ==
    /\ User /\ Cancellable
    /\ work' = [s \in Subtasks |-> IF s \in S THEN "cancelled" ELSE work[s]]
    /\ \E A \in SUBSET S : cleaning' = cleaning \cup A
    /\ UNCHANGED << revision, application, kind, effect, records, notified, memory, crashes >>

(* /task cancel, and /task clear for every Task of its scope.                  *)
CancelTask == Cancel(Open) /\ task' = "cancelled"

(* /task subtask-cancel.                                                       *)
CancelSubtasks(S) == S # {} /\ S \subseteq Open /\ Cancel(S) /\ UNCHANGED task

(* /task accept-partial: decideTaskControl. An acceptance that a crash left    *)
(* pending is applied first, by the submit of the next one.                    *)
AcceptPartial(d) ==
    /\ User
    /\ \/ /\ application[d] = "pending" /\ kind[d] = "partial" /\ turn' = d
          /\ UNCHANGED << application, kind >>
       \/ /\ d \in Unused
          /\ \A c \in Decisions : ~(application[c] = "pending" /\ kind[c] = "partial")
          /\ task = "blocked" /\ MayAccept(d) /\ (\E s \in Subtasks : work[s] = "done")
          /\ Issue(d, "partial")
    /\ UNCHANGED << task, work, cleaning, revision, effect, records, notified, flights,
                    execution, session, pending, crashes >>
-------------------------------------------------------------------------------
(* Crash and startup.                                                          *)

Crash ==
    /\ crashes < MaxCrashes /\ crashes' = crashes + 1
    /\ (\E s \in Sessions : session[s] # "down")
    /\ flights' = {} /\ turn' = NoDecision
    /\ execution' = [e \in Executions |-> "off"]
    /\ session' = [s \in Sessions |-> "down"]
    /\ pending' = [s \in Sessions |-> {}]
    /\ UNCHANGED << durable, notified, users >>

(* Faulty: what was in flight is pending again.                                *)
ReconciledToPending(e) == IF e = "sending" THEN "pending" ELSE e

(* Faulty: what was in flight stays in flight.                                 *)
ReconciledNever(e) == e

(* reconcileSending and reconcileProcessing, whoever is sending or applying.   *)
Reconciled(e) == IF e = "sending" THEN "uncertain" ELSE e

(* recoverDurableStartup up to its first await; the Tasks that                 *)
(* listIncompleteCompletionTaskIds finds are completed.                        *)
Start(s) ==
    /\ Idle /\ session[s] = "down"
    /\ session' = [session EXCEPT ![s] = "recovering"]
    /\ effect' = [d \in Decisions |-> Reconciled(effect[d])]
    /\ application' = [d \in Decisions |-> IF application[d] = "applying" THEN "pending"
                                                                          ELSE application[d]]
    /\ task' = IF Completable(task) /\ (\E d \in Decisions : effect[d] # "none") THEN "done" ELSE task
    /\ UNCHANGED << work, cleaning, revision, kind, records, notified, flights, execution,
                    pending, turn, users, crashes >>

(* Docker, Git or the attempts cannot be reconciled: the startup returns before *)
(* it looks at the outbox, and the session takes input without it.             *)
StartBlocked(s) ==
    /\ Idle /\ session[s] = "down"
    /\ session' = [session EXCEPT ![s] = "blocked"]
    /\ task' = Blocked
    /\ UNCHANGED << work, cleaning, revision, application, kind, effect, records, notified,
                    flights, execution, pending, turn, users, crashes >>

(* What listPending finds, once the publications have been awaited.            *)
StartupLists(s) ==
    /\ Idle /\ session[s] = "recovering"
    /\ session' = [session EXCEPT ![s] = "starting"]
    /\ pending' = [pending EXCEPT ![s] = {d \in Decisions : effect[d] = "pending"}]
    /\ UNCHANGED << durable, notified, flights, execution, turn, users, crashes >>

Delivering(s) == \E f \in flights : f[2] = s

(* What is awaited before the deliveries, or after them, throws: the session   *)
(* accepts no input, and nobody starts it again; its timer goes on.            *)
StartupThrows(s) ==
    /\ Idle
    /\ \/ session[s] = "recovering"
       \/ session[s] = "starting" /\ pending[s] = {} /\ ~Delivering(s)
    /\ session' = [session EXCEPT ![s] = "failed"]
    /\ UNCHANGED << durable, notified, flights, execution, pending, turn, users, crashes >>

(* One effect after the other, each awaited; then the session takes input, and *)
(* the Task a crash left running goes on.                                      *)
StartupDelivers(s, d) ==
    /\ Idle /\ session[s] = "starting" /\ d \in pending[s]
    /\ ~Delivering(s)
    /\ pending' = [pending EXCEPT ![s] = @ \ {d}]
    /\ Deliver(d, s)
    /\ UNCHANGED << task, work, cleaning, revision, application, kind, records, execution,
                    session, turn, users, crashes >>

Started(s) ==
    /\ Idle /\ session[s] = "starting" /\ pending[s] = {}
    /\ ~Delivering(s)
    /\ session' = [session EXCEPT ![s] = "up"]
    /\ execution' = IF task = "running" /\ (\A e \in Executions : execution[e] = "off")
                    THEN [execution EXCEPT ![CHOOSE e \in Executions : TRUE] = "working"]
                    ELSE execution
    /\ UNCHANGED << durable, notified, flights, pending, turn, users, crashes >>
-------------------------------------------------------------------------------
Init ==
    /\ task = "running" /\ work = [s \in Subtasks |-> "open"]
    /\ cleaning = {} /\ revision = "active"
    /\ application = [d \in Decisions |-> "none"] /\ kind = [d \in Decisions |-> "none"]
    /\ effect = [d \in Decisions |-> "none"]
    /\ records = [d \in Decisions |-> 0] /\ notified = [d \in Decisions |-> 0]
    /\ flights = {} /\ turn = NoDecision
    /\ execution = [e \in Executions |-> IF e = CHOOSE f \in Executions : TRUE THEN "working" ELSE "off"]
    /\ session = [s \in Sessions |-> IF s = CHOOSE x \in Sessions : TRUE THEN "up" ELSE "down"]
    /\ pending = [s \in Sessions |-> {}]
    /\ users = 0 /\ crashes = 0

Runs(e) == Begin(e) \/ Dispatch(e) \/ End(e)
Completes(d) == Apply(d) \/ Notify(d) \/ Reapply(d)

Next ==
    \/ \E e \in Executions : Runs(e) \/ Resume(e)
    \/ \E s \in Subtasks : Integrate(s) \/ CleanUp(s)
    \/ \E d \in Decisions : \/ Completes(d) \/ AcceptPartial(d) \/ Resolve(d)
                            \/ \E f \in Sessions \cup {Applier} : Delivered(d, f)
    \/ Pause \/ Block \/ CancelTask
    \/ \E S \in SUBSET Subtasks : CancelSubtasks(S)
    \/ \E s \in Sessions : \/ Start(s) \/ StartBlocked(s) \/ StartupLists(s)
                           \/ StartupThrows(s) \/ Started(s)
                           \/ \E d \in Decisions : StartupDelivers(s, d)
    \/ Crash

Spec == Init /\ [][Next]_vars

(* What the process does by itself; nothing is asked of the user.              *)
FairSpec ==
    /\ Spec
    /\ \A e \in Executions : WF_vars(Runs(e))
    /\ \A d \in Decisions : /\ WF_vars(Completes(d))
                            /\ \A f \in Sessions \cup {Applier} : WF_vars(Delivered(d, f))
    /\ \A s \in Sessions : /\ WF_vars(StartupLists(s) \/ StartupThrows(s) \/ Started(s))
                           /\ WF_vars(\E d \in Decisions : StartupDelivers(s, d))
-------------------------------------------------------------------------------
(* Every variable has the values its column or field can hold.                 *)
TypeOK ==
    /\ task \in TaskStatus
    /\ work \in [Subtasks -> {"open", "done", "cancelled"}]
    /\ cleaning \subseteq Subtasks /\ revision \in {"active", "full", "partial"}
    /\ application \in [Decisions -> {"none", "pending", "applying", "applied", "uncertain"}]
    /\ kind \in [Decisions -> {"none", "full", "partial"}]
    /\ effect \in [Decisions -> {"none", "pending", "sending", "sent", "uncertain"}]
    /\ flights \subseteq Decisions \X (Sessions \cup {Applier})
    /\ execution \in [Executions -> {"off", "queued", "asking", "working"}]
    /\ session \in [Sessions -> {"down", "recovering", "starting", "up", "blocked", "failed"}]
    /\ turn \in Decisions \cup {NoDecision}

(* adr/0023: what may have been sent is never sent again, and a decision       *)
(* records its result once, whichever sessions start while it is delivered,    *)
(* wherever the process stops and whatever the user resolves.                  *)
AtMostOnce == \A d \in Decisions : notified[d] <= 1 /\ records[d] <= 1

(* A Task is done exactly when its revision is complete and a notification was *)
(* queued, and then no Subtask is open and no attempt is being cleaned up      *)
(* (completeTask's transaction and the checks before it).                      *)
CompletionIsWhole ==
    /\ task = "done" <=> revision # "active"
    /\ task = "done" <=> \E d \in Decisions : effect[d] # "none"
    /\ revision = "full" => AllDone
    /\ revision = "partial" => Closed
    /\ task = "done" => cleaning = {}

(* A notification that was queued is sent or reported, if some session comes   *)
(* through its startup (deliver, listPending, reconcileSending).  A startup    *)
(* that is blocked or throws before the deliveries leaves it as it was, and no *)
(* session starts twice (metaclaw-session.ts:2599-2626).                       *)
Recovered == \E s \in Sessions : session[s] = "up"
EffectSettles == \A d \in Decisions :
    effect[d] \in {"pending", "sending"} ~> effect[d] \in {"sent", "uncertain"} \/ ~Recovered
===============================================================================
