# MetaClaw: TLA+ models, checks and proofs

MetaClaw (AnyFusion) turns a user's request into a *Task*, plans the Task as a graph of
*Subtasks*, and lets a deterministic *control kernel* decide, event by event, what the runtime
may do next. Executors run in sandboxes, several at a time; their results are approved by the
user and merged into the main branch of a Project; every fact that matters is a row of one
SQLite database, so that a process that dies can pick the work up again.

This directory models the parts of the program whose correctness is hard to see in tests:
the durable event loop of the kernel; the attempts of a Task, their WorkUnits, leases,
sandboxes and processes; publication, permissions, replans and completion; and the services
around them (storage of workspaces, the Feishu chat, Planner proposals, the Executor registry,
admission of work graphs, evidence and handoffs, the command line). TLC checks each model on
small instances; TLAPS proves what matters most for every value of the constants.

Paths below are relative to the repository; `src/` names its TypeScript source directory.

## 1. The system

### 1.1 Components

| Component | State it keeps | Operations |
|---|---|---|
| Durable kernel workflow (`src/kernel/kernel-workflow.ts`, `src/storage/kernel-workflow-repo.ts`, `kernel-decision-repo.ts`) | `kernel_events`, `kernel_decisions`, `kernel_decision_applications`; in memory `draining` | submit, recover, drain: claim, issue, mark applying, apply, mark applied or failed; reconcile; manual resolution |
| Control kernel (`src/kernel/control-kernel.ts`) | none: a pure function of event and snapshot | decide: plans, dispatches, outcomes, failures, contracts, capacity, partitions, timers, sandbox recovery, availability, permissions, replans, completion |
| Kernel execution runtime (`src/execution/kernel-execution-runtime.ts`) | the workflow and supervisor of one execution; nothing durable of its own | execute, apply each action, run one dispatch item, recover due and expired work, control events, complete a Task |
| Attempt supervisor, dispatch items (`src/execution/attempt-supervisor.ts`, `src/storage/kernel-dispatch-item-repo.ts`) | `kernel_dispatch_items`; in memory the active promises and the context of each Task | enqueue, kick, launch, drain, recover, request cancellation |
| Subtask attempt runner (`src/execution/subtask-attempt-runner.ts`) | the local state of one `run()` | claim, prepare, execute, collect, promote, land, release; reconcile an interrupted pause; land a lost heartbeat |
| Terminal commit (`src/execution/attempt-terminal-service.ts`) | `executor_attempt_receipts`, and the rows sealed with a receipt | land |
| Task cancellation (`src/execution/task-cancellation-coordinator.ts`) | a retry timer | the fence transaction; recover: stop, inspect, remove, release, mark cancelled |
| WorkUnit claims, resource leases (`work-unit-claim-service.ts`, `resource-lease-service.ts`, `resource/partition.ts`) | `work_units`, `resource_leases`, `resource_waits` | claim, provision, renew, release, expire, revoke, sweep |
| Sandbox adapter (`sandboxed-executor-adapter.ts`, `worktree-attempt-sandbox-adapter.ts`, `attempt-sandbox-reconciler.ts`) | `attempt_sandboxes`; in memory the handles; the processes | prepare, start, pause, resume, stop, inspect, remove; the reconciliation of a startup |
| Startup (`src/session/metaclaw-session.ts`) | none | reconcile processing, sandboxes, cancellations, orphans, publications, reviews, effects; recover due work |
| Workspace publication, managed Git (`workspace-publication-worker.ts`, `managed-git-workspace.ts`) | `workspace_publications`, worktrees, branches, main | candidate, approve, deny, promote, stale, reissue, synchronise, integrate, cancel |
| Permission workflow (`permission-workflow-service.ts`, `resource/permission-policy.ts`) | `permission_requests`, `permission_grants`, `user_authorizations` | request, decide, grant, deny, escalate, review, resolve, expire, recover |
| Generation replan (`generation-replan-request-repo.ts`, `work-graph-runtime-service.ts`) | `generation_replan_requests`, `work_graph_revisions` | enqueue, ask the Planner, submit, defer, admit, supersede, cancel |
| Completion and outbox (`kernel-effect-outbox-repo.ts`, `verification-and-delivery-service.ts`, `task-engine.ts`) | `tasks`, `kernel_effect_outbox`, interactions | complete whole or in part, deliver, reconcile, resolve by hand |
| Workspace storage (`workspace-store.ts`, `workspace-retention-service.ts`, `task-purge-service.ts`) | `workspace_*` tables and content-addressed files | checkpoint, schedule, sweep, purge |
| Planning (`planner-process-runner.ts`, `planner-tui-bridge.ts`, `planner-proposal-repo.ts`) | `planner_proposal_*` tables, queues in memory | prompt, submit, reserve, validate, propose, answer |
| Executor registry (`executor-registration-service.ts`, `executor-registry-service.ts`) | `executors.yaml`, `executor_verifications`, health, snapshots | register, verify, enable, disable, reload, refresh |
| Work graph algorithms (`work-graph/`, `planning-agent-plan-validator.ts`) | none | validate, filter, frontier, cancellation closure |
| Evidence and completion protocol (`execution-evidence-port.ts`, `completion-protocol.ts`) | `task_execution_evidence`, `subtask_handoffs` | catalogue, cite, read, validate a completion, hand on |
| Feishu gateway (`integrations/feishu-app.ts`, `gateway/feishu-session-registry.ts`) | seen messages, pending files, replies in memory | receive, admit, download, submit, await a reply, resolve a permission |
| Commands and composer (`commands/catalog.ts`, `commands/task-commands.ts`, `tui/app.tsx`) | the input line, its history, the commands under way | complete, execute, the handlers of `/task` |
| Session presentation, memory, learning, guidance, schema, the other gateways | see `PROJECT.json` | text, scoring, configuration, I/O |

### 1.2 How they interact

    user --- start / resume / pause / cancel / approve / type a command ---+
                                                                           v
    chat, Planner --- texts, plans -->  MetaclawSession  -->  KernelExecutionRuntime
    timers ---------- due events, expired claims ----------->      | submit(event)
                                                                   v
                                        DurableKernelWorkflow  <--- startup reconciliation
                                          claim -> decide (ControlKernel) -> issue -> apply
                                                  | dispatch_batch          |
                                                  v                         v
                                          AttemptSupervisor          Task and Subtask rows, replans,
                                            kick, launch             permissions, completion, outbox
                                                  | run(item)
                                                  v
                                         SubtaskAttemptRunner -- WorkUnit, leases, sandbox, evidence
                                                  | land (one transaction)
                                                  v
                    receipt + Subtask + dispatch item + outcome event + publication candidate
                                                  | submit(outcome)          | approve
                                                  +--> back to the workflow  +--> publication worker, main

* Calls: the runtime builds a workflow per call of `execute()`, and every permission call builds
  one too, so several workflow objects of one Task drain one store. They share nothing in memory.
* Shared rows: an attempt's dispatch item is written by the supervisor, by the terminal commit,
  by the cancellation's fence and cleanup, by the sandbox reconciler and by the startup.
* Callbacks: the outcome of a supervisor's promise is submitted to the workflow, whose decision
  may enqueue the next attempt, which kicks the supervisor again.
* Several processes: every session that starts runs `recoverDurableStartup` over the shared
  database, and a command line process writes the same `executors.yaml` as a session.

### 1.3 What is hard here

JavaScript runs one turn at a time, so all interleaving within a process is at an `await`; but
a crash may fall between any two SQL transactions, also inside a turn. The behaviours worth a
model are these:

* a fact read before an `await` (of a claim, an executor, a promotion, a Git command, a
  verification, a reply) is used after it, while the user, a sibling or a timer changed it;
* one failure is seen by several observers: the runner, the sweep of expired claims, the
  startup, the sandbox reconciler, the resume after a pause;
* several workflow objects drain the same rows, with hooks made for another request, and recovery
  resets rows that others work on;
* files, Git and processes change outside the transactions that record them;
* the cleanup of a cancellation takes many steps any of which can fail, and must end;
* slots, attempts, retries, replans and budgets are bounded by counts taken from rows that lag
  behind.

`PROJECT.json` lists these hazards at their lines, with the properties that cover them.

### 1.4 What makes each component correct

* Workflow: an event is decided once, its decision is applied to completion at most once, its
  observation is not lost; what is due of a Task that stays blocked is decided in the end.
* Terminal commit: an outcome is sealed as a whole or not at all; nothing is published, nor a
  Subtask moved, behind a cancellation or a pause.
* Attempts: a Subtask has one sandbox at a time; resources are held while a sandbox runs and
  given back only when its outcome is sealed; the retries granted stay within their budget.
* Cancellation: it is final, and its cleanup ends.
* Pool and leases: no two live owners of what conflicts; a unit is released by its owner.
* Publication: main receives only what was approved, a Subtask is done only by a merge and never
  waits for a publication that nobody works on.
* Permissions: a grant rests on a rule or on an approval of the same demand, a denial is final,
  an approval reaches its own candidate, nobody stays paused.
* Replans: at most one automatic replan, no request left behind, no late plan, no silent stall.
* Completion: all facts of a completed Task or none; its result is recorded and sent at most once,
  and settles.
* Services: section 3 names the property of each, below the runs `kernel_services` and `services`.

## 2. Modules

| Module | What it is | Models |
|---|---|---|
| `EventLedger` | abstract specification | the exactly-once ledger the workflow promises |
| `KernelWorkflow`, `MCKernelWorkflow` | component; instances | `kernel-workflow.ts` over `kernel-workflow-repo.ts` |
| `TaskTimer`, `MCTaskTimer` | composed component, with liveness; instance | the status of one Task over its workflow, the session's timer and its startup |
| `KernelWorkflowProofs` | proofs | invariants, action properties, refinement of `EventLedger` |
| `AttemptRecord` | abstract specification | what the store keeps of the attempts, whoever writes to it |
| `AttemptExecution`, `MCAttemptExecution` | composed component; instances | supervisor, runner, terminal commit, decisions on outcomes, cancellation, startup |
| `AttemptExecutionProofs` | proofs | types, atomic outcomes, sealed releases, ownership, fences, refinement of `AttemptRecord` |
| `Partitions` | operators | coverage, overlap and conflict of resource partitions |
| `WorkUnitClaims`, `ResourceLeases` | operators over rows | the calls of the claim service and of the lease repository |
| `AttemptResources` | component, composes the three | what `run()` does with units and leases, for several attempts |
| `AttemptResourcesProofs` | proofs | types, exclusive leases, releases; the delivery of evidence and handoffs, and its budgets |
| `Publication`, `MCPublication`, `PublicationProofs` | component, instance, proofs | candidates, approval, the worker and its Git commands |
| `Permission`, `MCPermission`, `PermissionProofs` | component, instance, proofs | permission requests and their workflow |
| `GenerationReplan`, `MCGenerationReplan`, `GenerationReplanProofs` | component, instance, proofs | automatic replans and revisions |
| `TaskCompletion`, `MCTaskCompletion`, `TaskCompletionProofs` | component, instance, proofs | lifecycle of a Task, its completion, the outbox |
| `WorkspaceStorage`, `SandboxRun`, `ExecutorRegistry`, `PlannerProposals` | components | storage of workspaces; processes; registry; plans as submissions |
| `FeishuGateway`, `PlanAdmission`, `SubtaskDelivery`, `CommandLine` | components | a chat; admission of graphs; evidence and handoffs; slash commands |
| `ServicesProofs` | proofs | types and invariants of storage, sandboxes, registry, proposals, chat and admission |
| `MCKernelServices` | instances | `MCKernelWorkflow`, and one small instance each of storage, registry, chat, admission and delivery |
| `MCTaskServices` | instances | `MCGenerationReplan` and `MCPermission`, either of which may be chosen |
| `MCServices` | instances | one small instance each of resources, proposals, sandboxes and command line |

Definitions headed "Faulty:" are variants of the definition that follows them, each with one
plausible mistake. No action uses them; they show that the properties below notice the mistake.

Components share no variables across the modules of this table; where one depends on another, the
module keeps the little it needs: `TaskCompletion` the statuses of Subtasks, `Publication` those
of attempts, `Permission` the sandboxes, `AttemptExecution` a sandbox's row.

### 2.1 KernelWorkflow and the code

| Model | Code |
|---|---|
| `inbox`, `availableAt` | `kernel_events.status`, `.available_at` |
| `decision`, `application`, `observed` | `kernel_decisions.action`, `kernel_decision_applications.status`, `.observation_event_json` |
| `pc[w]`, `cur[w]`, `handled[w]` | where the `drain()` of a workflow object stands, its event, its counter |
| `turn` | which synchronous stretch is running; `NoOne` between turns, `Down` after a crash |
| `Submit`, `Recover` | `submit`, `recover` up to and including the start (or the join) of a drain |
| `StartApply`, `Claim`, `Issue`, `DecideThrows`, `DrainEnds` | the steps of the loop, in the loop's order: recoverable applications come before new events |
| `Applied`, `ApplyFails` | the return of `runtime.apply`: `markApplied` (application and observation in one transaction), or `markApplicationFailed` |
| `Settle` | the microtask of `finally()` that clears `draining` |
| `ResolveRecoveryItem` | an operator's `assume_applied` or `retry` of an uncertain application |
| `Crash`, `Restart`, `RestartBlocked` | loss of all that is in memory; startup's `reconcileProcessing` and the events it enqueues; a startup that is blocked before it enqueues them |

`submit`, the claim and the issue of one event are *not* one step: each is a transaction of its
own, and a crash may separate them. Other workflows cannot run in between, which `turn` says.
The filters by event, Task and action that a workflow is built with are the constants
`Accepted`, `AcceptedAct` and `Scope`.

Nothing in the workflow looks again at an event that a throwing `decide`, a joined drain or the limit of a drain left behind.
`TaskTimer` adds who does. The session's timer (`maybeReviewTaskPoolOnTimer`) asks for the Tasks in status `blocked` and calls
`recoverDue` for each, so the module adds `task`, which the applications of decisions (`After`, with `Blocking` the actions whose handler calls
`blockTask`), attempts and the user (`Moves`) change. `IsDue` is the timer's condition and `TimerRecovers` its call; `StartupRecovers` is the
one recovery a startup gives to a Task (`owed`); `Drains` are the steps of the workflow with what they write to the Task, `Stops` and `Starts`
crash and startup: one that comes through, one that throws on its way, or one that is blocked, which blocks the running Tasks.

### 2.2 AttemptExecution and the code

One Task with independent Subtasks. An attempt is a pair of a Subtask and a number. The inbox
is the sequence of due events; reading an event, deciding it and applying the decision is one
step (`Decides`), since for every decision here it is one synchronous stretch of the code; that
nothing is lost around that stretch is what `KernelWorkflow` is about.

| Model | Code |
|---|---|
| `task`, `subtask`, `item`, `kind`, `receipt`, `candidates` | `tasks.status`, `subtasks.status`, `kernel_dispatch_items.status` and `.attempt_kind`, `executor_attempt_receipts.terminal_state`, publication candidates |
| `inbox`, `known`, `timers`, `retryWait` | pending due events, all event ids (`INSERT OR IGNORE`), the retry `timer_tick`s, the waiting `kernel_retry` dependency |
| `claimed`, `leased`, `revoked`, `sandbox` | WorkUnit, leases and sandbox of each attempt |
| `pc`, `result`, `kicking` | the promise of an attempt and what it will return; a synchronous `kick()` |
| `tail`, `cleanup`, `lost` | a coordinator's `recover()` waiting or at work; a startup's list of lost sandboxes |
| `KickLaunch`, `KickDone` | `AttemptSupervisor.kick`, `claimPending` |
| `StartRun` | `markRunning`, `runDispatchItem` up to its first await, the runner's stale check |
| `ClaimFails`, `LeaseConflicts`, `ClaimUnit` | the return of `claim()` |
| `PreparationFails`, `Execute`, `SandboxExits`, `AbandonSandbox`, `ExecutorFails`, `BreaksContract`, `ExecutorSucceeds`, `LandSuccess` | the awaits and endings of `run()` |
| `Landed`, `LandThrows` | `AttemptTerminalService.land`, with its fences against a cancellation and a pause |
| `Close`, `Submit`, `Settle` | the runner's `finally`, `markTerminal` or `markUncertain`; the submit; the free slot and next kick |
| `NoOp`, `BlockWork`, `WaitForRetry`, `FallBack`, `ParkForReplan`, `CorrectContract`, `Redispatch`, `WaitForResources`, `Advance`, `RecoverWorkspace`, `FireTimer` | `decideOutcome`, `decideFailure`, `decideContractFailure`, `decideCapacity`, `decidePartitionConflict`, `decideDispatch`, `decideSandboxRecovery`, `decideTimer`, each with its application |
| `Request`, `ReconcilePause`, `ServeRequest`, `SubmitRequest`, `Pause`, `CancelTask`, `CancelSubtasks` | the user's `/task` commands and what `execute()` does with them |
| `CleanupStarts`, `CleanUp`, `StopFails`, `CleanupEnds` | `TaskCancellationCoordinator.recover` and its retry |
| `Sweep` | `recoverExpiredAttempts` |
| `Crash`, `ReconcileSandboxes`, `RecoverCancellations`, `SealOrphan`, `BlockStartup`, `ReportMissing`, `RecoverDue` | a crash, then the steps of `recoverDurableStartup`, each its own transaction, between any two of which the process may die again |

`Occurs` says what executors, resources and the user may do in an instance; it is the one
constant that is not a size. Abstractions a reader should know of:

* The verdict of the kernel depends on a failure's class only, so a failure is `retryable`,
  `domain` or `stale` (any class that blocks the work). Which AgentClass comes next is not
  modelled: whether one is left is a free choice (`FallBack` or `ParkForReplan`).
* A promotion is awaited (`promoting`): the drain of the permission workflow may run other
  events, with calls to Docker, before the answer comes.
* A user's request is served before the next one is made. `execute()` runs its own recovery
  again after it has submitted; this second round is not modelled.
* A claim expires only where nothing renews it: before `run()` starts or once it has returned.
  A heartbeat that is frozen while its attempt is at work is not modelled.
* `RecoverCancellations` settles only an item whose sandbox was never created or can still be
  removed: a new process has no handle of the last one's sandboxes, and `remove()` throws (run
  `ae_cancellation`). It does not settle the Task or arm the retry; a later cancellation does.
* Abort signals only make an executor fail, which it may always do.


### 2.3 Partitions, WorkUnitClaims, ResourceLeases, AttemptResources and the code

The first three are operators over rows, one for each call of the services; `AttemptResources` says
when `run()`, its heartbeat timer, the sweep, a cancellation and the startup make those calls, for
several attempts at once. A unit is provisioned across an `await`, so two attempts may be given the same one.

| Model | Code |
|---|---|
| `workUnits`, `leases`, `waits` | `work_units`; `resource_leases` and `resource_waits`, one row per attempt since every statement names the attempt |
| `phase`, `unitOf`, `sealed` | where `run()` stands, the unit it was given, the attempts with a receipt |
| `PartitionCovers`, `PartitionsOverlap`, `ResourceClaimsConflict` | `partition.ts`, on values split into segments |
| `ClaimIdle`, `StartProvisioning`, `ProbeFails`, `ProbeSucceeds`, `ClaimProvisioned` | `WorkUnitClaimService.claim` around its awaited provisioning and probe |
| `StartRun`, `StartConflicts` | `markRunning` and the lease transaction, or its conflict |
| `Heartbeat`, `HeartbeatThrows`, `MarkWaiting` | the interval of `run()`; a unique index that throws inside it; an executor that waits |
| `FinishLanded`, `FinishFailed`, `FinishUncertain`, `Close` | the endings of `run()` and its `finally` |
| `Sweep`, `Cancel`, `ConfirmExit`, `ProcessDies`, `ReconcileStartup`, `Tick` | `recoverExpiredAttempts`, revocation, the exit confirmed by a cancellation's cleanup (which gives back the revoked leases and no WorkUnit), crash, startup, the clock |

### 2.4 Publication and the code

| Model | Code |
|---|---|
| `rows`, `authorized` | `workspace_publications` (status and candidate, by attempt), the commits the user approved |
| `main`, `trees` | Git: the main branch, the worktree and branch of each Subtask. A commit is the set of candidates it contains, `Contains` is `merge-base --is-ancestor` |
| `station` | the one execution of the Task and the publication it awaits |
| `Dispatch`, `Validate`, `Land`, `LandCancelled`, `Fail` | what of `run()` concerns the candidate |
| `Approve`, `Deny`, `Cancel`, `CancellationEnds`, `Resume` | the user, through the permission workflow, the cancellation coordinator and `applyExplicitBlockedRecovery` |
| `Begin`, `Take`, `Drain` | `startBackgroundExecution`, `drainSerial` and `findNextBlocking` |
| `Ensure`, `CheckMain`, `Stale`, `Merge`, `CommitResult`, `CommitRefused`, `Remove`, `Synchronize` and their failures | `publish()`, one step for each Git command it awaits and each transaction |
| `HandleIntegrated`, `HandleStale`, `Reissue`, `HandlingEnds`, `Complete`, `Close` | what `execute()` does with the result |
| `Crash`, `RecoverStale`, `RecoverStaleFails` | crash; `recoverApplying` and `recoverStalePublications` |

### 2.5 Permission and the code

Every call of the permission service builds a workflow of its own, which drains *all* permission
events and applications of the Task with hooks made for its own request. A `flow` is such a call.

| Model | Code |
|---|---|
| `status`, `ordinal`, `grants`, `authorized`, `fresh` | `permission_requests`, `permission_grants`, `user_authorizations`, a review that has not expired |
| `events`, `actions`, `order` | the workflow's tables, restricted to permission events; the order in which they are claimed |
| `published`, `sandbox` | the publication a promotion request belongs to; the sandbox a capability request pauses |
| `AskCapability`, `CheckpointEnds`, `CheckpointFails`, `AskPromotion`, `Resolve`, `Represent` | `request`, with its awaited checkpoint and stop, the runner's promotion, `resolve`, a review presented again |
| `Issue`, `Decided`, `Evaluated` | `decidePermission` over `permission-policy.ts` |
| `StartGrant`, `StartDeny`, `StartEscalate`, `StartRecover`, `RecoverRefused`, `ApplyEnds`, `ApplyFails` | the application of a decision with the hooks of the flow that drains it |
| `Expire`, `Retry`, `Crash`, `StartupRecovers`, `StartupSkips` | a review's timeout, manual resolution, crash, `recoverPublicationPermissionReviews` |

### 2.6 GenerationReplan and the code

| Model | Code |
|---|---|
| `active`, `automatic`, `sub` | `work_graph_revisions` and the Subtasks of each revision |
| `request`, `app` | `generation_replan_requests.status`, and the application of its `request_replan` |
| `working`, `holding` | attempts with an unfinished dispatch item; those that have landed and still hold their WorkUnit and leases, while `run()` awaits the checkpoint and the tool servers |
| `outcomes`, `plans`, `dispatch`, `unapplied` | events that wait in the inbox, and decisions no running workflow accepts |
| `open`, `draining`, `asking`, `queued` | executions of the Task, those whose workflow takes events, the one that awaits the Planner, the one chained behind it |
| `early` | history: what the kernel missed when it last looked for quiescence was only what landed attempts held |
| `AttemptLands`, `AttemptReleases`, `DrainEnds` | the outcome goes into the inbox; the release and the supervisor's submit, which wakes a drain; the drain finds nothing |
| `Quiescent`, `Residue`, `Awaiting`, `Integrates`, `Approve`, `OutOfEvents` | `generationQuiescent` and `completionBlockedReasons` over items, units, leases and publications; the integration of a candidate once nothing runs, or after its approval |
| `HandleOutcome`, `ParkForReplan`, `QueueReplan`, `BlockWork` | `decideFailure`, `fallbackOrReplan` and their applications |
| `DecideDispatch`, `Replan`, `Waits`, `Finish`, `Stall`, `HandleDispatch` | `decideDispatch` |
| `AskPlanner`, `PlannerAnswers`, `PlannerFails`, `Submitted` | `requestKernelReplan` around its await |
| `HandlePlan`, `Admitted`, `Superseded`, `Activated`, `Deferred`, `ExecutorRecovers` | the admission of a revision, or its deferral |
| `Resume`, `Begin`, `TimerRecovers`, `CancelTask`, `CancelSubtask`, `UserPlans` | the user and the timer |
| `ProcessStops`, `CrashSubmitted`, `StartupBlocked`, `Startup` | crash, also between a plan's submission and its admission; startup |

### 2.7 TaskCompletion and the code

| Model | Code |
|---|---|
| `task`, `work`, `cleaning`, `revision` | `tasks`, `subtasks`, residue of cancellations, the revision's status |
| `application`, `kind`, `turn` | the completing decisions and the synchronous stretch in which one is applied |
| `effect`, `records`, `notified`, `flights` | `kernel_effect_outbox`, interactions, calls of the notifier, deliveries being awaited |
| `Dispatch`, `AcceptPartial`, `Apply`, `Notify`, `Delivered` | `decideDispatch`, the acceptance of a partial result, `completeTask`'s checks and transaction, `deliver` and its settlement |
| `Begin`, `Integrate`, `End`, `CleanUp`, `Reapply`, `Resume` | an execution, the publications and cleanups that finish Subtasks, `recoverDue` |
| `Pause`, `Block`, `CancelTask`, `CancelSubtasks`, `Resolve` | the user's commands |
| `Start`, `StartBlocked`, `StartupLists`, `StartupThrows`, `StartupDelivers`, `Delivering`, `Started`, `Crash` | the startup of any session of the host: `reconcileSending`, then, after the publications have been awaited, `listPending` and one delivery after the other. A blocked startup returns before the first, and one that throws never delivers; neither is tried again |
| `RecoversDue` | whose timer calls `recoverDue`: any session that is not down |

### 2.8 The services

* **WorkspaceStorage**: `records`, `checkpoints`, `links`, `counts` are the tables, `files` and
  `repositories` the disk. `Scan`, `Store`, `Record` are the steps of `createCheckpoint`; `Schedule`,
  `StartSweep`, `SweepOne`, `RemoveObject`, `RemoveRepositories`, `SweepEnds` those of the retention sweep;
  `Purge` that of `/task purge`, whose files go the same way; `CrashStorage` falls between any two.
* **SandboxRun**: `row`, `handle`, `process` may disagree. `BeginRun` to `ReturnRun` are one `execute()`;
  `Kill`, `CancelRuns`, `Escalate`, `Pause`, `ResumeRun`, `Shutdown` what stops it; `Dies` is the executor's
  own end; `CrashHost`, `Restart`, `ForeignStartup` the deaths and startups, of this session and of others. An exception may come
  before the row is written (`CreateThrows`), of the spawn (`SpawnThrows`), anywhere after it (`Throws`) or between the removal and its record
  (`RemovalUnrecorded`); `CleanUp` is the `catch`, which stops and removes what `activeRuntimes` knows and reports a configuration failure.
  `CleanupStops` and `CleanupRemoves` are the cleanup of a cancellation, which works on the same handle.
* **ExecutorRegistry**: `file` is `executors.yaml`, a configuration says absent, off or on of each Executor and
  stands for its digest. `BeginCommand`, `VerifyNext`, `WriteConfig`, `Verified`, `Loads` are the steps of a command of the session
  or of a command line process; `Edit` is the user's editor; `LaunchOn`, `AttemptEnds`, `RefreshErrors`, `Checked` what execution
  and recovery checks do to the health rows; `Reload`, `CrashRegistry`.
* **PlannerProposals**: a submission is a plan of a turn. `Prompt`, `Resolves`, `Fails` are the process runner. `planner` is
  the run and `alive` the process: a run that fails signals its process and does not wait, so that it may go on submitting beside the Planner of
  the next run until it exits (`PlannerExits`).
  `Submit` the bridge's queue; `Reply`, `Reserve`, `Validate`, `Propose`, `Conclude` the stretches of
  `submitPlannerProposal`; `Decide`, `Apply`, `ApplyFails`, `Applied` the workflow; `CrashPlanners`, `Started`.
* **FeishuGateway**: one handler per delivery of a message, one step per stretch between its awaits; the session
  behind it (`Plan`, the run of a Task, the lines it prints) is reduced to what a reply waits for.
* **PlanAdmission**: `DecidePlan` filters and validates a graph over the health of the classes, `ScheduleRun`,
  `RecordApplication`, `Activate` apply it, `DispatchBatch`, `Succeed`, `Fail`, `Retry` run it, `DecideCancel` and
  `ApplyCancel` cancel with the closure (`Downstream`, the least closed set of Subtasks), `Cooldown`, `LeaveWindow`,
  `StartProbe`, `ProbeFails`, `ProbeRecovers` move the health, `Revive` takes up a deferred plan, `RestartHost` is a crash and
  the startup after it. A graph is acyclic when every nonempty set of its Subtasks has one that depends on none of the set.
* **SubtaskDelivery**: `PersistWorkGraph`, `Build`, `ListEvidence`, `GetEvidence`, `Report`, `Integrate`,
  `Withdraw`; the protocol's checks (`Valid`, `WithinBudgets`) are operators. Its sizes stand for thousands of characters
  and tens of paths, and a sum of sizes is the number of units of the items together, each tagged with its item (`Tagged`). Evidence
  that a later revision cites from an earlier one is the admission's (`ContextIsEligible`).
* **CommandLine**: the editor's keys (`Type`, `Space`, `EraseWord`, `Tab`, `Select`, `RecallPrevious`, `Enter`, ...), both readings
  of a line (`Complete`, `Parsed`) as operators over words, and the handlers that change Tasks. `SuggestionLimit` 2 stands for 6,
  `HistoryLimit` 2 for 100.

## 3. Checks that pass

| Run | Instance | Properties | Question |
|---|---|---|---|
| `kw_timer` | two workflows of one Task with the same filters, throwing snapshots, failing applies, the Task's status, 1 crash, startups that come through, throw or are blocked; 60,940 states | `DueEventDecided` | Is every due event of a Task that stays blocked decided? |
| `ae_crash` | 1 Subtask, 2 attempts, every failure, broken contracts, no capacity, expired claims, 1 pause, 1 cancellation, 2 crashes; 1,159,158 states | `TypeOK`, `OneSandbox`, `OwnershipHeld`, `OutcomeIsAtomic`, `ReleaseIsSealed`, `ImplementsRecord` | What survives an interruption and a restart at any point? |
| `ae_cleanup` | 2 Subtasks, 1 attempt each, the Task's cancellation, sandboxes that cannot be prepared or stopped, 1 crash; 168,341 states | `NothingAfterCancellation`, `CancelledStaysCancelled`, `CleanupIsRetried` | Is a cancellation final, and does its cleanup go on? |
| `publication` | 2 Subtasks, one with a second attempt, approvals and denials, a foreign commit to main, 1 cancellation, 1 crash, all Git failures; 3,535,644 states | `OnlyApproved`, `DoneIsMerged`, `WaitingHasRow` | Does main hold only what was approved, and do Git and rows agree? |
| `task_completion` | 2 Subtasks, 3 completing decisions, 2 executions, 2 sessions, 4 user steps, 2 crashes, startups that come through, throw or are blocked; 399,654 states | `AtMostOnce`, `CompletionIsWhole`, `EffectSettles` | Is a result recorded and sent once, with all its facts, and settled once a session comes through its startup? |
| `kernel_services` | an execution and a control workflow, events *outcome*, *timer*, *cancel*; throwing snapshots, failing applies, recoveries, 1 crash, 2 decisions per drain (about 114,000 states); or one of five components, below; 1,087,120 states | `TypeOK`, `IssuanceAtomic`, `ClaimHeld`, `ObservationDurable`, `CompletionHasRun`, `ImplementsLedger`, and those below | Does the store remain the exactly-once ledger of `EventLedger`? |
| `task_services` | the replan of a Task or the permissions of its attempts, below; 2,035,252 states | seven, below | one question for each |
| `services` | four components on instances of their own, below; 1,860,825 states | five, below | one question for each |

Each of the last three chooses one component in its first state; only that one takes steps, the others rest. They ask:

| Run, component | Instance | Property | Question |
|---|---|---|---|
| `kernel_services`: storage | 3 workspaces of 2 Tasks, 2 checkpoints, 2 objects, 1 crash | `StoreIsConsistent` | Do counts, links and files agree across sweep, purge and checkpoint? |
| registry | a session and a command line process, 2 Executors, 2 commands, 1 hand edit or crash | `RegistryIsSound` | Is what is routed verified, and does no registration vanish? |
| chat | 2 texts and a file, or a verdict; one message delivered twice | `ChatIsServed` | Is nothing lost, repeated or answered with another's Task? |
| admission | six graphs of 3 Subtasks, 2 Executor classes, 2 proposals, 1 failure or crash | `AdmissionIsSound` | Is what was admitted executed in order, to its end? |
| delivery | 2 Tasks, 5 Subtasks, 1 retry, items at and over their budgets | `DeliveryIsExact`, `BudgetIsKept` | Does an attempt read what its plan cites, and hand on what fits? |
| `task_services`: replan | 2 Subtasks, 3 revisions, 1 cancellation, 1 unrecoverable failure or crash, attempts that hold their WorkUnit after they landed | `ReplanIsOrderly`, `StallIsExplained`, `LatePlanIsRejected` | Is a generation replanned once, and does no request or Task hang but for finding 4 and the release of 4.1? |
| permissions | an attempt and the one that continues it, a capability request and a promotion of each, at most 2 distinct requests, 2 concurrent calls, 1 fault (expiry, failed application or crash) | `GrantIsAuthorized`, `UndisturbedApproval`, `PausedIsBeingDecided`, `DeniedIsFinal` | Can a call with another's hooks grant, lose or reopen a request? |
| `services`: WorkUnit pool, leases | 3 attempts of 2 Subtasks that conflict pairwise or by a prefix, 2 units, 2 clock ticks, 1 death | `LeasesExclusive`, `OnlyItsOwnRelease` | Do heartbeats, sweeps, shared probes and late closes keep owners apart? |
| Planner proposals | 2 turns, 2 plans each, RPC, validation or interactive; runs that fail and leave their process; 1 crash | `ProposalIsExact` | Is a plan applied once and answered as it was decided, whichever process submits it? |
| sandboxes | 2 attempts of a Subtask, exceptions before, of and after the spawn, a cancellation and its cleanup, 1 crash or foreign startup | `SandboxIsAccounted` | Is every process known to somebody, and is what was removed or returned gone? |
| command line | 2 commands of up to 5 words, 1 change of a Task or listing meanwhile | `CommandsAreExact` | Is what runs what the line showed? |

Why the bounds are enough to be of use. Two Subtasks give a sibling that blocks or cancels, and a third adds
nothing the properties tell apart. Two attempts are needed for anything that one leaves to the next (leases,
a receipt, a worktree). Two crashes let the second fall into the startup after the first. One pause and one
cancellation fall at every point of everything else. Two workflows, two flows, two sessions or two commands are
the most that overlap usefully: the stores have no state per caller. `MaxDecisions = 2` lets the limit of a drain
bite in an instance of three events (in the code it is 100). Faults of different kinds share one bound in
the replan, permission, sandbox, registry and admission instances: any one of them, at every point.
`ae_crash` has one Subtask: with two and retries the instance is out of reach, and there the theorems of
section 6, which hold for any number, are what supports the properties. `MaxAttempts` is a
bound of the model, and an order that would need one more attempt is not taken. Interchangeable values are
symmetric in safety runs only.

The passing runs do not check for deadlock: a Task that is done with its events, waits for the
user or has used up its bounds really stops.

## 4. Disagreements found

Each is a run that TLC refutes, and an entry of `findings` in `PROJECT.json` with the line
it contradicts.

1. **`ae_retries`** (`CountedRetries`). A failure that a sweep and the runner both report arms two retry ticks. The
   second is authorised later by the retry that a *sibling* waits for, because `isKernelWakeAuthorized`
   asks the Task and not the Subtask: the first Subtask gets a second continuation.
2. **`ae_cancellation`** (`CancellationEnds`). The cleanup of a cancellation calls `remove()`, which throws for a handle that is not
   in the adapter's memory: after a restart, or when the executor's own path removed the sandbox first, the item stays
   `cancelling` however often the cleanup is retried, and keeps its Subtask, leases and capacity.
3. **`permission_crash`** (`ApprovalIsExact`). A crash between the decision and the application of an approval; startup
   recovers another publication first, and its workflow applies the approval with its own hook: a candidate the user has
   not approved becomes pending.
4. **`generation_replan_wakeup`** (`QuiescenceIsNoticed`). A request for a replan waits for quiescence; the last attempt to
   end is a cancelled one, whose outcome decides nothing, and nothing emits the event that would tell the kernel. The
   Task stays running and nobody asks the Planner.

### 4.1 Behaviours found on the way

These follow from the code and, where a formula is named, from the model. No run is kept for them: no line of the repository
promises the opposite, or another run shows the same cause, or their part is outside the model. `ReleaseIsNoticed` and
`OneSessionWriter`, which do contradict a line, are checked by adding them to a run that exists. To see another that names a
formula, state it in a module that extends the MC module and check it.

**Workflow and attempts**

* *A submit joins a drain that has ended* (`kernel-workflow.ts:124`): `draining` is cleared only in the microtask of
  `finally()`. The event waits for another submit or recovery, as one does whose `decide` threw or which the limit of a drain left. The
  timer recovers only Tasks whose status is `blocked` (`metaclaw-session.ts:1346`), so while the Task runs the event waits for another submit or for a
  restart: `DueEventDecided` without `task = "blocked"` fails.
* *The timer may not get to a Task* (`metaclaw-session.ts:1347`): it takes the blocked Tasks in order, returns at the first that
  changed, and an exception at an earlier one ends the round. `recoverDue` awaits cancellations, publications and expired attempts before it
  recovers the workflow, and any of them may throw. `TimerIsFair` assumes that neither goes on for ever.
* *`recover()` takes over work in progress* (`kernel-workflow-repo.ts:209`): it resets every `applying` row, also one whose
  apply another object awaits, and both run it. `kernel_services` shows what is left intact.
* *A sibling's failure is not isolated* (`attempt-terminal-service.ts:108`; `SiblingFailureIsIsolated`): a retryable failure blocks the whole Task;
  an attempt that ends meanwhile cannot land, nor land the failure of its landing.
* *A drain starves the process* (`attempt-supervisor.ts:73`; `DrainYields`): a contract failure is decided without a look at the
  Subtask, so a cancelled Subtask gets a correction nobody may launch, and the cancellation's `drain()` polls for it in microtasks.
* *Two attempts in one worktree* (`subtask-attempt-runner.ts:121`; `OneActiveAttempt`): pause and resume while an attempt whose container has
  exited still collects its result. `OneSandbox` holds, since the first container has exited.
* *A pause does not hold* (`kernel-execution-runtime.ts:927`): an attempt that was dispatched before the pause is launched
  after it and resumes the parked Task. Formula: `[][task = "parked" /\ task' = "running" => asked = "recovered"]_vars`.
* *A cancelled Subtask comes back* (`subtask-attempt-runner.ts:336`): the return of an awaited `claim()` writes `running` over
  `cancelled`. `CancelledStaysCancelled` pins it to this step, and it is proved that there is no other.
* *An integration is forgotten* (`kernel-execution-runtime.ts:693`; `OneCandidate`): a `sandbox_lost` event that is decided late writes `ready` over
  `awaiting_integration`, and the Subtask is handed over twice.
* *An outcome without a receipt is lost* (`attempt-supervisor.ts:107`) by a crash between `markTerminal` and `submit`.
* *A cancellation is refused* (`kernel-dispatch-item-repo.ts:246`): an uncertain item and its running successor are set to
  `cancelling` together, the unique index fails and the fence rolls back.
* *A WorkUnit outlives a cancellation* (`task-cancellation-coordinator.ts:229`): the release is guarded by a column no statement writes, so the
  unit waits for the runner's own `finally`, a sweep or a startup. `ConfirmExit` therefore gives back the leases only.
* *A partial cancellation is never cleaned up* when it leaves a pending item nobody launches: its `drain()` waits for ever. `ae_cleanup`
  therefore excludes it, and with `"cancel_subtasks"` in `Occurs` `CleanupIsRetried` fails.
* *A sandbox that cannot be stopped loses its leases* (`sandboxed-executor-adapter.ts:205`): with `"unstoppable"` in `Occurs`
  `OwnershipHeld` and `OneSandbox` fail; the run and the theorems about ownership exclude it by name.
* *A retry tick is dropped* (`kernel-execution-runtime.ts:1503`) when it reads the Task's status as captured before the block.
* A crash while a Task is blocked or parked leaves claims and leases (`metaclaw-session.ts:2660`); `startup_missing` events have the
  same id at every restart (`:2699`); a crash within startup turns a lost sandbox into an orphan report (`:2692`); retries
  and fallbacks are dispatched without regard to the kernel's slots (`attempt-supervisor.ts:80`).

**WorkUnits and leases**: the heartbeat of a swept attempt sets its unit running again, and if a fallback has the unit the unique index
throws inside `setInterval`, outside any handler; a heartbeat overwrites `waiting`; two attempts may be given the same provisioned unit; waits
are never resolved; a sweep does not release leases and revoked ones still block; overlap of two wildcard patterns (`a/*`, `*/b`) is
missed.

**Publication**: a crash between merge and transaction parks the merged candidate as stale, and it needs a second approval; a
cancellation during `applying` leaves the cancelled Subtask's change in main and the transaction throws; the stale path makes a cancelled
Subtask ready (`workspace-publication-worker.ts:162`; `CancelledSubtaskStays`); a parked row whose synchronisation failed stays while its Subtask runs again, so that
there are two publications and startup takes a done Subtask back (`DoneSubtaskStays`).

**Permission**: the hook of a runner or of a reissue does nothing for another's approval, whose publication then stays
`awaiting_approval`; after a crash a flow may apply another attempt's grant, and that sandbox stays paused. `UndisturbedApproval` and
`PausedIsBeingDecided` therefore speak of histories without faults.

**Replan**: finding 4, and its like: *a release wakes nobody* (`kernel-execution-runtime.ts:569`; `ReleaseIsNoticed`). Quiescence also wants every
WorkUnit and lease to be gone, but an attempt gives them back after awaits that follow its outcome (`subtask-attempt-runner.ts:966-1005`). A sibling's
drain decides that outcome meanwhile and finds the generation not quiescent; after the release the supervisor submits the outcome again, which is a
duplicate, and the drain it wakes finds nothing. The Task stays running and nobody asks the Planner: with `ReleaseIsNoticed` among the invariants of
`GenerationReplanWakeup.cfg` TLC shows it. Also: the timer asks the Planner again for a request that is being planned; executions of the timer and of the startup are not
chained behind background work, so a revision may supersede a running Subtask; a crash between `submitPlan` and admission leaves the request `submitted`;
with a blocked startup, a cancellation and a new prompt a late plan becomes the revision of a cancelled Task (hence `deaths = 0` in
`LatePlanIsRejected`); failed planning is not retried; a partial cancellation cancels a sibling's replan; a late outcome of a
superseded attempt blocks the Task; a deferred plan is revived only while its Task is blocked.

**Completion**: a startup that is blocked returns before `reconcileSending` and `listPending` (`metaclaw-session.ts:2599`), and one in which an awaited
publication or cancellation throws never delivers (`:2626`); neither is tried again, so that a `sending` or `pending` effect stays until a later session's
startup (`EffectSettles` speaks of sessions that come through); a parked Task whose Subtasks are all done cannot complete; `deliverTaskCompletion` swallows the notifier's errors
and the effect is recorded `sent`; a retry of an uncertain effect is refused; `decideDispatch` does not look at the Task, so an execution queued
behind a completing one issues a second `complete_task` (`AtMostOnce` holds per decision, and `CompletionIsWhole` holds for the Task); a crash
between the last integration and its `dispatch_requested` leaves a running Task nobody completes; unsettled residue of a cleanup
blocks completion for ever, which follows from finding 2.

**Sandboxes**: another session's startup signals a live executor, marks its row lost and does not wait, so its Subtask is dispatched
again while the first still runs (`OverlapIsReported` is exact about it); a crash between spawn and the record of the process
leaves an executor nobody signals; an abort during preparation is
lost until the cleanup of the cancellation stops the executor; an exception after the spawn, also of `logs()` or `remove()` when that cleanup removed the sandbox under
the run, is reported as `sandbox_configuration_failure` although the executor ran (`sandboxed-executor-adapter.ts:228`), may have succeeded and did its work; a row
that cannot be created leaves a `created` handle in memory; a removal that cannot be recorded leaves the row `running` or `exited` without a handle, and a `catch`
that cannot write either throws out of `execute()`; pause or resume of a child that has exited unreported throws; there is no
timeout on an executor.

**Storage**: a checkpoint stores an object file and records it later, and a sweep or purge may delete that file in between
(`raced` in `Restorable`); a crash between transaction and removal leaves orphan files; nothing calls `restoreCheckpoint`.

**Chat**: two texts in one chat at once may get each other's replies (`tests/integrations/feishu-app.test.ts:2955`); a direct answer may
pick up another text's Task while it settles; a file that arrives while a text is submitted is lost; a reply that a promotion ended
early leaves its text in planning, so that the next text may pick up its Task, and leaves its files pending, so that they are attached
again; the set of seen messages does not survive a restart; a permission word approves the newest request.

**Planner**: any failure tells the user to replay although the queued submission is still served, and the replay is a second
Task; an uncertain submission is not driven again by an identical replay; after one, a revised plan of the same turn is accepted as well; the
process of a failed run may submit after its run was reported as failed, and what it submits is decided and applied; *two
writers of a session file* (`planner-process-runner.ts:158-164`; `OneSessionWriter`): a run that fails sends SIGTERM and rejects without waiting, and the
next run of the session starts its Planner on the same file while the first still lives, where the comment of line 52 promises one writer (with
`OneSessionWriter` among the invariants of `Services.cfg` TLC shows it); a
crash between an effect and its record repeats a direct reply.

**Registry**: a candidate is built from the command's own snapshot, so another process's registration is overwritten; `executor reload`
reloads the command line's own registry; a crash between file and rows leaves every Executor unroutable; verifying a disabled
Executor marks it healthy; one failing Executor blocks every other registration.

**Admission**: an initial plan that was scheduled and recorded is lost by a crash before its activation; filtering by availability can make
two neighbours mergeable, and the plan is rejected; a plan deferred for a temporary unavailability is never revived; a probe
begun before a newer fault still heals; two Tasks may start where one is allowed.

**Evidence**: ids omit the Task, so an interaction cited by a second Task is refused, and two locators of the same normalised
name share a row; budgets of incoming handoffs are checked against recorded handoffs only, so siblings validated side by side exceed them
(`late` in `BudgetIsKept`).

**Commands**: Tab after `/help ` on an action adds a space that makes the line invalid; option names are offered after `--`, where they are invalid; an open quote or
an empty quoted word is executable for Enter and refused by `execute`, a last word in dashes the other way round; `/executor refresh all` is
refused though its handler knows `all`; Up and Down cycle suggestions while browsing the history; `/task clear` stops at the first Task whose cancellation is rejected.

## 5. Fairness

Liveness is claimed four times, each time with the fairness named in the module.

* `DueEventDecided` (`TimerSpec` of `TaskTimer`): the event loop runs what is ready and
  a handler returns in the end, also when recoveries keep resetting its application, and `decide`
  does not throw every time (`DrainsAreFair`: strong fairness of `Drains`, `Applied` and `Issue`); a process that died is started again, by a startup of any of the three kinds; the clock
  moves; and a Task that is blocked whenever the timer looks is recovered again and again (`TimerIsFair`, from `maybeReviewTaskPoolOnTimer`). The recovery of a
  Task that is not blocked is not assumed, nor that a startup gets to recover it, nor anything of the user, who is what unblocks a Task.
* `CleanupIsRetried` and the refuted `CancellationEnds` (`Fairness` of `AttemptExecution`): promises run on, an executor ends,
  requests are served, startup proceeds (all weak), and a sandbox that is stopped
  again and again is stopped at last (strong: `StopFails` may beat it any finite number of
  times, since the coordinator retries every second).
* `EffectSettles` (`FairSpec` of `TaskCompletion`): an execution's own steps, the application of a decision, the return of a
  delivery and the steps of a startup that has begun, to throw among them (all weak). Nothing starts a session again, nor tries a startup again that was blocked or
  threw: the property promises a settled effect while some session has come through its startup (`Recovered`), whatever other sessions crash, throw or are blocked.

Nothing is assumed of the user, of crashes, sweeps, clocks of leases or decisions.

## 6. Proofs

Every theorem holds for all values of the constants that satisfy the named assumptions of its
module: shapes of constants, fresh names that really are fresh, positive bounds, finite sets of Subtasks. TLC
evaluates them in every run. A safety property is proved from an inductive invariant, which was checked by TLC first, often
on a larger instance than that of the run.

**Workflow** (`KernelWorkflowProofs`). That a claimed event is still processing needs to know that no
reconciliation runs inside the stretch, hence `StretchOwnsTurn` (a workflow in its loop owns the turn);
that an issue leaves an event decided and processed together needs `ClaimHeld`. The inductive
invariant is `TypeOK`, `StretchOwnsTurn`, `IssuanceAtomic`, `ClaimHeld` and `ObservationDurable`
together. From it follow the five theorems about them, the action properties `CompletionsHaveRun` and `LedgerIsImmutable` (which no run checks: the
refinement implies it), and `WorkflowImplementsLedger`: every step of every workflow, of a crash and of a recovery is a
step of `EventLedger` or stutters, under the mapping that forgets whether a
queued event is claimed and whether a decided one is pending, applying or uncertain.

**Attempts** (`AttemptExecutionProofs`). `OutcomeIsAtomic` is disturbed by every
step that writes an item. That none of them takes an ended item back needs: a launched promise has an
item that was claimed (`OwnersHaveStarted`), a kick is one turn (`KickIsOneTurn`), promises die with the process, and a
cleanup visits only items that are cancelling or cancelled (`CleanupIsCancelling`). With the shapes these form
`IInv`; `OutcomesAreAtomic` and `ReleasesAreSealed` follow. `Owned` adds that an attempt owns its claim and leases from
the claim to the exit of its sandbox (`WorkersOwn`), has no sandbox before it executes (`NoEarlySandbox`), that a running
sandbox is owned and has its promise, or none until startup stops it (`RunningIsOwned`, `ExecutingRuns`), that a
cleanup visits no live promise (`CleanupIsIdle`) and that a Subtask has one active claim (`OneClaim`). It gives
`OwnershipIsHeld` and `SandboxesAreAlone`, both under `"unstoppable" \notin Occurs` (4.1 shows why they must). `Typed`
strengthens `TypeOK` in that the inbox is a sequence; `CancelledSubtasksStay` and `CandidatesAreFenced` are action properties.
`ExecutionImplementsRecord`: items, receipts and candidates implement `AttemptRecord`, under the mapping that forgets whether an ordered attempt is
pending or being launched, and everything in memory; every action has a lemma that names the step of the record it takes, or shows that it takes none. That a
landing never meets an item that ended without an outcome needs `Recordable`: whose sandbox was created has been started
(`SandboxedHaveStarted`), work without an outcome has a running item or one being cancelled (`WorkIsRunning`), and a claim is given back
before its item ends without an outcome (`ClaimsAreUnended`, `ClosingIsAccounted`). The record does not promise an outcome to every
attempt that was started: one that gets no capacity ends without.

**Resources** (`AttemptResourcesProofs`). `LeasesExclusive` is inductive with the types, once conflict is known to be symmetric and no
step extends a lease that has ended; `UnitsAreReleasedByTheirOwners` goes through the calls that write a unit, one by one.

**Delivery** (also `AttemptResourcesProofs`). An attempt reads what its plan cites because a planned Subtask's evidence is in the table
(`PlannedIsWritten`), stays there, the table being only added to, and an id keeps the kind and name of its source
(`RowsAreNamed`, `WritesRow`); what waits for integration was made from the body of its completion (`PendingIsMade`), and what was handed on
from what waited (`HandoffsAreMade`). `DeliveriesAreExact` follows. `BudgetsAreKept` adds that a completion without another beside it
keeps, until it is integrated, the room it was checked for (`OneIsPending`, `RoomIsLeft`), so that what a Subtask receives stays within its limits
(`WithinLimits`). The sums are cardinalities of sets of tagged units, which makes adding an item a fact about finite sets
(`TaggedAdds`) and not an induction over a fold.

**Publication** (`PublicationProofs`). A merge is sound because the candidate in `applying` is still the one approved, which an approval, a
reissue, a cancellation or a crash during the awaited Git commands might change. The invariant says of every commit which candidates it may
contain (`Heads`, `Fresh`), of every row in which state its candidate is approved (`Approved`) and of the publication under way, in every phase
of the worker, what its row, Subtask and branch are (`InFlight`, `Recovering`, `Requesting`). `MainIsApproved`,
`DoneSubtasksAreMerged` and `WaitingSubtasksHaveRows` follow.

**Permission** (`PermissionProofs`). `GrantsAreAuthorized` and `DenialsAreFinal` rest on what each event, decision and application says of its
request at every stage (`Asked`, `Justifications`, `Ledger`, `Decisions`, `Finals`), since any flow may be the one that applies it. `ApprovalsAreExact` and
`PausesAreDecided` hold without faults only, and their invariant says why: then each flow finds its own work (`OwnWork`), what lives
has its flow (`Lives`), and an approval lands with the flow that made it (`LandsAlone`, `Publishing`, `Denies`, `Pauses`).

**Replan** (`GenerationReplanProofs`). `ReplansAreOrderly` needs that revisions other than the first
come from a request of the one before (`First`, `Generations`, `Begun`). `StallsAreExplained` and `LatePlansAreRejected` need a
description of a calm process: which stage of a request has which execution, application or event behind it (`Stages`,
`Progress`, `Attended`), and that what waits for the release of a landed attempt was missed for that reason only (`Watched`).

**Completion** (`TaskCompletionProofs`). `NotificationsAreSentOnce` counts: records and notifications of a decision are bounded by the
states of its effect and its flights (`Counted`), for any number of sessions. `CompletionsAreWhole` needs that an application in its
synchronous stretch was checked in it (`Justified`).

**Services** (`ServicesProofs`). *Sandboxes*: where a run stands, its `catch` included, bounds what its handle, row and process may be, across signals, startups
of others and a cancellation's cleanup that takes the handle away: a handle that is gone or `exited` belongs to no living executor, and `catch` waits for one that has a process. *Storage*: counts equal links by the cardinality of the checkpoints that hold an object; a file that is to be removed is referenced by no link, but for
the checkpoints that raced. *Registry*: every command keeps what it verified until it has written and recorded it (`Working`, `WrittenIsVerified`,
`RowsWereProved`), from which routing and registrations follow for any number of processes. *Proposals*: the submission being served is the first
in the queue, and its row, event and application are known at each stretch (`BeingServed`, `Unserved`, `Effected`, `FirstRuns`,
`ToldIsLocked`), so that an accepted one locks its turn, takes effect once and is answered as recorded; the running Planner is
the head of the prompts, and a process at large belongs to it or to a run that failed (`AtLarge`). *Chat*: one delivery of a message is handled, after it was remembered (`OneHandler`), and nothing is submitted before
its stretch (`NotYet`); the pending files are those the text under submission named or came meanwhile (`Named`), and while a text is submitted
alone, every Task created is its own (`WaitsAlone`). `ChatsAreServed` follows. *Admission*: what is authorised, scheduled or applied was let
through with its lists (`OffersAreAdmitted`) and so were the rows (`GraphIsAdmitted`); results are dated by revision (`ResultsAreDated`),
attempts used only admitted classes (`TriedWhereAdmitted`), and with a cancelled Subtask everything below it is cancelled, also by a
cancellation that is decided and not yet applied (`CancelledDownwards`). `AdmissionsAreSound` follows, with `NeverStalls` from the
acyclicity of what was admitted: of the Subtasks that are ready, one waits for none of them, and nothing it waits for was cancelled.

Only model-checked:

* `DueEventDecided`, `CleanupIsRetried`, `EffectSettles`: liveness under fairness is out of the prover's reach.
* `CommandsAreExact`: the readings of a line are folds over its words; what they return needs induction over data, which the installed
  provers cannot instantiate.
* `OneCandidate`, `OneActiveAttempt`, `SiblingFailureIsIsolated`, `DrainYields`, `CancelledSubtaskStays`, `DoneSubtaskStays`,
  `ReleaseIsNoticed`, `OneSessionWriter` are false (4.1) and the four properties of section 4
  have counterexamples.

## 7. Not modelled

* Within the modelled parts: merge repairs and the conflict states of a publication (nothing calls them), the `autoApprove` option, budgets of
  grants, the safety mode of external non-idempotent attempts, the contents of completions and reports beyond their sizes, listings
  and pruning of the workflow's tables, the removal of worktrees.
* Dependencies between Subtasks outside `PlanAdmission` and `SubtaskDelivery`: a frontier of independent Subtasks keeps what the other
  properties are about.
* Presentation of sessions, memory, learning and guidance, prompts, configuration, transport and formatting of the gateways, pairing, cards and reactions, the
  search index, the aggregator and the verification pipeline (nothing calls them): text, scoring and I/O without state that execution depends on.

## 8. Plan

All components of the first plan are modelled, and every safety property of a passing run but one is a theorem. What is left, in order:

1. `OneCandidate` under the condition that makes it true: no late `sandbox_lost`.
2. The part of `CommandsAreExact` that does not read a line: what the history recalls was submitted.

## 9. Running

    tlc -config KernelServices.cfg MCKernelServices
    tlc -config KWTimer.cfg MCTaskTimer
    tlc -config AECrash.cfg MCAttemptExecution     # and AECleanup, AERetries, AECancellation
    tlc -config Publication.cfg MCPublication      # and TaskCompletion, PermissionCrash, GenerationReplanWakeup
    tlc -config TaskServices.cfg MCTaskServices
    tlc -config Services.cfg MCServices
    tlapm ServicesProofs.tla                       # and the other *Proofs.tla

`AERetries`, `AECancellation`, `PermissionCrash` and `GenerationReplanWakeup` end with a
counterexample. The larger
instances take two to four minutes with two workers, a proof module one to fifteen.
