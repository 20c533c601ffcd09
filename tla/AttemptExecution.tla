--------------------------- MODULE AttemptExecution ---------------------------
(***************************************************************************)
(* The attempts of one Task: from the dispatch item the kernel orders to   *)
(* the outcome the kernel reads back, with pauses, cancellations, expired  *)
(* claims and restarts on the way.                                         *)
(*                                                                         *)
(*   src/src/execution/attempt-supervisor.ts         the slots             *)
(*   src/src/execution/kernel-execution-runtime.ts   apply, run, recover   *)
(*   src/src/execution/subtask-attempt-runner.ts     one attempt           *)
(*   src/src/execution/attempt-terminal-service.ts   the terminal commit   *)
(*   src/src/execution/task-cancellation-coordinator.ts                    *)
(*   src/src/storage/kernel-dispatch-item-repo.ts    the dispatch items    *)
(*   src/src/kernel/control-kernel.ts                what an outcome means *)
(*   src/src/session/metaclaw-session.ts             startup               *)
(*                                                                         *)
(* An action is one stretch of JavaScript between two awaits.  Reading an  *)
(* event, deciding and applying a dispatch is one such stretch; the inbox  *)
(* and the ledger it goes through are module KernelWorkflow.  The Subtasks *)
(* are independent of each other, so a `ready` one is on the frontier.     *)
(***************************************************************************)
EXTENDS Integers, FiniteSets, Sequences, SequencesExt

CONSTANTS
  Subtasks,         \* the Subtasks of the active work graph revision
  MaxAttempts,      \* bound on the attempts of one Subtask
  MaxConcurrent,    \* maxConcurrentAttempts, the supervisor's slots
  Occurs,           \* what executors, resources and the user may do here
  MaxPauses,        \* bound on pauses by the user
  MaxCancels,       \* bound on cancellations by the user
  MaxCrashes        \* bound on process crashes

\* How an executor may fail, what an attempt may not get, and user commands.
Occurrences == {"retryable", "domain", "stale", "contract", "capacity", "unprepared",
                "unstoppable", "expires", "cancel_task", "cancel_subtasks"}

ASSUME BoundsAssumption ==
  /\ MaxAttempts \in Nat \ {0} /\ MaxConcurrent \in Nat \ {0}
  /\ MaxPauses \in Nat /\ MaxCancels \in Nat /\ MaxCrashes \in Nat
  /\ Occurs \subseteq Occurrences
  /\ IsFiniteSet(Subtasks)

Attempts == Subtasks \X (1..MaxAttempts)
Of(a) == a[1]

VARIABLES
  \* durable
  task,       \* tasks.status
  subtask,    \* subtasks.status
  item,       \* kernel_dispatch_items.status, or absent
  kind,       \* kernel_dispatch_items.attempt_kind
  receipt,    \* executor_attempt_receipts.terminal_state, or none
  candidates, \* attempts whose publication candidate was inserted
  inbox,      \* the pending kernel_events that are due, in the order they are claimed
  known,      \* the ids of all kernel_events
  timers,     \* the events whose retry timer_tick is pending
  retryWait,  \* the Task has a waiting kernel_retry dependency
  claimed,    \* attempts holding a claimed, running or waiting WorkUnit
  leased,     \* attempts with unreleased resource leases
  revoked,    \* leased attempts whose leases are marked for revocation
  sandbox,    \* attempt_sandboxes.status: absent, running, or exited
  \* in memory
  pc,         \* where the promise of each attempt stands
  result,     \* what runner.run() is about to return, or thrown
  kicking,    \* a synchronous supervisor.kick() is under way
  tail,       \* a coordinator.recover() waiting for its turn or at work
  cleanup,    \* cancelling items that recover() has still to visit
  lost,       \* sandboxLossAttemptIds of a startup under way
  \* environment
  phase,      \* live, or how far startup has come
  asked,      \* the user's request to start or resume the Task
  pauses, cancels, crashes

work      == <<task, subtask, item, kind, receipt, candidates>>
events    == <<inbox, known, timers, retryWait>>
resources == <<claimed, leased, revoked, sandbox>>
promises  == <<pc, result, kicking>>
cleaning  == <<tail, cleanup, lost>>
bounds    == <<pauses, cancels, crashes>>
vars      == <<work, events, resources, promises, cleaning, phase, asked, bounds>>

TaskStatus == {"ready", "running", "blocked", "parked", "cancelled"}
SubtaskStatus == {"ready", "running", "awaiting_decision", "blocked",
                  "awaiting_integration", "cancelled"}
ItemStatus == {"absent", "pending_launch", "launching", "running", "terminal",
               "uncertain", "cancelling", "cancelled"}
Kinds == {"primary", "continuation", "fallback", "contract_correction"}
TerminalState == {"none", "completed", "failed", "contract_blocked", "heartbeat_lost",
                  "task_paused"}
\* Where the promise of an attempt stands.
Stations == {"none", "launching", "claiming", "preparing", "executing", "collecting",
             "promoting", "closing", "marked", "submitting"}
Ids == {"outcome", "contract", "heartbeat", "capacity", "partition", "orphan",
        "missing", "sandbox_lost"}
\* `stale` stands for every failure kind whose verdict is block_work:
\* stale, unknown, permission, cancelled.
Reports == {"completed", "retryable", "domain", "stale", "paused", "contract",
            "capacity", "partition", "orphan", "sandbox_lost", "dispatch"}
EventRecords == [id : Ids, of : Attempts, says : Reports]
\* dispatch_requested, of no attempt and with a fresh id each time.
DispatchRequested == [id |-> "dispatch", of |-> <<>>, says |-> "dispatch"]

Open == {"pending_launch", "launching", "running", "cancelling"}
Ended == {"terminal", "cancelled"}
Active == {a \in Attempts : pc[a] # "none"}
Slots == MaxConcurrent - Cardinality(Active)
\* supervisor.drain() of a cancellation awaits Promise.resolve() again and again
\* while nothing is live and something is pending: timers and I/O starve.  What
\* could be launched has been, unless a restart lost the supervisor's context.
Spinning == tail = "waiting" /\ Active = {} /\ \E a \in Attempts : item[a] = "pending_launch"
\* Another promise may run: no turn is under way.
Free == phase = "live" /\ ~kicking /\ ~Spinning /\ \A a \in Attempts : pc[a] # "marked"
Fenced(s) == task = "cancelled" \/ subtask[s] = "cancelled"
Sealed(a) == receipt[a] # "none" /\ item[a] \in Ended
\* The interval that renews the WorkUnit and the leases ends with the attempt.
Expired(a) == "expires" \in Occurs /\ pc[a] \in {"none", "submitting"}
Rival(a, S) == \E b \in S \ {a} : Of(b) = Of(a)

Event(id, a, says) == [id |-> id, of |-> a, says |-> says]
\* INSERT OR IGNORE by event id.
Appended(q, e) == IF <<e.id, e.of>> \in known THEN q ELSE Append(q, e)
Enqueued(e) == inbox' = Appended(inbox, e) /\ known' = known \cup {<<e.id, e.of>>}
-----------------------------------------------------------------------------
(* Dispatch items. *)

\* A dispatch inserts a row with a fresh id: the next attempt of the Subtask.
IsNext(a) == /\ item[a] = "absent"
             /\ \A b \in Attempts : Of(b) = Of(a) /\ b[2] < a[2] => item[b] # "absent"
MayGrow(s) == \E a \in Attempts : Of(a) = s /\ IsNext(a)
NextOf(s) == CHOOSE a \in Attempts : Of(a) = s /\ IsNext(a)
CanInsert(s) == \A a \in Attempts : Of(a) = s => item[a] \notin Open

\* supervisor.enqueue: insertBatch, then kick.  The unique index on open items
\* makes the whole batch throw when a Subtask already has one.
Inserted(S, k) ==
  LET batch == {NextOf(s) : s \in {t \in S : \A u \in S : CanInsert(u)}} IN
  /\ item' = [a \in Attempts |-> IF a \in batch THEN "pending_launch" ELSE item[a]]
  /\ kind' = [a \in Attempts |-> IF a \in batch THEN k ELSE kind[a]]
  /\ kicking' = (batch # {})

\* markTerminal, markUncertain and reconcileLaunching on one row.
Terminal(status) == CASE status = "cancelling" -> "cancelled"
                      [] status \in {"launching", "running", "uncertain"} -> "terminal"
                      [] OTHER -> status
Uncertain(status) ==
  IF status \in {"pending_launch", "launching", "running"} THEN "uncertain" ELSE status

\* Faulty: what was running is launched again.
RelaunchableRunning(status) ==
  IF status \in {"launching", "running"} THEN "pending_launch" ELSE status

Relaunchable(status) == IF status = "launching" THEN "pending_launch" ELSE status

\* requestCancellation.  Two items of one Subtask that would both be cancelling
\* break the unique index, and the whole transaction rolls back.
CancellationRequested(S) ==
  [a \in Attempts |->
     CASE Of(a) \in S /\ item[a] = "pending_launch" -> "cancelled"
       [] Of(a) \in S /\ item[a] \in {"launching", "running", "uncertain"} -> "cancelling"
       [] OTHER -> item[a]]
Owning == {"launching", "running", "uncertain", "cancelling"}
MayRequest(S) ==
  \A a, b \in Attempts :
     (Of(a) \in S /\ Of(a) = Of(b) /\ item[a] \in Owning /\ item[b] \in Owning) => a = b
-----------------------------------------------------------------------------
(* The terminal commit: AttemptTerminalService.land, one SQL transaction. *)

CancellationWon(a) == Fenced(Of(a)) \/ item[a] \in {"cancelling", "cancelled"}
PauseWon(a) == ~CancellationWon(a) /\ task = "parked"

\* A second receipt violates its unique key; otherwise the Subtask fence moved.
LandThrows(a) ==
  \/ receipt[a] # "none"
  \/ PauseWon(a) /\ subtask[Of(a)] # "running"
  \/ ~CancellationWon(a) /\ ~PauseWon(a) /\ (task # "running" \/ subtask[Of(a)] # "running")

\* What the outcome event says, whatever the attempt has to say.
Reported(a, says) == IF CancellationWon(a) THEN "stale" ELSE IF PauseWon(a) THEN "paused" ELSE says

\* Faulty: the dispatch item is left to the supervisor.
LandedItemLater(a, state, next, id, says, more) ==
  /\ receipt' = [receipt EXCEPT ![a] = IF PauseWon(a) THEN "task_paused" ELSE state]
  /\ subtask' = [subtask EXCEPT ![Of(a)] = IF CancellationWon(a) THEN @
                                           ELSE IF PauseWon(a) THEN "ready" ELSE next]
  /\ candidates' = IF state = "completed" /\ ~CancellationWon(a) /\ ~PauseWon(a)
                   THEN candidates \cup {a} ELSE candidates
  /\ inbox' = Appended(inbox, Event(id, a, Reported(a, says))) \o more
  /\ known' = known \cup {<<id, a>>} \cup {<<more[i].id, more[i].of>> : i \in DOMAIN more}
  /\ UNCHANGED item

\* Faulty: the publication candidate is inserted without asking who won.
LandedUnfenced(a, state, next, id, says, more) ==
  /\ receipt' = [receipt EXCEPT ![a] = IF PauseWon(a) THEN "task_paused" ELSE state]
  /\ subtask' = [subtask EXCEPT ![Of(a)] = IF CancellationWon(a) THEN @
                                           ELSE IF PauseWon(a) THEN "ready" ELSE next]
  /\ candidates' = IF state = "completed" THEN candidates \cup {a} ELSE candidates
  /\ item' = [item EXCEPT ![a] = Terminal(@)]
  /\ inbox' = Appended(inbox, Event(id, a, Reported(a, says))) \o more
  /\ known' = known \cup {<<id, a>>} \cup {<<more[i].id, more[i].of>> : i \in DOMAIN more}

\* Faulty: the Subtask moves on although it was cancelled.
LandedOverCancelled(a, state, next, id, says, more) ==
  /\ receipt' = [receipt EXCEPT ![a] = IF PauseWon(a) THEN "task_paused" ELSE state]
  /\ subtask' = [subtask EXCEPT ![Of(a)] = IF PauseWon(a) THEN "ready" ELSE next]
  /\ candidates' = IF state = "completed" /\ ~CancellationWon(a) /\ ~PauseWon(a)
                   THEN candidates \cup {a} ELSE candidates
  /\ item' = [item EXCEPT ![a] = Terminal(@)]
  /\ inbox' = Appended(inbox, Event(id, a, Reported(a, says))) \o more
  /\ known' = known \cup {<<id, a>>} \cup {<<more[i].id, more[i].of>> : i \in DOMAIN more}

\* `more` are the events the caller adds right after the outcome.
Landed(a, state, next, id, says, more) ==
  /\ receipt' = [receipt EXCEPT ![a] = IF PauseWon(a) THEN "task_paused" ELSE state]
  /\ subtask' = [subtask EXCEPT ![Of(a)] = IF CancellationWon(a) THEN @
                                           ELSE IF PauseWon(a) THEN "ready" ELSE next]
  /\ candidates' = IF state = "completed" /\ ~CancellationWon(a) /\ ~PauseWon(a)
                   THEN candidates \cup {a} ELSE candidates
  /\ item' = [item EXCEPT ![a] = Terminal(@)]
  /\ inbox' = Appended(inbox, Event(id, a, Reported(a, says))) \o more
  /\ known' = known \cup {<<id, a>>} \cup {<<more[i].id, more[i].of>> : i \in DOMAIN more}

\* The runner's use of it.  A throw reaches the catch block, which repeats the
\* landing in vain unless the receipt is already there; only a run that ends
\* with a receipt marks its WorkUnit failed, and only success leaves it held.
RunLands(a, state, next, id, says) ==
  LET throws == LandThrows(a) IN
  /\ IF throws THEN UNCHANGED <<receipt, subtask, candidates, item, inbox, known>>
     ELSE Landed(a, state, next, id, says, <<>>)
  /\ result' = [result EXCEPT ![a] = IF throws /\ receipt[a] = "none" THEN "thrown" ELSE "landed"]
  /\ claimed' = IF (throws /\ receipt[a] = "none") \/ (~throws /\ state = "completed")
                THEN claimed ELSE claimed \ {a}
  /\ pc' = [pc EXCEPT ![a] = "closing"]
-----------------------------------------------------------------------------
(* The supervisor's kick and the first stretch of an attempt. *)

Launchable(a) == item[a] = "pending_launch" /\ ~Fenced(Of(a))

\* claimPending, then launch.
KickLaunch(a) ==
  /\ kicking /\ Slots > 0
  /\ \A b \in Attempts : pc[b] # "launching"
  /\ Launchable(a)
  /\ item' = [item EXCEPT ![a] = "launching"]
  /\ pc' = [pc EXCEPT ![a] = "launching"]
  /\ UNCHANGED <<task, subtask, kind, receipt, candidates, events, resources, result,
                 kicking, cleaning, phase, asked, bounds>>

\* Items that cannot be claimed may fill the slice of pending ones a kick takes.
KickDone ==
  /\ kicking
  /\ \A b \in Attempts : pc[b] # "launching"
  /\ \/ \A a \in Attempts : ~Launchable(a)
     \/ Slots <= Cardinality({a \in Attempts : item[a] = "pending_launch" /\ ~Launchable(a)})
  /\ kicking' = FALSE
  /\ UNCHANGED <<work, events, resources, pc, result, cleaning, phase, asked, bounds>>

Expected(k) == IF k = "primary" THEN "ready" ELSE "awaiting_decision"

\* markRunning, runDispatchItem up to its first await, and the runner's check.
\* A receipt that exists already is replayed in the code; an item with one is
\* never pending (OutcomeIsAtomic).
StartRun(a) ==
  /\ pc[a] = "launching"
  /\ item' = [item EXCEPT ![a] = "running"]
  /\ task' = IF task \in {"ready", "parked", "blocked"} THEN "running" ELSE task
  /\ retryWait' = (retryWait /\ task # "blocked")
  /\ IF task' = "running" /\ subtask[Of(a)] = Expected(kind[a])
     THEN pc' = [pc EXCEPT ![a] = "claiming"] /\ UNCHANGED result
     ELSE /\ pc' = [pc EXCEPT ![a] = "closing"]
          /\ result' = [result EXCEPT ![a] = "stale"]
  /\ UNCHANGED <<subtask, kind, receipt, candidates, inbox, known, timers, resources,
                 kicking, cleaning, phase, asked, bounds>>
-----------------------------------------------------------------------------
(* One attempt. *)

\* claim() found no unit, or the unique index on active claims of a Subtask
\* made it throw.
ClaimFails(a) ==
  /\ Free /\ pc[a] = "claiming"
  /\ pc' = [pc EXCEPT ![a] = "closing"]
  /\ \/ "capacity" \in Occurs /\ result' = [result EXCEPT ![a] = "capacity"]
     \/ Rival(a, claimed) /\ result' = [result EXCEPT ![a] = "thrown"]
  /\ UNCHANGED <<work, events, resources, kicking, cleaning, phase, asked, bounds>>

\* The WorkUnit is claimed, but another attempt's lease is in the way and the
\* claim is given back.
LeaseConflicts(a) ==
  /\ Free /\ pc[a] = "claiming"
  /\ ~Rival(a, claimed) /\ Rival(a, leased)
  /\ pc' = [pc EXCEPT ![a] = "closing"]
  /\ result' = [result EXCEPT ![a] = "partition"]
  /\ UNCHANGED <<work, events, resources, kicking, cleaning, phase, asked, bounds>>

\* Nothing is read again after the await of claim(): updateStatus writes
\* `running` over whatever the Subtask has become.
ClaimUnit(a) ==
  /\ Free /\ pc[a] = "claiming"
  /\ ~Rival(a, claimed)
  /\ \A b \in leased : Of(b) = Of(a) => Expired(b)
  /\ claimed' = claimed \cup {a}
  /\ leased' = leased \cup {a}
  /\ subtask' = [subtask EXCEPT ![Of(a)] = "running"]
  /\ pc' = [pc EXCEPT ![a] = "preparing"]
  /\ UNCHANGED <<task, item, kind, receipt, candidates, events, revoked, sandbox, result,
                 kicking, cleaning, phase, asked, bounds>>

\* Workspace, sandbox and executor are up: onRuntimeStarted.
Execute(a) ==
  /\ Free /\ pc[a] = "preparing"
  /\ sandbox' = [sandbox EXCEPT ![a] = "running"]
  /\ item' = [item EXCEPT ![a] = IF @ = "launching" THEN "running" ELSE @]
  /\ pc' = [pc EXCEPT ![a] = "executing"]
  /\ UNCHANGED <<task, subtask, kind, receipt, candidates, events, claimed, leased, revoked,
                 result, kicking, cleaning, phase, asked, bounds>>

\* The container can neither be waited for nor stopped: the run fails as a
\* configuration failure and leaves it behind.
AbandonSandbox(a) ==
  /\ Free /\ pc[a] = "executing" /\ "unstoppable" \in Occurs
  /\ RunLands(a, "failed", "awaiting_decision", "outcome", "domain")
  /\ UNCHANGED <<task, kind, timers, retryWait, leased, revoked, sandbox, kicking, cleaning,
                 phase, asked, bounds>>

\* The container has exited; its result, logs and files are read, and the
\* candidate commit is validated.
SandboxExits(a) ==
  /\ Free /\ pc[a] = "executing"
  /\ sandbox' = [sandbox EXCEPT ![a] = "exited"]
  /\ pc' = [pc EXCEPT ![a] = "collecting"]
  /\ UNCHANGED <<work, events, claimed, leased, revoked, result, kicking, cleaning, phase,
                 asked, bounds>>

\* An exception before the executor starts is an attempt_exception.
PreparationFails(a) ==
  /\ Free /\ pc[a] = "preparing" /\ "unprepared" \in Occurs
  /\ RunLands(a, "failed", "awaiting_decision", "outcome", "stale")
  /\ UNCHANGED <<task, kind, timers, retryWait, leased, revoked, sandbox, kicking, cleaning,
                 phase, asked, bounds>>

\* The executor is over, with a failure or on an abort.
ExecutorFails(a) ==
  /\ Free /\ pc[a] = "collecting"
  /\ \E says \in Occurs \cap {"retryable", "domain", "stale"} :
        RunLands(a, "failed", "awaiting_decision", "outcome", says)
  /\ UNCHANGED <<task, kind, timers, retryWait, leased, revoked, sandbox, kicking, cleaning, phase,
                 asked, bounds>>

BreaksContract(a) ==
  /\ Free /\ pc[a] = "collecting" /\ "contract" \in Occurs
  /\ RunLands(a, "contract_blocked", "awaiting_decision", "contract", "contract")
  /\ UNCHANGED <<task, kind, timers, retryWait, leased, revoked, sandbox, kicking, cleaning, phase,
                 asked, bounds>>

\* A valid report: on to the repository promotion if still current.
ExecutorSucceeds(a) ==
  /\ Free /\ pc[a] = "collecting"
  /\ IF task = "running" /\ subtask[Of(a)] = "running" /\ a \in claimed
     THEN /\ pc' = [pc EXCEPT ![a] = "promoting"]
          /\ UNCHANGED <<receipt, subtask, candidates, item, inbox, known, result, claimed>>
     ELSE RunLands(a, "failed", "awaiting_decision", "outcome", "stale")
  /\ UNCHANGED <<task, kind, timers, retryWait, leased, revoked, sandbox, kicking, cleaning, phase,
                 asked, bounds>>

\* The promotion request has been answered: success lands.
LandSuccess(a) ==
  /\ Free /\ pc[a] = "promoting"
  /\ RunLands(a, "completed", "awaiting_integration", "outcome", "completed")
  /\ UNCHANGED <<task, kind, timers, retryWait, leased, revoked, sandbox, kicking, cleaning,
                 phase, asked, bounds>>

\* Faulty: the finally block releases whatever happened.
CloseReleasing(a) ==
  /\ Free /\ pc[a] = "closing"
  /\ leased' = leased \ {a} /\ revoked' = revoked \ {a} /\ claimed' = claimed \ {a}
  /\ item' = [item EXCEPT ![a] = IF result[a] = "thrown" THEN Uncertain(@) ELSE Terminal(@)]
  /\ pc' = [pc EXCEPT ![a] = "marked"]
  /\ UNCHANGED <<task, subtask, kind, receipt, candidates, events, sandbox, result, kicking,
                 cleaning, phase, asked, bounds>>

\* The finally block, then the supervisor's markTerminal or markUncertain.
Close(a) ==
  /\ Free /\ pc[a] = "closing"
  /\ LET released == {b \in {a} : Sealed(b)} IN
     /\ leased' = leased \ released
     /\ revoked' = revoked \ released
     /\ claimed' = claimed \ released
  /\ item' = [item EXCEPT ![a] = IF result[a] = "thrown" THEN Uncertain(@) ELSE Terminal(@)]
  /\ pc' = [pc EXCEPT ![a] = "marked"]
  /\ UNCHANGED <<task, subtask, kind, receipt, candidates, events, sandbox, result, kicking,
                 cleaning, phase, asked, bounds>>

\* submit(): a landed outcome is in the inbox already.
Submit(a) ==
  /\ pc[a] = "marked"
  /\ CASE result[a] = "landed" -> UNCHANGED <<inbox, known>>
       [] result[a] = "thrown" -> Enqueued(Event("outcome", a, "retryable"))
       [] result[a] = "stale" -> Enqueued(Event("outcome", a, "stale"))
       [] OTHER -> Enqueued(Event(result[a], a, result[a]))
  /\ result' = [result EXCEPT ![a] = "none"]
  /\ pc' = [pc EXCEPT ![a] = "submitting"]
  /\ UNCHANGED <<work, timers, retryWait, resources, kicking, cleaning, phase, asked, bounds>>

\* submit() returned, at the latest once its drain is empty; the slot is free
\* and the supervisor kicks again.
Settle(a) ==
  /\ Free /\ pc[a] = "submitting"
  /\ pc' = [pc EXCEPT ![a] = "none"]
  /\ kicking' = TRUE
  /\ UNCHANGED <<work, events, resources, result, cleaning, phase, asked, bounds>>
-----------------------------------------------------------------------------
(* What the kernel makes of an event, and its application. *)

\* Some workflow of the Task drains the inbox: one that is inside a submit, or
\* serves a request, or has just applied a decision; and startup, the timer and
\* the publications of the Task do.
Draining ==
  \/ \E a \in Attempts : pc[a] = "submitting"
  \/ asked \in {"requested", "recovered"}
  \/ DispatchRequested \in ToSet(inbox)
  \/ task \in {"running", "blocked"}

\* Events are claimed in the order they became available; a success is dated
\* before its promotion request was answered and may overtake others.
Readable == {inbox[i] : i \in {j \in DOMAIN inbox : j = 1 \/ inbox[j].says = "completed"}}
Without(e) == RemoveFirst(inbox, e)

Reads(e) == Free /\ Draining /\ inbox' = Without(e) /\ UNCHANGED known

\* Heartbeat and startup events carry a hard-coded attempt kind.
KindOf(e) == IF e.id \in {"heartbeat", "orphan", "missing"} THEN "primary" ELSE kind[e.of]

Failures == {"retryable", "domain", "stale", "paused", "orphan"}
\* Tests of decideFailure, in its order.
Unrecoverable(e) == KindOf(e) = "contract_correction" \/ e.says = "orphan"
StaleOutcome(e) == ~Unrecoverable(e) /\ Fenced(Of(e.of))
SettledPause(e) ==
  ~Unrecoverable(e) /\ e.says = "paused" /\ task = "parked" /\ subtask[Of(e.of)] = "ready"
Judged(e) == e.says \in Failures /\ ~Unrecoverable(e) /\ ~StaleOutcome(e) /\ ~SettledPause(e)

\* The attempts of the preferred AgentClass that the snapshot counts.
PreferredKinds == {"primary", "continuation"}
PreferredTries(s) ==
  Cardinality({a \in Attempts : Of(a) = s /\ kind[a] \in PreferredKinds
                                /\ receipt[a] \notin {"none", "contract_blocked"}})

MayRetry(e) ==
  e.says = "retryable" /\ KindOf(e) \in PreferredKinds /\ PreferredTries(Of(e.of)) <= 1

Blocked == IF task = "running" THEN "blocked" ELSE task

NoOp(e) ==
  /\ Reads(e)
  /\ e.says \in Failures /\ (StaleOutcome(e) \/ SettledPause(e))
  /\ UNCHANGED <<work, timers, retryWait, resources, promises, cleaning, phase, asked, bounds>>

\* A second contract failure, and a correction that found no capacity, block too.
Blocks(e) ==
  \/ e.says \in Failures /\ Unrecoverable(e)
  \/ Judged(e) /\ e.says \in {"stale", "paused"}
  \/ e.says = "contract" /\ \E b \in Attempts \ {e.of} :
        Of(b) = Of(e.of) /\ receipt[b] = "contract_blocked"
  \/ e.says = "capacity" /\ KindOf(e) = "contract_correction"

BlockWork(e) ==
  /\ Reads(e) /\ Blocks(e)
  /\ subtask' = [subtask EXCEPT ![Of(e.of)] = IF @ = "awaiting_decision" THEN "blocked" ELSE @]
  /\ task' = Blocked
  /\ UNCHANGED <<item, kind, receipt, candidates, timers, retryWait, resources, promises,
                 cleaning, phase, asked, bounds>>

WaitForRetry(e) ==
  /\ Reads(e)
  /\ Judged(e) /\ MayRetry(e)
  /\ task' = Blocked
  /\ retryWait' = (retryWait \/ task = "running")
  /\ timers' = timers \cup {e}
  /\ UNCHANGED <<subtask, item, kind, receipt, candidates, resources, promises, cleaning,
                 phase, asked, bounds>>

\* dispatch_batch for the Subtask of the event.
Ordered(e, k) ==
  /\ MayGrow(Of(e.of))
  /\ Inserted({Of(e.of)}, k)
  /\ UNCHANGED <<task, subtask, receipt, candidates, timers, retryWait, resources, pc, result,
                 cleaning, phase, asked, bounds>>

\* No retry is left: the next AgentClass.
FallBack(e) ==
  /\ Reads(e)
  /\ Judged(e) /\ e.says \in {"retryable", "domain"} /\ ~MayRetry(e)
  /\ Ordered(e, "fallback")

\* No AgentClass is left either, and the replan budget is spent.
ParkForReplan(e) ==
  /\ Reads(e)
  /\ Judged(e) /\ e.says \in {"retryable", "domain"} /\ ~MayRetry(e)
  /\ task' = "parked"
  /\ UNCHANGED <<subtask, item, kind, receipt, candidates, timers, retryWait, resources,
                 promises, cleaning, phase, asked, bounds>>

\* decideContractFailure reads neither the Task nor the Subtask.
CorrectContract(e) ==
  /\ Reads(e)
  /\ e.says = "contract" /\ ~Blocks(e)
  /\ Ordered(e, "contract_correction")

\* A probe of the next AgentClass finds capacity: a primary dispatch.
Redispatch(e) ==
  /\ Reads(e)
  /\ e.says = "capacity" /\ ~Blocks(e)
  /\ Ordered(e, "primary")

\* wait_for_capacity and wait_for_partition block the whole Task.
WaitForResources(e) ==
  /\ Reads(e)
  /\ e.says = "partition" \/ (e.says = "capacity" /\ ~Blocks(e))
  /\ task' = Blocked
  /\ UNCHANGED <<subtask, item, kind, receipt, candidates, timers, retryWait, resources,
                 promises, cleaning, phase, asked, bounds>>

Dispatchable == {s \in Subtasks : subtask[s] = "ready" /\ CanInsert(s)}
KernelSlots == MaxConcurrent - Cardinality({a \in Attempts : item[a] \in Open})
Smaller(m, n) == IF m < n THEN m ELSE n

\* decideDispatch and its application.  A Subtask none of whose AgentClasses
\* is available drops out of the batch; an empty batch waits for capacity.
DispatchFrontier ==
  \/ \E S \in SUBSET Dispatchable :
       /\ S # {} /\ Cardinality(S) <= KernelSlots
       /\ \/ "capacity" \in Occurs
          \/ Cardinality(S) = Smaller(KernelSlots, Cardinality(Dispatchable))
       /\ \A s \in S : MayGrow(s)
       /\ Inserted(S, "primary")
       /\ UNCHANGED task
  \/ /\ "capacity" \in Occurs /\ Dispatchable # {} /\ KernelSlots > 0
     /\ task' = Blocked
     /\ UNCHANGED <<item, kind, kicking>>
  \/ /\ Dispatchable = {} \/ KernelSlots <= 0
     /\ task' = IF \/ \E a \in Attempts : item[a] \in Open
                   \/ \E s \in Subtasks : subtask[s] \in {"running", "awaiting_integration"}
                THEN task ELSE Blocked
     /\ UNCHANGED <<item, kind, kicking>>

Advance(e) ==
  /\ Reads(e)
  /\ e.says \in {"completed", "dispatch"}
  /\ DispatchFrontier
  /\ UNCHANGED <<subtask, receipt, candidates, timers, retryWait, resources, pc, result,
                 cleaning, phase, asked, bounds>>

\* recover_workspace_attempt, which returns a dispatch_requested.
RecoverWorkspace(e) ==
  /\ Free /\ Draining
  /\ e.says = "sandbox_lost"
  /\ subtask' = [subtask EXCEPT ![Of(e.of)] = IF @ = "cancelled" THEN @ ELSE "ready"]
  /\ task' = IF task = "blocked" THEN "ready" ELSE task
  /\ retryWait' = (retryWait /\ task # "blocked")
  /\ inbox' = Append(Without(e), DispatchRequested)
  /\ UNCHANGED <<known, item, kind, receipt, candidates, timers, resources, promises, cleaning,
                 phase, asked, bounds>>

\* The retry timer_tick: authorized only while the Task is blocked on a retry.
\* An execute() that began before the block reads the status it captured then.
ReadsCaptured == \E a \in Attempts : pc[a] = "submitting"

FireTimer(e) ==
  /\ Free /\ Draining
  /\ timers' = timers \ {e}
  /\ \/ /\ task = "blocked" /\ retryWait
        /\ MayGrow(Of(e.of)) /\ Inserted({Of(e.of)}, "continuation")
     \/ /\ task # "blocked" \/ ~retryWait \/ ReadsCaptured
        /\ UNCHANGED <<item, kind, kicking>>
  /\ UNCHANGED <<task, subtask, receipt, candidates, inbox, known, retryWait, resources, pc,
                 result, cleaning, phase, asked, bounds>>
-----------------------------------------------------------------------------
(* The user. *)

\* The drain of one request comes to its event before the next request.
\* Starting, or /task resume of, a ready, parked or blocked Task.  A blocked
\* one is unblocked with all its blocked Subtasks first.
Request ==
  /\ Free /\ asked \notin {"requested", "recovered"}
  /\ DispatchRequested \notin ToSet(inbox)
  /\ task \in {"ready", "parked", "blocked"}
  /\ task' = IF task = "blocked" THEN "ready" ELSE task
  /\ subtask' = [s \in Subtasks |-> IF task = "blocked" /\ subtask[s] = "blocked"
                                    THEN "ready" ELSE subtask[s]]
  /\ retryWait' = (retryWait /\ task # "blocked")
  /\ asked' = "requested"
  /\ UNCHANGED <<item, kind, receipt, candidates, inbox, known, timers, resources, promises,
                 cleaning, phase, bounds>>

\* Faulty: the sandbox is not asked.
InterruptedUnasked(a) ==
  /\ item[a] \in {"launching", "running", "uncertain"}
  /\ task = "parked" /\ subtask[Of(a)] = "running"
  /\ receipt[a] = "none"

\* Resuming a parked Task first lands attempts whose pause a crash interrupted.
Interrupted(a) ==
  /\ item[a] \in {"launching", "running", "uncertain"}
  /\ task = "parked" /\ subtask[Of(a)] = "running"
  /\ receipt[a] = "none" /\ sandbox[a] = "exited"

ReconcilePause(a) ==
  /\ Free /\ asked = "requested"
  /\ Interrupted(a)
  /\ Landed(a, "failed", "ready", "outcome", "paused", <<>>)
  /\ leased' = leased \ {a} /\ revoked' = revoked \ {a} /\ claimed' = claimed \ {a}
  /\ UNCHANGED <<task, kind, timers, retryWait, sandbox, promises, cleaning, phase, asked,
                 bounds>>

\* supervisor.recover: reconcileLaunching, then kick.
ServeRequest ==
  /\ Free /\ asked = "requested"
  /\ \A a \in Attempts : ~Interrupted(a)
  /\ item' = [a \in Attempts |-> Relaunchable(item[a])]
  /\ kicking' = TRUE
  /\ asked' = "recovered"
  /\ UNCHANGED <<task, subtask, kind, receipt, candidates, events, resources, pc, result,
                 cleaning, phase, bounds>>

\* submit(dispatch_requested), and the drain that comes to it.
SubmitRequest ==
  /\ Free /\ asked = "recovered"
  /\ asked' = "served"
  /\ inbox' = Append(inbox, DispatchRequested)
  /\ UNCHANGED <<work, known, timers, retryWait, resources, promises, cleaning, phase, bounds>>

Pause ==
  /\ Free /\ pauses < MaxPauses
  /\ task = "running"
  /\ task' = "parked"
  /\ asked' = IF asked \in {"requested", "recovered"} THEN asked ELSE "no"
  /\ pauses' = pauses + 1
  /\ UNCHANGED <<subtask, item, kind, receipt, candidates, events, resources, promises,
                 cleaning, phase, cancels, crashes>>

\* The coordinator's fence: Task, Subtasks, items and leases in one transaction.
Cancel(S, t) ==
  /\ Free /\ cancels < MaxCancels
  /\ task # "cancelled" /\ MayRequest(S)
  /\ task' = t
  /\ subtask' = [s \in Subtasks |-> IF s \in S THEN "cancelled" ELSE subtask[s]]
  /\ item' = CancellationRequested(S)
  /\ revoked' = revoked \cup {a \in leased : Of(a) \in S}
  /\ tail' = IF tail = "off" THEN "waiting" ELSE tail
  /\ cancels' = cancels + 1
  /\ UNCHANGED <<kind, receipt, candidates, events, claimed, leased, sandbox, promises,
                 cleanup, lost, phase, asked, pauses, crashes>>

CancelTask == "cancel_task" \in Occurs /\ Cancel(Subtasks, "cancelled")
CancelSubtasks(S) ==
  /\ "cancel_subtasks" \in Occurs /\ S # {}
  /\ \A s \in S : subtask[s] # "cancelled"
  /\ Cancel(S, task)
-----------------------------------------------------------------------------
(* The cleanup of cancelled attempts. *)

\* supervisor.drain() returned, so no attempt was live and none pending, and
\* coordinator.recover() lists the items to visit.
CleanupStarts ==
  /\ Free /\ tail = "waiting"
  /\ Active = {}
  /\ tail' = "cleaning"
  /\ cleanup' = {a \in Attempts : item[a] = "cancelling"}
  /\ UNCHANGED <<work, events, resources, promises, lost, phase, asked, bounds>>

\* Stop, inspect, remove; then release.  An attempt without a sandbox row has
\* nothing to stop.  The sandboxes are known by handle to the process that
\* created them, until they are removed, and remove() throws for any other.
\* The item's work_unit_id, which guards the release of the WorkUnit, is never
\* written.
Removable(a) == sandbox[a] # "exited"

CancellationSettled(a) ==
  /\ sandbox' = [sandbox EXCEPT ![a] = IF @ = "running" THEN "exited" ELSE @]
  /\ leased' = leased \ ({a} \cap revoked)
  /\ revoked' = revoked \ {a}
  /\ item' = [item EXCEPT ![a] = IF @ = "cancelling" THEN "cancelled" ELSE @]

CleanUp(a) ==
  /\ Free /\ tail = "cleaning"
  /\ a \in cleanup /\ Removable(a)
  /\ cleanup' = cleanup \ {a}
  /\ CancellationSettled(a)
  /\ UNCHANGED <<task, subtask, kind, receipt, candidates, events, claimed, promises, tail,
                 lost, phase, asked, bounds>>

\* A sandbox that cannot be stopped or removed, which one of another process or
\* one removed already never can, is left for the next round.
StopFails(a) ==
  /\ Free /\ tail = "cleaning"
  /\ a \in cleanup /\ sandbox[a] # "absent"
  /\ cleanup' = cleanup \ {a}
  /\ UNCHANGED <<work, events, resources, promises, tail, lost, phase, asked, bounds>>

\* settlePartialCancellation, if no residue blocks completion.
Residue ==
  \/ \E a \in Attempts : item[a] \in Open \cup {"uncertain"} \/ sandbox[a] = "running"
  \/ claimed # {} \/ leased # {}

\* Faulty: a Task whose every Subtask is cancelled counts as done.
CompletedTask ==
  IF task # "cancelled" /\ (\A s \in Subtasks : subtask[s] = "cancelled") /\ ~Residue
  THEN "done" ELSE task

SettledTask ==
  IF task # "cancelled" /\ (\A s \in Subtasks : subtask[s] = "cancelled") /\ ~Residue
  THEN "blocked" ELSE task

\* Faulty: what is left is left.
CleanupEndsForGood ==
  /\ Free /\ tail = "cleaning" /\ cleanup = {}
  /\ task' = SettledTask
  /\ tail' = "off"
  /\ UNCHANGED <<subtask, item, kind, receipt, candidates, events, resources, promises,
                 cleanup, lost, phase, asked, bounds>>

\* What is left is retried a second later.
CleanupEnds ==
  /\ Free /\ tail = "cleaning" /\ cleanup = {}
  /\ task' = SettledTask
  /\ tail' = IF (\E a \in Attempts : item[a] = "cancelling") \/ revoked # {}
             THEN "waiting" ELSE "off"
  /\ UNCHANGED <<subtask, item, kind, receipt, candidates, events, resources, promises,
                 cleanup, lost, phase, asked, bounds>>
-----------------------------------------------------------------------------
(* Expired claims. *)

\* recoverExpiredAttempts: land heartbeat_lost, then submit a second event.  A
\* landing that throws comes after the claim is gone and before that submit.
Sweep(a) ==
  /\ Free
  /\ a \in claimed /\ Expired(a)
  /\ claimed' = claimed \ {a}
  /\ LET beat == Event("heartbeat", a, "retryable") IN
     \/ /\ ~Fenced(Of(a)) /\ receipt[a] = "none" /\ ~LandThrows(a)
        /\ Landed(a, "heartbeat_lost", "awaiting_decision", "outcome", "retryable", <<beat>>)
     \/ /\ ~Fenced(Of(a)) /\ receipt[a] # "none"
        /\ Enqueued(beat)
        /\ UNCHANGED <<receipt, subtask, candidates, item>>
     \/ /\ Fenced(Of(a)) \/ (receipt[a] = "none" /\ LandThrows(a))
        /\ UNCHANGED <<receipt, subtask, candidates, item, inbox, known>>
  /\ UNCHANGED <<task, kind, timers, retryWait, leased, revoked, sandbox, promises, cleaning,
                 phase, asked, bounds>>
-----------------------------------------------------------------------------
(* Crash and startup. *)

Crash ==
  /\ crashes < MaxCrashes
  /\ phase' = "down"
  /\ pc' = [a \in Attempts |-> "none"]
  /\ result' = [a \in Attempts |-> "none"]
  /\ kicking' = FALSE /\ tail' = "off" /\ cleanup' = {} /\ lost' = {}
  /\ asked' = IF asked = "served" THEN asked ELSE "no"
  /\ crashes' = crashes + 1
  /\ UNCHANGED <<work, events, resources, pauses, cancels>>

\* Any sequence of the elements of S, each once.
Orderings(S) == {q \in [1..Cardinality(S) -> S] : \A x \in S : \E i \in DOMAIN q : q[i] = x}

Survived == {a \in Attempts : sandbox[a] = "running"}

\* Surviving sandboxes are stopped; their attempts are uncertain, unless a
\* cancellation owns them.
ReconcileSandboxes ==
  /\ phase = "down"
  /\ phase' = "reconciled"
  /\ lost' = Survived
  /\ sandbox' = [a \in Attempts |-> IF a \in Survived THEN "exited" ELSE sandbox[a]]
  /\ LET mine == {a \in Survived : item[a] \notin {"cancelling", "cancelled"}} IN
     /\ item' = [a \in Attempts |-> IF a \in mine THEN Uncertain(item[a]) ELSE item[a]]
     /\ \E q \in Orderings({Event("sandbox_lost", a, "sandbox_lost") : a \in mine}) :
           inbox' = inbox \o q
     /\ known' = known \cup {<<"sandbox_lost", a>> : a \in mine}
  /\ UNCHANGED <<task, subtask, kind, receipt, candidates, timers, retryWait, claimed, leased,
                 revoked, promises, tail, cleanup, asked, bounds>>

\* coordinator.recover() in a process that knows no sandbox of the last one.
RecoverCancellations ==
  /\ phase = "reconciled"
  /\ phase' = "cleaned"
  /\ LET mine == {a \in Attempts : item[a] = "cancelling" /\ Removable(a)} IN
     /\ item' = [a \in Attempts |-> IF a \in mine THEN "cancelled" ELSE item[a]]
     /\ leased' = leased \ (mine \cap revoked)
     /\ revoked' = revoked \ mine
  /\ UNCHANGED <<task, subtask, kind, receipt, candidates, events, claimed, sandbox, promises,
                 cleaning, asked, bounds>>

\* Startup of a running Task lands every claimed attempt that has no receipt,
\* takes its leases and claim, and reports it unless its sandbox was.
SealOrphan(a) ==
  /\ phase = "cleaned" /\ task = "running"
  /\ a \in claimed
  /\ LET report == IF a \in lost THEN <<>> ELSE <<Event("orphan", a, "orphan")>> IN
     \/ /\ receipt[a] = "none" /\ ~LandThrows(a)
        /\ Landed(a, "heartbeat_lost", "awaiting_decision", "outcome", "retryable", report)
     \/ /\ receipt[a] # "none"
        /\ inbox' = inbox \o report
        /\ known' = known \cup {<<report[i].id, report[i].of>> : i \in DOMAIN report}
        /\ UNCHANGED <<receipt, subtask, candidates, item>>
  /\ leased' = leased \ {a} /\ revoked' = revoked \ {a} /\ claimed' = claimed \ {a}
  /\ phase' = IF claimed = {a} THEN "recovering" ELSE "cleaned"
  /\ UNCHANGED <<task, kind, timers, retryWait, sandbox, promises, cleaning, asked, bounds>>

\* A landing that throws blocks the Task and ends its recovery.
BlockStartup(a) ==
  /\ phase = "cleaned" /\ task = "running"
  /\ a \in claimed /\ receipt[a] = "none" /\ LandThrows(a)
  /\ task' = "blocked"
  /\ phase' = "live"
  /\ lost' = {}
  /\ UNCHANGED <<subtask, item, kind, receipt, candidates, events, resources, promises, tail,
                 cleanup, asked, bounds>>

\* A running Task without claims and without anything in the inbox is reported
\* under the first Subtask that is not cancelled.
ReportMissing ==
  /\ phase = "cleaned" /\ task = "running" /\ claimed = {}
  /\ phase' = "recovering"
  /\ \/ /\ inbox = <<>> /\ timers = {}
        /\ \E s \in Subtasks : subtask[s] # "cancelled"
                               /\ Enqueued(Event("missing", <<s, 1>>, "orphan"))
     \/ /\ inbox # <<>> \/ timers # {} \/ \A s \in Subtasks : subtask[s] = "cancelled"
        /\ UNCHANGED <<inbox, known>>
  /\ UNCHANGED <<work, timers, retryWait, resources, promises, cleaning, asked, bounds>>

\* recoverDue for running and blocked Tasks: supervisor.recover comes first.
RecoverDue ==
  /\ phase = "recovering" \/ (phase = "cleaned" /\ task # "running")
  /\ phase' = "live"
  /\ IF task \in {"running", "blocked"}
     THEN item' = [a \in Attempts |-> Relaunchable(item[a])] /\ kicking' = TRUE
     ELSE UNCHANGED <<item, kicking>>
  /\ lost' = {}
  /\ UNCHANGED <<task, subtask, kind, receipt, candidates, events, resources, pc, result, tail,
                 cleanup, asked, bounds>>
-----------------------------------------------------------------------------
Init ==
  /\ task = "ready" /\ subtask = [s \in Subtasks |-> "ready"]
  /\ item = [a \in Attempts |-> "absent"] /\ kind = [a \in Attempts |-> "primary"]
  /\ receipt = [a \in Attempts |-> "none"] /\ candidates = {}
  /\ inbox = <<>> /\ known = {} /\ timers = {} /\ retryWait = FALSE
  /\ claimed = {} /\ leased = {} /\ revoked = {}
  /\ sandbox = [a \in Attempts |-> "absent"]
  /\ pc = [a \in Attempts |-> "none"] /\ result = [a \in Attempts |-> "none"]
  /\ kicking = FALSE /\ tail = "off" /\ cleanup = {} /\ lost = {}
  /\ phase = "live" /\ asked = "no"
  /\ pauses = 0 /\ cancels = 0 /\ crashes = 0

Ends(a) == \/ PreparationFails(a) \/ AbandonSandbox(a) \/ ExecutorFails(a) \/ BreaksContract(a)
           \/ ExecutorSucceeds(a)
Runs(a) == \/ KickLaunch(a) \/ StartRun(a) \/ ClaimFails(a) \/ LeaseConflicts(a)
           \/ ClaimUnit(a) \/ Execute(a) \/ SandboxExits(a) \/ Ends(a) \/ LandSuccess(a) \/ Close(a)
           \/ Submit(a) \/ Settle(a)
Decides(e) == \/ NoOp(e) \/ BlockWork(e) \/ WaitForRetry(e) \/ FallBack(e)
              \/ ParkForReplan(e) \/ CorrectContract(e) \/ Redispatch(e)
              \/ WaitForResources(e) \/ Advance(e) \/ RecoverWorkspace(e)
Startup == \/ ReconcileSandboxes \/ RecoverCancellations \/ ReportMissing \/ RecoverDue
           \/ \E a \in Attempts : SealOrphan(a) \/ BlockStartup(a)

Next ==
  \/ \E a \in Attempts : Runs(a) \/ ReconcilePause(a) \/ CleanUp(a) \/ StopFails(a) \/ Sweep(a)
  \/ \E e \in Readable : Decides(e)
  \/ \E e \in timers : FireTimer(e)
  \/ KickDone \/ Request \/ ServeRequest \/ SubmitRequest \/ Pause \/ CancelTask
  \/ \E S \in SUBSET Subtasks : CancelSubtasks(S)
  \/ CleanupStarts \/ CleanupEnds \/ Crash \/ Startup

\* Promises run, executors end, a crashed process is started again, and a
\* sandbox that is stopped again and again is stopped at last.
Fairness ==
  /\ WF_vars(KickDone) /\ WF_vars(Startup)
  /\ WF_vars(ServeRequest) /\ WF_vars(SubmitRequest)
  /\ WF_vars(CleanupStarts) /\ WF_vars(CleanupEnds)
  /\ \A a \in Attempts : WF_vars(Runs(a)) /\ SF_vars(CleanUp(a))

Spec == Init /\ [][Next]_vars /\ Fairness
-----------------------------------------------------------------------------
(* Properties. *)

\* Every variable keeps the values its column or field can hold.
TypeOK ==
  /\ task \in TaskStatus /\ subtask \in [Subtasks -> SubtaskStatus]
  /\ item \in [Attempts -> ItemStatus] /\ kind \in [Attempts -> Kinds]
  /\ receipt \in [Attempts -> TerminalState] /\ candidates \subseteq Attempts
  /\ \A i \in DOMAIN inbox : inbox[i] \in EventRecords \cup {DispatchRequested}
  /\ known \subseteq Ids \X Attempts /\ timers \subseteq EventRecords
  /\ retryWait \in BOOLEAN
  /\ claimed \subseteq Attempts /\ leased \subseteq Attempts /\ revoked \subseteq leased
  /\ sandbox \in [Attempts -> {"absent", "running", "exited"}]
  /\ pc \in [Attempts -> Stations]
  /\ result \in [Attempts -> {"none", "landed", "thrown", "stale", "capacity", "partition"}]
  /\ kicking \in BOOLEAN
  /\ tail \in {"off", "waiting", "cleaning"}
  /\ cleanup \subseteq Attempts /\ lost \subseteq Attempts
  /\ phase \in {"live", "down", "reconciled", "cleaned", "recovering"}
  /\ asked \in {"no", "requested", "recovered", "served"}
  /\ pauses \in 0..MaxPauses /\ cancels \in 0..MaxCancels /\ crashes \in 0..MaxCrashes

\* A receipt never exists without the ended dispatch item and the outcome event
\* that AttemptTerminalService.land commits with it, wherever a crash falls.
OutcomeIsAtomic ==
  \A a \in Attempts : receipt[a] # "none" =>
     item[a] \in Ended /\ \E id \in {"outcome", "contract"} : <<id, a>> \in known

\* Two sandboxes of one Subtask never run together, in one worktree, although a
\* retry, a fallback, a recovery, a resume and the frontier may each dispatch it.
OneSandbox ==
  \A a, b \in Attempts :
     (Of(a) = Of(b) /\ sandbox[a] = "running" /\ sandbox[b] = "running") => a = b

\* The promise of an attempt is between its claim and its landing.
AtWork == {"preparing", "executing", "collecting", "promoting"}
Together(a, b) == Of(a) = Of(b) /\ a # b /\ pc[a] \in AtWork /\ pc[b] \in AtWork

\* docs/adr/0021, "at most one active attempt per Subtask".
OneActiveAttempt == \A a, b \in Attempts : ~Together(a, b)

\* A Subtask is handed to integration once.  With a pause and a crash it is not:
\* recover_workspace_attempt writes ready over awaiting_integration.
OneCandidate == \A a, b \in candidates : Of(a) = Of(b) => a = b

\* No candidate enters the publication queue for an attempt whose Task or
\* Subtask was cancelled or whose Task was paused while its promotion was
\* awaited (the fence inside land).
NothingAfterCancellation ==
  [][\A a \in candidates' \ candidates :
        ~Fenced(Of(a)) /\ item[a] \notin {"cancelling", "cancelled"} /\ task # "parked"]_vars

\* docs/adr/0026, "no unproven claim or lease is released": while the sandbox of
\* an attempt runs, its leases are held.  Only an executor whose sandbox cannot
\* be stopped breaks this.
OwnershipHeld == \A a \in Attempts : sandbox[a] = "running" => a \in leased

\* An attempt's leases go only once its outcome is sealed or its cancellation
\* is settled.
ReleaseIsSealed == [][\A a \in leased \ leased' : item'[a] \in Ended]_vars

\* docs/adr/0023, "the preferred AgentClass gets at most one delayed
\* continuation": of the continuations that left a receipt a Subtask has one at
\* most.  A second tick of one failure is granted by the retry that a sibling
\* waits for, since isKernelWakeAuthorized asks the Task and not the Subtask.
CountedRetries ==
  \A a, b \in Attempts :
     (/\ Of(a) = Of(b) /\ kind[a] = "continuation" /\ kind[b] = "continuation"
      /\ receipt[a] # "none" /\ receipt[b] # "none") => a = b

\* A cancelling item is cancelled in the end, across stops that fail and crashes,
\* unless its sandbox was removed before recover() came to it.
CleanupIsRetried ==
  \A a \in Attempts :
     item[a] = "cancelling" ~> (item[a] = "cancelled" \/ sandbox[a] = "exited")

\* docs/current/technical-overview.md, "`cancelling` dispatch/publication rows
\* continue to own capacity until the exact sandbox is exited or missing": a
\* cancelling item is cancelled in the end, across failed stops and crashes.
\* coordinator.recover() cannot remove a sandbox it has no handle of.
CancellationEnds ==
  \A a \in Attempts : item[a] = "cancelling" ~> item[a] = "cancelled"

\* docs/current/technical-overview.md, "A sibling failure never cancels the rest
\* of the batch": an executor that ran to its end leaves a receipt.
SiblingFailureIsIsolated ==
  \A a \in Attempts : pc[a] = "marked" /\ sandbox[a] = "exited" => receipt[a] # "none"

\* docs/current/technical-overview.md, "Subtask cancellation ... while independent
\* siblings continue": the drain of a cancellation never starves the process.
DrainYields == ~(phase = "live" /\ ~kicking /\ Spinning)

\* tests/execution/subtask-attempt-runner.test.ts, "does not resurrect a
\* cancelled Subtask": no late outcome, resume or recovery takes a Subtask out of
\* cancelled.  The one step that can is the return of an awaited claim().
CancelledStaysCancelled ==
  [][\A s \in Subtasks : (subtask[s] = "cancelled" /\ subtask'[s] # "cancelled") =>
        \E a \in Attempts : Of(a) = s /\ pc[a] = "claiming"]_vars
-----------------------------------------------------------------------------
\* Dispatch items, receipts and candidates implement the abstract record of the
\* attempts, whoever writes to them: runner, supervisor, sweep, coordinator or a
\* startup.
StageOf(a) == CASE item[a] = "absent" -> "absent"
                [] item[a] \in {"pending_launch", "launching"} -> "ordered"
                [] item[a] = "running" -> "started"
                [] item[a] = "uncertain" -> "doubtful"
                [] item[a] = "cancelling" -> "withdrawing"
                [] item[a] = "cancelled" -> "withdrawn"
                [] OTHER -> "ended"

Record == INSTANCE AttemptRecord
  WITH stage <- [a \in Attempts |-> StageOf(a)], outcome <- receipt, published <- candidates

ImplementsRecord == Record!Spec
=============================================================================
