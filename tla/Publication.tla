----------------------------- MODULE Publication -----------------------------
(* The way of an attempt's result into the main branch of the Project, for one *)
(* Task and one generation: the validated candidate and its row                *)
(* (execution/subtask-attempt-runner.ts), the user's approval or denial, the   *)
(* publication worker (execution/workspace-publication-worker.ts), the git     *)
(* commands it awaits (execution/managed-git-workspace.ts), the loop of        *)
(* execute() that drains it, the reissue of a stale candidate, cancellation,   *)
(* crash and startup. The executions of one Task run one after the other       *)
(* (startBackgroundExecution), so there is one `station` for the execution and *)
(* the drain it awaits. How an attempt runs and fails is in AttemptExecution;  *)
(* the conflict-repair states have no caller in the code and are left out.     *)
EXTENDS Integers, FiniteSets, Sequences

CONSTANTS Subtasks,     \* Subtasks of the generation, all independent
          Rank,         \* topology layer and dispatch order: an injection to Nat
          MaxAttempts,  \* bound on the attempts of each Subtask
          MaxCommits,   \* bound on commits to main by anybody else
          MaxCancels,   \* bound on cancellations
          MaxCrashes,   \* bound on crashes
          GitFaults     \* the git failures that occur: see GitFault

GitFault == {"dirty", "conflict", "remove"}

ASSUME PublicationAssumption ==
    /\ Rank \in [Subtasks -> Nat]
    /\ \A s, t \in Subtasks : Rank[s] = Rank[t] => s = t
    /\ MaxAttempts \in [Subtasks -> Nat \ {0}]
    /\ GitFaults \subseteq GitFault

VARIABLES task,         \* the Task's status
          subtasks,     \* the status of each Subtask
          attempts,     \* the attempt of each Subtask that runs, if any
          rows,         \* the table workspace_publications, by attempt
          authorized,   \* the commits the user has approved
          main,         \* the Project's main branch
          trees,        \* the worktree and branch of each Subtask
          station,      \* where execute() and the drain it awaits are
          startup,      \* parked rows that startup has still to reissue
          others, cancels, crashes   \* what has happened, for the bounds

stores == << task, subtasks, rows, authorized >>
bounds == << others, cancels, crashes >>
vars == << stores, attempts, main, trees, station, startup, bounds >>

Attempts == UNION {{s} \X (1 .. MaxAttempts[s]) : s \in Subtasks}

(* A commit made in a worktree: for which attempt, and above which main.       *)
Commit == [by : Attempts, on : Nat]
NoCommit == [by |-> << >>, on |-> 0]

(* A branch: its own last commit, if any, every worktree commit it reaches and *)
(* the last commit of main it contains.                                        *)
Branch == [tip : Commit \cup {NoCommit}, has : SUBSET Commit, base : Nat]
NoTree == [tip |-> NoCommit, has |-> {}, base |-> -1]

(* merge-base --is-ancestor.                                                   *)
Contains(h, g) == g.tip \in h.has \cup {NoCommit} /\ g.base <= h.base

RowStatus == {"none", "awaiting_approval", "pending", "applying", "parked",
              "denied", "cancelling", "cancelled", "integrated"}
Row == [status : RowStatus, candidate : Branch \cup {NoTree}]
NoRow == [status |-> "none", candidate |-> NoTree]

Idle == [phase |-> "idle", row |-> << >>, outcomes |-> << >>, progress |-> FALSE]
Applying == {"ensuring", "checking", "merging", "committing", "removing", "synchronizing"}
Phases == Applying \cup {"idle", "settling", "handling", "requesting", "closing"}

Init ==
    /\ task = "running"
    /\ subtasks = [s \in Subtasks |-> "ready"]
    /\ attempts = [s \in Subtasks |-> [phase |-> "none", n |-> 0]]
    /\ rows = [a \in Attempts |-> NoRow]
    /\ authorized = {}
    /\ main = [version |-> 0, has |-> {}]
    /\ trees = [s \in Subtasks |-> NoTree]
    /\ station = Idle
    /\ startup = {}
    /\ others = 0 /\ cancels = 0 /\ crashes = 0

SubtaskOf(a) == a[1]
Set(s, status) == subtasks' = [subtasks EXCEPT ![s] = status]

-----------------------------------------------------------------------------
(* The statements of workspace-publication-repo.ts.                            *)

Mark(r, a, from, to) ==
    IF r[a].status \in from THEN [r EXCEPT ![a].status = to] ELSE r

(* recoverApplying: what an interrupted drain left, unless it was cancelled.   *)
Recovered(r) ==
    [a \in Attempts |->
        IF r[a].status = "applying" /\ task # "cancelled"
           /\ subtasks[SubtaskOf(a)] # "cancelled"
        THEN [r[a] EXCEPT !.status = "pending"] ELSE r[a]]

(* findNextBlocking: the first open row in the order of the Work Graph.        *)
Open(r) == {a \in Attempts : r[a].status \in {"pending", "applying", "cancelling"}}
First(r) == {a \in Open(r) : \A b \in Open(r) : Rank[SubtaskOf(a)] <= Rank[SubtaskOf(b)]}

(* requestCancellation for some Subtasks.                                      *)
CancelRequested(r, S) ==
    [a \in Attempts |->
        IF SubtaskOf(a) \notin S THEN r[a]
        ELSE IF r[a].status \in {"awaiting_approval", "pending", "parked", "denied"}
        THEN [r[a] EXCEPT !.status = "cancelled"]
        ELSE IF r[a].status = "applying" THEN [r[a] EXCEPT !.status = "cancelling"]
        ELSE r[a]]

(* hasBlockingResidue.                                                         *)
Residual == {"awaiting_approval", "pending", "applying", "cancelling"}
Residue == \E a \in Attempts : rows[a].status \in Residual

(* A mutant of Reissued: the earlier approval is taken for the new candidate.  *)
ReissuedApproved(r, a, h) ==
    [r EXCEPT ![a] = [status |-> "pending", candidate |-> h]]

(* reissueAfterStale: the synchronized candidate under a new request.          *)
Reissued(r, a, h) ==
    [r EXCEPT ![a] = [status |-> "awaiting_approval", candidate |-> h]]

-----------------------------------------------------------------------------
(* The git commands.                                                           *)

MainHead == [tip |-> NoCommit, has |-> main.has, base |-> main.version]

(* ensure: the worktree, created from main when there is none.                 *)
Ensured(s) == [trees EXCEPT ![s] = IF @ = NoTree THEN MainHead ELSE @]

(* A commit in the worktree, with main merged into it.                         *)
CommittedFor(a, h) ==
    LET c == [by |-> a, on |-> main.version]
    IN [tip |-> c, has |-> h.has \cup main.has \cup {c}, base |-> main.version]

(* synchronizeCandidate: main merged into the worktree, if it is not there.    *)
Synchronized(a, h) == IF Contains(h, MainHead) THEN h ELSE CommittedFor(a, h)

(* promoteCandidate: merge --no-ff, or nothing when main has the commit.       *)
Promoted(h) ==
    IF h.tip \in main.has \cup {NoCommit} THEN main
    ELSE [version |-> main.version + 1, has |-> main.has \cup h.has]

-----------------------------------------------------------------------------
(* Attempts: only what publication sees of them.                               *)

Running(s) == attempts[s].phase # "none"
Serving == startup = {}

(* The kernel dispatches a ready Subtask; its worktree is ensured.             *)
Dispatch(s) ==
    /\ station.phase = "settling" /\ task = "running"
    /\ subtasks[s] = "ready" /\ ~Running(s)
    /\ attempts[s].n < MaxAttempts[s]
    /\ Set(s, "running")
    /\ attempts' = [attempts EXCEPT ![s] = [phase |-> "executing", n |-> @.n + 1]]
    /\ trees' = Ensured(s)
    /\ UNCHANGED << task, rows, authorized, main, station, startup, bounds >>

(* The executor has committed, merged main, and the candidate is validated;    *)
(* the permission request for it is awaited.                                   *)
Validate(s) ==
    LET a == << s, attempts[s].n >> IN
    /\ attempts[s].phase = "executing"
    /\ subtasks[s] = "running" /\ task = "running"
    /\ trees' = [trees EXCEPT ![s] = CommittedFor(a, @)]
    /\ attempts' = [attempts EXCEPT ![s].phase = "requesting"]
    /\ UNCHANGED << stores, main, station, startup, bounds >>

(* land() wins: the row, the Subtask and the receipt in one transaction.       *)
Land(s) ==
    /\ attempts[s].phase = "requesting"
    /\ subtasks[s] = "running" /\ task # "cancelled"
    /\ Set(s, "awaiting_integration")
    /\ rows' = [rows EXCEPT ![<< s, attempts[s].n >>] =
                   [status |-> "awaiting_approval", candidate |-> trees[s]]]
    /\ attempts' = [attempts EXCEPT ![s].phase = "none"]
    /\ UNCHANGED << task, authorized, main, trees, station, startup, bounds >>

(* The cancellation fence won: the request is withdrawn and there is no row.   *)
LandCancelled(s) ==
    /\ Running(s)
    /\ subtasks[s] = "cancelled" \/ task = "cancelled"
    /\ attempts' = [attempts EXCEPT ![s].phase = "none"]
    /\ UNCHANGED << stores, main, trees, station, startup, bounds >>

(* It ends without a candidate, and is retried.                                *)
Fail(s) ==
    /\ attempts[s].phase = "executing" /\ subtasks[s] = "running"
    /\ Set(s, "ready")
    /\ attempts' = [attempts EXCEPT ![s].phase = "none"]
    /\ UNCHANGED << task, rows, authorized, main, trees, station, startup, bounds >>

-----------------------------------------------------------------------------
(* The user.                                                                   *)

(* resolvePermission with approve: only a row that still waits for it.         *)
Approve(a) ==
    /\ Serving
    /\ rows[a].status = "awaiting_approval"
    /\ rows' = [rows EXCEPT ![a].status = "pending"]
    /\ authorized' = authorized \cup {rows[a].candidate}
    /\ UNCHANGED << task, subtasks, attempts, main, trees, station, startup, bounds >>

(* resolvePermission with deny.                                                *)
Deny(a) ==
    /\ Serving
    /\ rows[a].status = "awaiting_approval"
    /\ rows' = [rows EXCEPT ![a].status = "denied"]
    /\ Set(SubtaskOf(a), "blocked")
    /\ task' = IF task = "running" THEN "blocked" ELSE task
    /\ UNCHANGED << authorized, attempts, main, trees, station, startup, bounds >>

(* The user resumes a blocked Task: its blocked Subtasks are ready again.      *)
Resume ==
    /\ Serving
    /\ task = "blocked"
    /\ task' = "running"
    /\ subtasks' = [s \in Subtasks |-> IF subtasks[s] = "blocked" THEN "ready" ELSE subtasks[s]]
    /\ UNCHANGED << rows, authorized, attempts, main, trees, station, startup, bounds >>

(* cancel_task and cancel_subtasks: one transaction.                           *)
Cancel(S) ==
    /\ Serving
    /\ cancels < MaxCancels /\ task \notin {"done", "cancelled"}
    /\ S \in {Subtasks} \cup {{s} : s \in Subtasks}
    /\ \E s \in S : subtasks[s] \notin {"done", "cancelled"}
    /\ task' \in IF S = Subtasks THEN {task, "cancelled"} ELSE {task}
    /\ subtasks' = [s \in Subtasks |-> IF s \in S /\ subtasks[s] # "done"
                                       THEN "cancelled" ELSE subtasks[s]]
    /\ rows' = CancelRequested(rows, S)
    /\ cancels' = cancels + 1
    /\ UNCHANGED << authorized, attempts, main, trees, station, startup,
                    others, crashes >>

(* The coordinator's recover(): a cancelling row ends when no attempt of its   *)
(* Subtask is still being stopped.                                             *)
CancellationEnds(a) ==
    /\ rows[a].status = "cancelling" /\ ~Running(SubtaskOf(a))
    /\ rows' = [rows EXCEPT ![a].status = "cancelled"]
    /\ UNCHANGED << task, subtasks, authorized, attempts, main, trees, station,
                    startup, bounds >>

(* Somebody else commits to main.                                              *)
OtherCommit ==
    /\ others < MaxCommits
    /\ main' = [main EXCEPT !.version = @ + 1]
    /\ others' = others + 1
    /\ UNCHANGED << stores, attempts, trees, station, startup, cancels, crashes >>

-----------------------------------------------------------------------------
(* execute() and the drain.                                                    *)

Begin ==
    /\ Serving
    /\ station.phase = "idle"
    /\ station' = [Idle EXCEPT !.phase = "settling"]
    /\ UNCHANGED << stores, attempts, main, trees, startup, bounds >>

(* publish() first cancels the row it takes when the Subtask was cancelled, and *)
(* the drain takes the next one.                                               *)
Fenced(r) == CancelRequested(r, {s \in Subtasks : task = "cancelled" \/ subtasks[s] = "cancelled"})

(* The drain takes its next row, from the rows r: the synchronous beginning of *)
(* publish(). With none, or one that is not pending, it returns its outcomes.  *)
Take(r, outcomes) ==
    LET next == {a \in First(Fenced(r)) : r[a].status = "pending"} IN
    IF next = {}
    THEN /\ rows' = Fenced(r)
         /\ station' = [Idle EXCEPT !.phase = IF outcomes = << >> THEN "closing"
                                                               ELSE "handling",
                                    !.outcomes = outcomes]
    ELSE \E a \in next :
         /\ rows' = [Fenced(r) EXCEPT ![a].status = "applying"]
         /\ station' = [Idle EXCEPT !.phase = "ensuring", !.row = a, !.outcomes = outcomes]

(* No attempt of the Task runs: supervisor.drain() returns, and the            *)
(* publications are drained.                                                   *)
Drain ==
    /\ station.phase = "settling"
    /\ \A s \in Subtasks : ~Running(s)
    /\ task \notin {"done"}
    /\ Take(Recovered(rows), << >>)
    /\ UNCHANGED << task, subtasks, authorized, attempts, main, trees, startup, bounds >>

Step(from, to) == station.phase = from /\ station' = [station EXCEPT !.phase = to]
Current == station.row
Result(outcome) == Take(rows, Append(station.outcomes, outcome))

Ensure ==
    /\ Step("ensuring", "checking")
    /\ trees' = Ensured(SubtaskOf(Current))
    /\ UNCHANGED << stores, attempts, main, startup, bounds >>

(* An exception out of the drain ends the execution.                           *)
Thrown == station' = Idle
EnsureFails ==
    /\ station.phase = "ensuring" /\ "dirty" \in GitFaults
    /\ Thrown
    /\ UNCHANGED << stores, attempts, main, trees, startup, bounds >>

(* main is not clean or not checked out, or the merge fails: another drain.    *)
PromoteFails ==
    /\ station.phase \in {"checking", "merging"} /\ "dirty" \in GitFaults
    /\ rows' = Mark(rows, Current, {"applying"}, "pending")
    /\ Thrown
    /\ UNCHANGED << task, subtasks, authorized, attempts, main, trees, startup, bounds >>

(* A mutant of CheckMain: the transaction comes before the merge.              *)
CheckMainOnly ==
    /\ Step("checking", "committing")
    /\ main.version = rows[Current].candidate.base
    /\ UNCHANGED << stores, attempts, main, trees, startup, bounds >>

(* main is the approved one: the merge begins.                                 *)
CheckMain ==
    /\ Step("checking", "merging")
    /\ main.version = rows[Current].candidate.base
    /\ UNCHANGED << stores, attempts, main, trees, startup, bounds >>

(* main has changed since: the candidate is parked and the Subtask is ready.   *)
Stale ==
    /\ Step("checking", "synchronizing")
    /\ main.version # rows[Current].candidate.base
    /\ rows' = Mark(rows, Current, {"applying"}, "parked")
    /\ Set(SubtaskOf(Current), "ready")
    /\ UNCHANGED << task, authorized, attempts, main, trees, startup, bounds >>

Merge ==
    /\ Step("merging", "committing")
    /\ main' = Promoted(rows[Current].candidate)
    /\ UNCHANGED << stores, attempts, trees, startup, bounds >>

(* The transaction after the merge.                                            *)
CommitResult ==
    /\ station.phase = "committing"
    /\ rows[Current].status = "applying"
    /\ rows' = [rows EXCEPT ![Current].status = "integrated"]
    /\ Set(SubtaskOf(Current), "done")
    /\ station' = [station EXCEPT !.phase = "removing"]
    /\ UNCHANGED << task, authorized, attempts, main, trees, startup, bounds >>

(* The row was cancelled during the merge: the transaction is rolled back.     *)
CommitRefused ==
    /\ station.phase = "committing"
    /\ rows[Current].status # "applying"
    /\ Thrown
    /\ UNCHANGED << stores, attempts, main, trees, startup, bounds >>

(* The worktree and its branch are removed.                                    *)
Remove ==
    /\ station.phase = "removing"
    /\ trees' = [trees EXCEPT ![SubtaskOf(Current)] = NoTree]
    /\ Result([type |-> "integrated"])
    /\ UNCHANGED << task, subtasks, authorized, attempts, main, startup, bounds >>

RemoveFails ==
    /\ station.phase = "removing" /\ "remove" \in GitFaults
    /\ Thrown
    /\ UNCHANGED << stores, attempts, main, trees, startup, bounds >>

(* main is merged into the worktree, for a candidate it still contains.        *)
Synchronize ==
    LET s == SubtaskOf(Current)
        h == Synchronized(Current, trees[s]) IN
    /\ station.phase = "synchronizing"
    /\ Contains(trees[s], rows[Current].candidate)
    /\ trees' = [trees EXCEPT ![s] = h]
    /\ Result([type |-> "stale", row |-> Current, head |-> h])
    /\ UNCHANGED << task, subtasks, authorized, attempts, main, startup, bounds >>

(* It does not, or the merge conflicts: a stale outcome without a candidate.   *)
SynchronizeFails ==
    /\ station.phase = "synchronizing"
    /\ \/ ~Contains(trees[SubtaskOf(Current)], rows[Current].candidate)
       \/ "conflict" \in GitFaults
    /\ Result([type |-> "stale", row |-> Current, head |-> NoTree])
    /\ UNCHANGED << task, subtasks, authorized, attempts, main, trees, startup, bounds >>

-----------------------------------------------------------------------------
(* The outcomes, one by one, in drainPublications().                           *)

Handling(type) ==
    station.phase = "handling" /\ station.outcomes # << >>
    /\ Head(station.outcomes).type = type
Handled == [station EXCEPT !.phase = "handling", !.outcomes = Tail(@)]

HandleIntegrated ==
    /\ Handling("integrated")
    /\ station' = [Handled EXCEPT !.progress = TRUE]
    /\ UNCHANGED << stores, attempts, main, trees, startup, bounds >>

(* reissueStalePublication: without a synchronized candidate only a message;   *)
(* a row that is no longer parked throws; else a new request is awaited.       *)
HandleStale ==
    LET stale == Head(station.outcomes) IN
    /\ Handling("stale")
    /\ station' = IF stale.head = NoTree THEN Handled
                  ELSE IF rows[stale.row].status # "parked" THEN Idle
                  ELSE [station EXCEPT !.phase = "requesting"]
    /\ UNCHANGED << stores, attempts, main, trees, startup, bounds >>

(* A mutant of Reissue: nobody looks whether the row was still parked.         *)
ReissueUnfenced ==
    LET stale == Head(station.outcomes) IN
    /\ station.phase = "requesting"
    /\ station' = Handled
    /\ rows' = IF rows[stale.row].status = "parked"
               THEN Reissued(rows, stale.row, stale.head) ELSE rows
    /\ Set(SubtaskOf(stale.row), "awaiting_integration")
    /\ task' = IF task = "blocked" THEN "running" ELSE task
    /\ UNCHANGED << authorized, attempts, main, trees, startup, bounds >>

(* The request is with the user: the row waits for approval again and the      *)
(* Subtask for its integration, whatever became of it.                         *)
Reissue ==
    LET stale == Head(station.outcomes)
        parked == rows[stale.row].status = "parked" IN
    /\ station.phase = "requesting"
    /\ station' = IF parked THEN Handled ELSE Idle
    /\ rows' = IF parked THEN Reissued(rows, stale.row, stale.head) ELSE rows
    /\ IF parked THEN Set(SubtaskOf(stale.row), "awaiting_integration")
                 ELSE UNCHANGED subtasks
    /\ task' = IF parked /\ task = "blocked" THEN "running" ELSE task
    /\ UNCHANGED << authorized, attempts, main, trees, startup, bounds >>

(* After an integration the frontier is dispatched again; else the drain goes  *)
(* on.                                                                         *)
HandlingEnds ==
    /\ station.phase = "handling" /\ station.outcomes = << >>
    /\ IF station.progress
       THEN /\ station' = [Idle EXCEPT !.phase = "settling"]
            /\ UNCHANGED rows
       ELSE Take(Recovered(rows), << >>)
    /\ UNCHANGED << task, subtasks, authorized, attempts, main, trees, startup, bounds >>

(* complete_task: every Subtask is done, and nothing is left over.             *)
Complete ==
    /\ station.phase = "settling" /\ task = "running"
    /\ \A s \in Subtasks : subtasks[s] = "done" /\ ~Running(s)
    /\ task' = IF Residue THEN "blocked" ELSE "done"
    /\ UNCHANGED << subtasks, rows, authorized, attempts, main, trees, station, startup, bounds >>

(* The end of execute(): recover() and settlePartialCancellation().            *)
Close ==
    LET ended == [a \in Attempts |-> IF Running(SubtaskOf(a)) THEN rows[a]
                                     ELSE Mark(rows, a, {"cancelling"}, "cancelled")[a]] IN
    /\ station.phase = "closing"
    /\ rows' = ended
    /\ task' = IF task = "running" /\ (\E s \in Subtasks : subtasks[s] = "cancelled")
                  /\ (\A s \in Subtasks : subtasks[s] \in {"done", "cancelled"})
                  /\ (\A a \in Attempts : ended[a].status \notin Residual)
               THEN "blocked" ELSE task
    /\ station' = Idle
    /\ UNCHANGED << subtasks, authorized, attempts, main, trees, startup, bounds >>

-----------------------------------------------------------------------------
(* The process dies; the attempts that ran are lost, and their Subtasks ready. *)
Crash ==
    /\ crashes < MaxCrashes
    /\ crashes' = crashes + 1
    /\ station' = Idle
    /\ attempts' = [s \in Subtasks |-> [attempts[s] EXCEPT !.phase = "none"]]
    /\ subtasks' = [s \in Subtasks |-> IF subtasks[s] = "running" THEN "ready" ELSE subtasks[s]]
    /\ startup' = {a \in Attempts : rows[a].status = "parked"}
    /\ UNCHANGED << task, rows, authorized, main, trees, others, cancels >>

(* recoverStalePublications: the worktree, its synchronization and the new     *)
(* request of a parked row.                                                    *)
RecoverStale(a) ==
    LET s == SubtaskOf(a)
        tree == Ensured(s)[s]
        h == Synchronized(a, tree) IN
    /\ a \in startup
    /\ Contains(tree, rows[a].candidate)
    /\ trees' = [trees EXCEPT ![s] = h]
    /\ rows' = Reissued(rows, a, h)
    /\ Set(s, "awaiting_integration")
    /\ task' = IF task = "blocked" THEN "running" ELSE task
    /\ startup' = startup \ {a}
    /\ UNCHANGED << authorized, attempts, main, station, bounds >>

(* An error of it is reported, and startup goes on.                            *)
RecoverStaleFails(a) ==
    /\ a \in startup
    /\ GitFaults # {} \/ ~Contains(Ensured(SubtaskOf(a))[SubtaskOf(a)], rows[a].candidate)
    /\ trees' = Ensured(SubtaskOf(a))
    /\ startup' = startup \ {a}
    /\ UNCHANGED << stores, attempts, main, station, bounds >>

Execution ==
    \/ Begin \/ Drain \/ Ensure \/ EnsureFails \/ PromoteFails \/ CheckMain
    \/ Stale \/ Merge \/ CommitResult \/ CommitRefused \/ Remove \/ RemoveFails
    \/ Synchronize \/ SynchronizeFails \/ HandleIntegrated
    \/ HandleStale \/ Reissue \/ HandlingEnds \/ Complete \/ Close

Next ==
    \/ Execution
    \/ \E s \in Subtasks : Dispatch(s) \/ Validate(s) \/ Land(s) \/ LandCancelled(s) \/ Fail(s)
    \/ \E a \in Attempts : \/ Approve(a) \/ Deny(a) \/ CancellationEnds(a)
                            \/ RecoverStale(a) \/ RecoverStaleFails(a)
    \/ \E S \in SUBSET Subtasks : Cancel(S)
    \/ Resume \/ OtherCommit \/ Crash

Spec == Init /\ [][Next]_vars

-----------------------------------------------------------------------------
TypeOK ==
    /\ task \in {"running", "blocked", "done", "cancelled"}
    /\ subtasks \in [Subtasks -> {"ready", "running", "awaiting_integration", "blocked",
                                  "done", "cancelled"}]
    /\ \A a \in Attempts : rows[a].status \in RowStatus
    /\ station.phase \in Phases
    /\ station.phase \in Applying => station.row \in Attempts
    /\ startup \subseteq Attempts

(* Every Subtask commit that main reaches is part of a candidate the user has  *)
(* approved as it was: approval authorizes one exact candidate (ADR-0027).     *)
OnlyApproved ==
    \A c \in main.has : \E h \in authorized : c \in h.has

(* A Subtask that is done has an integrated publication, and main reaches its  *)
(* candidate: only a merge makes a Subtask done.                               *)
DoneIsMerged ==
    \A s \in Subtasks : subtasks[s] = "done" =>
        \E a \in Attempts : /\ SubtaskOf(a) = s
                            /\ rows[a].status = "integrated"
                            /\ Contains(MainHead, rows[a].candidate)

(* A Subtask that awaits its integration has a publication that can still be   *)
(* integrated: whatever is cancelled, denied or stale, it is not left waiting. *)
WaitingHasRow ==
    \A s \in Subtasks : subtasks[s] = "awaiting_integration" =>
        \E a \in Attempts : /\ SubtaskOf(a) = s
                            /\ rows[a].status \in {"awaiting_approval", "pending", "applying"}

(* A cancelled Subtask stays cancelled, whatever the worker does that awaited  *)
(* git when the cancellation came (violated: Stale).                           *)
CancelledSubtaskStays ==
    [][\A s \in Subtasks : subtasks[s] = "cancelled" => subtasks'[s] = "cancelled"]_vars

(* A Subtask that is done stays done (violated: a parked publication of an     *)
(* earlier attempt is reissued at startup).                                    *)
DoneSubtaskStays ==
    [][\A s \in Subtasks : subtasks[s] = "done" => subtasks'[s] = "done"]_vars
=============================================================================
