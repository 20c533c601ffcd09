----------------------------- MODULE SandboxRun -----------------------------
(* The operating system processes of the attempts of one Subtask: what one     *)
(* execute() starts, waits for, stops and removes, while the user cancels, a   *)
(* permission pauses the executor, the host shuts down, crashes or restarts,   *)
(* and another session starts on the same database.                            *)
(*                                                                             *)
(*   executor/sandboxed-executor-adapter.ts          execute, abort            *)
(*   execution/worktree-attempt-sandbox-adapter.ts   the child processes       *)
(*   execution/attempt-sandbox-reconciler.ts         startup                   *)
(*   execution/execution-runtime.ts                  the active attempts       *)
(*                                                                             *)
(* AttemptExecution knows the sandbox by the status of its row; here the row,  *)
(* the handle in memory and the process are three things that may disagree.    *)
(* Each session has an adapter, and handles, of its own.                       *)
EXTENDS Integers, FiniteSets

CONSTANTS Runs,              \* attempts of the Subtask, in the order of dispatch
          MaxSandboxFaults   \* bound on crashes and on startups of other sessions

ASSUME RunsAssumption == Runs \subseteq Nat

VARIABLES
  run,          \* where execute() of an attempt stands
  handle,       \* its entry in the adapter's map: its status, or none
  tracked,      \* attempts in activeRuntimes, until their run() is over
  process,      \* the leader of the process group
  signal,       \* the strongest signal sent to the group
  stopping,     \* attempts with a stop() under way
  row,          \* attempt_sandboxes.status, or absent
  numbered,     \* attempts whose row has the process id
  left,         \* attempts a startup has reported lost
  result,       \* what execute() returned
  cancelled,    \* the user has cancelled the Subtask
  host,         \* the process of the session: up, down
  sandboxFaults

sandboxes == << run, handle, tracked, process, signal, stopping, row, numbered,
                left, result, cancelled, host, sandboxFaults >>

Alive(a) == process[a] \in {"running", "frozen"}
Under(a) == run[a] \in {"preparing", "launched", "waiting", "collecting", "cleaning", "closing"}
ActiveRows == {a \in Runs : row[a] \in {"created", "running", "paused"}}
Up == host = "up"
-------------------------------------------------------------------------------
Returns(a, outcome) == result' = [result EXCEPT ![a] = outcome]

(* The next attempt is dispatched once the last one returned, or was lost.     *)
SettledRun(a) == run[a] = "done" \/ a \in left
BeginRun(a) ==
    /\ Up /\ ~cancelled /\ run[a] = "none" /\ row[a] = "absent"
    /\ \A b \in Runs : b < a => SettledRun(b)
    /\ run' = [run EXCEPT ![a] = "preparing"]
    /\ UNCHANGED << handle, tracked, process, signal, stopping, row, numbered, left,
                    result, cancelled, host, sandboxFaults >>

(* No adapter, credentials, gateway, home or worktree.  A binding without a    *)
(* session protocol is not a configuration failure: it is thrown too early.    *)
PreparationFails(a) ==
    /\ Up /\ run[a] = "preparing"
    /\ run' = [run EXCEPT ![a] = "closing"]
    /\ \E outcome \in {"configuration", "failed"} : Returns(a, outcome)
    /\ UNCHANGED << handle, tracked, process, signal, stopping, row, numbered, left,
                    cancelled, host, sandboxFaults >>

(* start(): a command that cannot be found leaves a child without a process,   *)
(* whose error event follows.                                                  *)
Spawned(a) ==
    /\ handle' = [handle EXCEPT ![a] = "running"]
    /\ \E state \in {"running", "none"} : process' = [process EXCEPT ![a] = state]

Written(a, status) == row' = [row EXCEPT ![a] = status]

(* create, the row, activeRuntimes and spawn happen without an await between.  *)
LaunchRun(a) ==
    /\ Up /\ run[a] = "preparing"
    /\ run' = [run EXCEPT ![a] = "launched"]
    /\ Written(a, "created")
    /\ tracked' = tracked \cup {a}
    /\ Spawned(a)
    /\ UNCHANGED << signal, stopping, numbered, left, result, cancelled, host,
                    sandboxFaults >>

(* The row cannot be written: activeRuntimes lacks the attempt, so that catch  *)
(* leaves its entry in the map, and execute() throws if catch cannot write     *)
(* either.                                                                     *)
CreateThrows(a) ==
    /\ Up /\ run[a] = "preparing"
    /\ run' = [run EXCEPT ![a] = "closing"]
    /\ handle' = [handle EXCEPT ![a] = "created"]
    /\ \E outcome \in {"configuration", "failed"} : Returns(a, outcome)
    /\ UNCHANGED << tracked, process, signal, stopping, row, numbered, left,
                    cancelled, host, sandboxFaults >>

(* spawn throws, for arguments that are too long.                              *)
SpawnThrows(a) ==
    /\ Up /\ run[a] = "preparing"
    /\ run' = [run EXCEPT ![a] = "cleaning"]
    /\ handle' = [handle EXCEPT ![a] = "created"]
    /\ Written(a, "created")
    /\ tracked' = tracked \cup {a}
    /\ UNCHANGED << process, signal, stopping, numbered, left, result, cancelled, host,
                    sandboxFaults >>

(* onRuntimeStarted, and the row learns the process id.                        *)
RecordProcess(a) ==
    /\ Up /\ run[a] = "launched"
    /\ run' = [run EXCEPT ![a] = "waiting"]
    /\ Written(a, "running")
    /\ numbered' = numbered \cup {a}
    /\ UNCHANGED << handle, tracked, process, signal, stopping, left, result, cancelled,
                    host, sandboxFaults >>

(* Faulty: a signalled process counts as gone.                                 *)
GoneSignalled(a) == ~Alive(a) \/ signal[a] # "none"

Gone(a) == ~Alive(a)

(* The child's exit or error event: finish().                                  *)
ExitSeen(a) ==
    /\ Up /\ handle[a] \in {"running", "paused"} /\ Gone(a)
    /\ run[a] # "launched"
    /\ handle' = [handle EXCEPT ![a] = "exited"]
    /\ stopping' = stopping \ {a}
    /\ UNCHANGED << run, tracked, process, signal, row, numbered, left, result,
                    cancelled, host, sandboxFaults >>

(* wait() returns: logs, the row, and the result file is read.                 *)
Wake(a) ==
    /\ Up /\ run[a] = "waiting" /\ handle[a] = "exited"
    /\ run' = [run EXCEPT ![a] = "collecting"]
    /\ Written(a, "exited")
    /\ UNCHANGED << handle, tracked, process, signal, stopping, numbered, left,
                    result, cancelled, host, sandboxFaults >>

(* A success if the leader exited with code 0 and left an output.              *)
Outcomes(a) == {"failed"} \cup {o \in {"success"} : process[a] = "ended"}

(* remove(), the row and the result.                                           *)
Collect(a) ==
    /\ Up /\ run[a] = "collecting" /\ handle[a] = "exited"
    /\ run' = [run EXCEPT ![a] = "closing"]
    /\ tracked' = tracked \ {a}
    /\ handle' = [handle EXCEPT ![a] = "none"]
    /\ Written(a, "removed")
    /\ \E outcome \in Outcomes(a) : Returns(a, outcome)
    /\ UNCHANGED << process, signal, stopping, numbered, left, cancelled, host,
                    sandboxFaults >>

Raised(s) == IF s = "none" THEN "term" ELSE s
HasProcess(a) == handle[a] \in {"running", "paused"} /\ process[a] # "none"

(* stop(): SIGTERM to the group of every attempt of S that has one, ...        *)
Stopped(S) ==
    LET mine == {a \in S : HasProcess(a)} IN
    /\ signal' = [a \in Runs |-> IF a \in mine THEN Raised(signal[a]) ELSE signal[a]]
    /\ stopping' = stopping \cup mine

(* A callback, the database, logs() or remove() throws after the spawn, the    *)
(* last two on a handle the cleanup of a cancellation removed: catch stops the *)
(* executor.                                                                   *)
Throws(a) ==
    /\ Up
    /\ \/ run[a] \in {"launched", "collecting"}
       \/ run[a] = "waiting" /\ handle[a] \in {"exited", "none"}
    /\ run' = [run EXCEPT ![a] = "cleaning"]
    /\ Stopped({a})
    /\ UNCHANGED << handle, tracked, process, row, numbered, left, result, cancelled, host,
                    sandboxFaults >>

(* remove() is done and its row cannot be written.                             *)
RemovalUnrecorded(a) ==
    /\ Up /\ run[a] = "collecting" /\ handle[a] = "exited"
    /\ run' = [run EXCEPT ![a] = "cleaning"]
    /\ handle' = [handle EXCEPT ![a] = "none"]
    /\ UNCHANGED << tracked, process, signal, stopping, row, numbered, left, result,
                    cancelled, host, sandboxFaults >>

Removable(a) == handle[a] \in {"created", "exited"}

(* The rest of catch, once stop() is back: it reports a configuration failure  *)
(* whatever the executor did, and throws if it cannot write that the removal   *)
(* failed, or was not recorded.                                                *)
CleanUp(a) ==
    /\ Up /\ run[a] = "cleaning" /\ ~HasProcess(a)
    /\ run' = [run EXCEPT ![a] = "closing"]
    /\ handle' = [handle EXCEPT ![a] = IF Removable(a) THEN "none" ELSE handle[a]]
    /\ \/ /\ Removable(a) /\ Written(a, "removed")
          /\ Returns(a, "configuration") /\ tracked' = tracked \ {a}
       \/ /\ UNCHANGED row
          /\ \/ Returns(a, "configuration") /\ tracked' = tracked \ {a}
             \/ Returns(a, "failed") /\ UNCHANGED tracked
    /\ UNCHANGED << process, signal, stopping, numbered, left, cancelled, host,
                    sandboxFaults >>

(* The model gateway closes once the last request of the executor, or of what  *)
(* it left running, is answered.                                               *)
ReturnRun(a) ==
    /\ Up /\ run[a] = "closing"
    /\ run' = [run EXCEPT ![a] = "done"]
    /\ tracked' = tracked \ {a}
    /\ UNCHANGED << handle, process, signal, stopping, row, numbered, left, result,
                    cancelled, host, sandboxFaults >>
-------------------------------------------------------------------------------
(* The process.                                                                *)

(* It ends by itself, or of a signal, which a stubborn one survives and a      *)
(* frozen one does not see until it is SIGKILL.                                *)
Dies(a) ==
    /\ Alive(a)
    /\ (process[a] = "frozen" => signal[a] = "kill")
    /\ \E end \in {"ended", "failed"} :
         /\ (signal[a] = "kill" => end = "failed")
         /\ process' = [process EXCEPT ![a] = end]
    /\ UNCHANGED << run, handle, tracked, signal, stopping, row, numbered, left, result,
                    cancelled, host, sandboxFaults >>

(* ... and SIGKILL two seconds later.                                          *)
Kill(a) ==
    /\ Up /\ a \in stopping /\ signal[a] = "term"
    /\ signal' = [signal EXCEPT ![a] = "kill"]
    /\ UNCHANGED << run, handle, tracked, process, stopping, row, numbered, left,
                    result, cancelled, host, sandboxFaults >>

(* abortAttempt: an attempt that is still preparing has no handle to stop, ... *)
CancelRuns ==
    /\ Up /\ ~cancelled
    /\ cancelled' = TRUE
    /\ Stopped(tracked)
    /\ UNCHANGED << run, handle, tracked, process, row, numbered, left, result, host,
                    sandboxFaults >>

(* ... and is stopped by the cleanup of the cancellation, on a later drain.    *)
CleanupStops(a) ==
    /\ Up /\ cancelled /\ a \in ActiveRows /\ handle[a] # "none"
    /\ Stopped({a})
    /\ UNCHANGED << run, handle, tracked, process, row, numbered, left, result, cancelled,
                    host, sandboxFaults >>

(* That cleanup removes what exited, under the run that would collect it.      *)
CleanupRemoves(a) ==
    /\ Up /\ cancelled /\ row[a] # "absent" /\ handle[a] = "exited"
    /\ handle' = [handle EXCEPT ![a] = "none"]
    /\ (Written(a, "removed") \/ UNCHANGED row)
    /\ UNCHANGED << run, tracked, process, signal, stopping, numbered, left, result,
                    cancelled, host, sandboxFaults >>

(* A capability request freezes the executor until it is decided.              *)
Pause(a) ==
    /\ Up /\ run[a] = "waiting" /\ handle[a] = "running" /\ process[a] = "running"
    /\ handle' = [handle EXCEPT ![a] = "paused"]
    /\ process' = [process EXCEPT ![a] = "frozen"]
    /\ UNCHANGED << run, tracked, signal, stopping, row, numbered, left, result,
                    cancelled, host, sandboxFaults >>

ResumeRun(a) ==
    /\ Up /\ handle[a] = "paused" /\ Alive(a)
    /\ handle' = [handle EXCEPT ![a] = "running"]
    /\ process' = [process EXCEPT ![a] = "running"]
    /\ UNCHANGED << run, tracked, signal, stopping, row, numbered, left, result,
                    cancelled, host, sandboxFaults >>

(* onEscalation stops the executor that asked.                                 *)
Escalate(a) ==
    /\ Up /\ handle[a] = "paused" /\ a \notin stopping
    /\ Stopped({a})
    /\ UNCHANGED << run, handle, tracked, process, row, numbered, left, result,
                    cancelled, host, sandboxFaults >>

(* dispose() and shutdown() stop what the session manages.                     *)
Shutdown ==
    /\ Up /\ \E a \in Runs : handle[a] \in {"running", "paused"} /\ a \notin stopping
    /\ Stopped(Runs)
    /\ UNCHANGED << run, handle, tracked, process, row, numbered, left, result,
                    cancelled, host, sandboxFaults >>
-------------------------------------------------------------------------------
(* Crashes and startups.                                                       *)

CrashHost ==
    /\ Up /\ sandboxFaults < MaxSandboxFaults
    /\ sandboxFaults' = sandboxFaults + 1
    /\ host' = "down"
    /\ run' = [a \in Runs |-> IF Under(a) THEN "lost" ELSE run[a]]
    /\ handle' = [a \in Runs |-> "none"]
    /\ tracked' = {} /\ stopping' = {}
    /\ UNCHANGED << process, signal, row, numbered, left, result, cancelled >>

(* The reconciler of a session that manages none of the active rows: SIGTERM   *)
(* to the recorded process id, nobody waits, and the attempt is lost.          *)
ReportedLost ==
    /\ signal' = [a \in Runs |-> IF a \in ActiveRows \cap numbered /\ Alive(a)
                                 THEN Raised(signal[a]) ELSE signal[a]]
    /\ row' = [a \in Runs |-> IF a \in ActiveRows THEN "lost" ELSE row[a]]
    /\ left' = left \cup ActiveRows

Restart ==
    /\ host = "down"
    /\ host' = "up"
    /\ ReportedLost
    /\ UNCHANGED << run, handle, tracked, process, stopping, numbered, result, cancelled,
                    sandboxFaults >>

(* Another session starts on the database while this one is at work.           *)
ForeignStartup ==
    /\ Up /\ sandboxFaults < MaxSandboxFaults /\ ActiveRows # {}
    /\ sandboxFaults' = sandboxFaults + 1
    /\ ReportedLost
    /\ UNCHANGED << run, handle, tracked, process, stopping, numbered, result, cancelled,
                    host >>
-------------------------------------------------------------------------------
InitSandboxes ==
    /\ run = [a \in Runs |-> "none"] /\ handle = [a \in Runs |-> "none"]
    /\ process = [a \in Runs |-> "none"] /\ signal = [a \in Runs |-> "none"]
    /\ row = [a \in Runs |-> "absent"] /\ result = [a \in Runs |-> "none"]
    /\ tracked = {} /\ stopping = {} /\ numbered = {} /\ left = {}
    /\ cancelled = FALSE /\ host = "up" /\ sandboxFaults = 0

NextSandboxes ==
    \/ \E a \in Runs : \/ BeginRun(a) \/ PreparationFails(a) \/ LaunchRun(a) \/ CreateThrows(a)
                       \/ SpawnThrows(a) \/ RecordProcess(a) \/ ExitSeen(a) \/ Wake(a)
                       \/ Collect(a) \/ Throws(a) \/ RemovalUnrecorded(a) \/ CleanUp(a)
                       \/ ReturnRun(a) \/ CleanupStops(a) \/ CleanupRemoves(a)
                       \/ Dies(a) \/ Kill(a) \/ Pause(a) \/ ResumeRun(a) \/ Escalate(a)
    \/ CancelRuns \/ Shutdown \/ CrashHost \/ Restart \/ ForeignStartup

SandboxSpec == InitSandboxes /\ [][NextSandboxes]_sandboxes
-------------------------------------------------------------------------------
(* An attempt that returned, or threw, has left no executor behind, wherever   *)
(* it failed (execute, and its catch).                                         *)
ReturnedIsGone ==
    \A a \in Runs : run[a] = "done" => ~Alive(a) /\ a \notin tracked

(* A row says removed, by whichever of the run, its catch and the cleanup of a *)
(* cancellation, only once the executor is gone and no handle is left.         *)
RemovedIsGone ==
    \A a \in Runs : row[a] = "removed" => ~Alive(a) /\ handle[a] = "none"

(* An executor that runs without a run() to wait for it was left by a crash,   *)
(* and is still listed for the next startup or was reported by one.            *)
StraysAreKnown ==
    \A a \in Runs : Alive(a) /\ ~Under(a) => run[a] = "lost" /\ (a \in ActiveRows \/ a \in left)

(* Two executors work in the Subtask's worktree at once only when a startup,   *)
(* which signals and does not wait, reported the first as lost.                *)
OverlapIsReported ==
    \A a, b \in Runs : a < b /\ Alive(a) /\ Alive(b) => a \in left

(* An executor that was killed, or could not be started, never counts as one   *)
(* that succeeded, although its run may since have been cancelled, reported    *)
(* lost or stopped twice.                                                      *)
SuccessIsReal == \A a \in Runs : result[a] = "success" => process[a] = "ended"

SandboxIsAccounted ==
    ReturnedIsGone /\ RemovedIsGone /\ StraysAreKnown /\ OverlapIsReported /\ SuccessIsReal
===============================================================================
