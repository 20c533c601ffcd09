------------------------------ MODULE TaskTimer ------------------------------
(* Who recovers the workflow of one Task once nobody submits to it: the timer  *)
(* of the session (maybeReviewTaskPoolOnTimer in session/metaclaw-session.ts), *)
(* which looks at blocked Tasks only, and the startup.  The status of the Task *)
(* is changed by the decisions that KernelWorkflow applies, by attempts and by *)
(* the user.  An event that a throwing decide, a joined drain or the limit of  *)
(* a drain leaves behind while the Task runs waits for either of them.         *)
EXTENDS KernelWorkflow

CONSTANT Blocking   \* the actions whose handler calls blockTask
ASSUME BlockingAssumption == Blocking \subseteq Actions

VARIABLES task,     \* tasks.status
          owed      \* the startup has still to recover the Task

timed == << vars, task, owed >>

TimerInit == Init /\ task = "running" /\ owed = FALSE

(* VALID_TRANSITIONS: created, ready and parked are one to the timer, and so   *)
(* are done, archived and cancelled.                                           *)
Transitions == [running |-> {"blocked", "parked", "over"},
                blocked |-> {"parked", "running", "over"},
                parked  |-> {"running", "over"},
                over    |-> {}]

(* blockTask: only a running Task is blocked.                                  *)
Blocked(status) == IF status = "running" THEN "blocked" ELSE status

(* The status after the handler of what w applies.                             *)
After(w) == IF decision[cur[w]] \in Blocking THEN Blocked(task) ELSE task

(* What an attempt that is launched, the user or a completion does.            *)
Moves ==
    /\ turn = NoOne
    /\ task' \in Transitions[task]
    /\ UNCHANGED << vars, owed >>

(* Faulty: the timer looks at the Tasks that run.                              *)
RunningIsDue == task = "running"

(* maybeReviewTaskPoolOnTimer asks for the blocked Tasks.                      *)
IsDue == task = "blocked"

(* recoverDue, by the timer or by the startup.                                 *)
TimerRecovers(w) ==
    /\ IsDue /\ Recover(w)
    /\ UNCHANGED << task, owed >>

StartupRecovers(w) ==
    /\ owed /\ task \in {"running", "blocked"} /\ Recover(w)
    /\ owed' = FALSE
    /\ UNCHANGED task

Drains(w) ==
    /\ \/ /\ \/ StartApply(w) \/ Claim(w) \/ DecideThrows(w) \/ Issue(w)
             \/ DrainEnds(w) \/ Settle(w)
          /\ UNCHANGED task
       \/ Applied(w) /\ task' = After(w)
       \/ ApplyFails(w) /\ task' \in {task, After(w)}
    /\ UNCHANGED owed

(* The process may stop after the handler and before its bookkeeping.          *)
Stops ==
    /\ Crash
    /\ task' \in {task} \cup {After(w) : w \in {v \in Workflows : pc[v] = "applying"}}
    /\ owed' = FALSE

(* The startup comes through to the recovery of its Tasks, or throws on its    *)
(* way there; or it is blocked, and blocks the Tasks that were running.        *)
Starts ==
    \/ Restart /\ owed' \in BOOLEAN /\ UNCHANGED task
    \/ RestartBlocked /\ task' = Blocked(task) /\ UNCHANGED owed

Passes == Tick /\ UNCHANGED << task, owed >>

TimerNext ==
    \/ \E w \in Workflows : \/ TimerRecovers(w) \/ StartupRecovers(w) \/ Drains(w)
                            \/ \E e \in Events : Submit(w, e) /\ UNCHANGED << task, owed >>
    \/ \E e \in Events : ResolveRecoveryItem(e) /\ UNCHANGED << task, owed >>
    \/ Passes
    \/ Moves \/ Stops \/ Starts
-----------------------------------------------------------------------------
(* The event loop runs every ready continuation, a handler returns before a    *)
(* later recovery resets its application for ever, and decide does not throw   *)
(* whenever it is asked.                                                       *)
DrainsAreFair(w) ==
    /\ SF_timed(Drains(w))
    /\ SF_timed(Issue(w) /\ UNCHANGED << task, owed >>)
    /\ SF_timed(Applied(w) /\ task' = After(w) /\ UNCHANGED owed)

(* The interval fires for ever, and a Task that it finds due at every tick is  *)
(* recovered again and again.                                                  *)
TimerIsFair(w) == []<>~IsDue \/ []<><< TimerRecovers(w) >>_timed

TimerSpec ==
    /\ TimerInit /\ [][TimerNext]_timed
    /\ \A w \in Workflows : DrainsAreFair(w)
    /\ \A w \in Recovering : TimerIsFair(w)
    /\ WF_timed(Starts) /\ WF_timed(Passes)

(* While its Task stays blocked, a due event is decided sooner or later,       *)
(* whatever left it behind: a crash, a blocked startup, a decide that threw, a *)
(* failed handler, a joined drain or the limit of a drain.  Nothing is said of *)
(* a Task that stays running or parked: no timer looks at it.                  *)
DueEventDecided ==
    \A e \in Events :
        (task = "blocked" /\ inbox[e] = "pending" /\ availableAt[e] <= now)
            ~> (inbox[e] = "processed" \/ task # "blocked")
===============================================================================
