-------------------------- MODULE AttemptResources --------------------------
(* What run() of execution/subtask-attempt-runner.ts does with the WorkUnit    *)
(* pool and the resource leases, for several attempts at once: the awaited     *)
(* provisioning, the claims, the heartbeat timer, the ends of an attempt, the  *)
(* sweep of expired claims, a cancellation and the startup reconciliation.     *)
(* Everything else an attempt does is in AttemptExecution.                     *)
EXTENDS ResourceLeases

CONSTANTS MaxTime,      \* bound on the clock and the crashes together
          MaxDeaths    \* bound on process crashes

VARIABLES now,          \* the wall clock
          phase,        \* where run() of an attempt is
          unitOf,       \* the unit run() has been given, or is provisioning
          sealed,       \* attempts with a receipt and a terminal dispatch item
          deaths       \* process crashes so far

pool == << workUnits, leases, waits, now, phase, unitOf, sealed, deaths >>

NoUnit == "no unit"
Phase == {"new", "probing", "provisioned", "claimed", "running", "closing", "over"}
Beating == {"running"}   \* phases in which the heartbeat interval is set

InitResources ==
    /\ workUnits = [u \in Units |-> Absent]
    /\ leases = [a \in Attempts |-> NoLease]
    /\ waits = {}
    /\ now = 0
    /\ phase = [a \in Attempts |-> "new"]
    /\ unitOf = [a \in Attempts |-> NoUnit]
    /\ sealed = {}
    /\ deaths = 0

EnterPhase(a, p) == phase' = [phase EXCEPT ![a] = p]

(* The process dies: every run() and every heartbeat ends with it.             *)
AllOver == phase' = [a \in Attempts |-> IF phase[a] = "new" THEN "new" ELSE "over"]

-----------------------------------------------------------------------------
(* The kernel dispatches an attempt of a Subtask once its last one is sealed.  *)
Dispatched(a) ==
    \A b \in Attempts \ {a} :
        SubtaskOf[b] = SubtaskOf[a] => phase[b] = "new" \/ b \in sealed

(* claim() writes a chosen unit, unless the unique index refuses it; the       *)
(* exception then ends run() before its try block.                             *)
ClaimUnit(a, u) ==
    LET claimed == ClaimedBy(workUnits, u, a, now) IN
    IF OneActivePerSubtask(claimed)
    THEN /\ workUnits' = claimed
         /\ unitOf' = [unitOf EXCEPT ![a] = u]
         /\ EnterPhase(a, "claimed")
    ELSE /\ EnterPhase(a, "over")
         /\ UNCHANGED << workUnits, unitOf >>

ClaimIdle(a, u) ==
    /\ phase[a] = "new" /\ Dispatched(a)
    /\ u \in IdleUnits(workUnits, a)
    /\ ClaimUnit(a, u)
    /\ UNCHANGED << leases, waits, now, sealed, deaths >>

(* No unit is idle: a row is inserted and its probe is awaited.                *)
StartProvisioning(a, u) ==
    /\ phase[a] = "new" /\ Dispatched(a)
    /\ IdleUnits(workUnits, a) = {}
    /\ workUnits[u].state = "absent"
    /\ workUnits' = Provisioned(workUnits, u, a)
    /\ unitOf' = [unitOf EXCEPT ![a] = u]
    /\ EnterPhase(a, "probing")
    /\ UNCHANGED << leases, waits, now, sealed, deaths >>

ProbeFails(a) ==
    /\ phase[a] = "probing"
    /\ workUnits' = Probed(workUnits, unitOf[a], FALSE)
    /\ EnterPhase(a, "over")
    /\ UNCHANGED << leases, waits, now, unitOf, sealed, deaths >>

(* The unit is idle for all, and claim() resumes after one more await.         *)
ProbeSucceeds(a) ==
    /\ phase[a] = "probing"
    /\ workUnits' = Probed(workUnits, unitOf[a], TRUE)
    /\ EnterPhase(a, "provisioned")
    /\ UNCHANGED << leases, waits, now, unitOf, sealed, deaths >>

ClaimProvisioned(a) ==
    /\ phase[a] = "provisioned"
    /\ ClaimUnit(a, unitOf[a])
    /\ UNCHANGED << leases, waits, now, sealed, deaths >>

(* The leases are granted: the heartbeat starts and the unit is marked running.*)
StartRun(a) ==
    LET running == Marked(workUnits, unitOf[a], a, "running", now) IN
    /\ phase[a] = "claimed"
    /\ ClaimLeases(a, now)
    /\ workUnits' = IF OneActivePerSubtask(running) THEN running ELSE workUnits
    /\ EnterPhase(a, IF OneActivePerSubtask(running) THEN "running" ELSE "closing")
    /\ UNCHANGED << now, unitOf, sealed, deaths >>

(* They conflict: the unit is released and the dispatch ends without running.  *)
StartConflicts(a) ==
    /\ phase[a] = "claimed"
    /\ WaitForLeases(a, now)
    /\ workUnits' = Released(workUnits, unitOf[a], a)
    /\ EnterPhase(a, "over")
    /\ UNCHANGED << now, unitOf, sealed, deaths >>

(* The interval marks the unit running, whatever became of it, and extends the *)
(* leases.                                                                     *)
Heartbeat(a) ==
    LET beaten == Marked(workUnits, unitOf[a], a, "running", now) IN
    /\ phase[a] \in Beating
    /\ OneActivePerSubtask(beaten)
    /\ workUnits' = beaten
    /\ leases' = Beaten(a, now)
    /\ UNCHANGED << waits, now, phase, unitOf, sealed, deaths >>

(* The unique index refuses the heartbeat: nothing catches the exception of a  *)
(* timer's callback, and the process ends.                                     *)
HeartbeatThrows(a) ==
    /\ phase[a] \in Beating
    /\ ~OneActivePerSubtask(Marked(workUnits, unitOf[a], a, "running", now))
    /\ deaths < MaxDeaths
    /\ AllOver
    /\ deaths' = deaths + 1
    /\ UNCHANGED << workUnits, leases, waits, now, unitOf, sealed >>

(* onEscalation: a permission request of the attempt waits for its review.     *)
MarkWaiting(a) ==
    LET waiting == Marked(workUnits, unitOf[a], a, "waiting", now) IN
    /\ phase[a] = "running"
    /\ OneActivePerSubtask(waiting)
    /\ workUnits' = waiting
    /\ UNCHANGED << leases, waits, now, phase, unitOf, sealed, deaths >>

(* The try block ends, with the terminal landed or the outcome left uncertain; *)
(* an attempt that lost its claim lands as stale, and an exception marks the   *)
(* unit failed. The interval is cleared.                                       *)
FinishLanded(a) ==
    /\ phase[a] = "running"
    /\ \/ ClaimCurrent(workUnits, unitOf[a], a, {"running"})
       \/ workUnits[unitOf[a]].attempt # a
       \/ a \in sealed
    /\ sealed' = sealed \cup {a}
    /\ EnterPhase(a, "closing")
    /\ UNCHANGED << workUnits, leases, waits, now, unitOf, deaths >>

FinishFailed(a) ==
    LET failed == Marked(workUnits, unitOf[a], a, "failed", now) IN
    /\ phase[a] = "running"
    /\ workUnits' = failed
    /\ sealed' = sealed \cup {a}
    /\ EnterPhase(a, "closing")
    /\ UNCHANGED << leases, waits, now, unitOf, deaths >>

FinishUncertain(a) ==
    /\ phase[a] = "running"
    /\ EnterPhase(a, "closing")
    /\ UNCHANGED << workUnits, leases, waits, now, unitOf, sealed, deaths >>

(* The end of finally: a sealed attempt gives back its leases and its unit.    *)
Close(a) ==
    /\ phase[a] = "closing"
    /\ leases' = IF a \in sealed THEN ReleasedAll({a}) ELSE leases
    /\ workUnits' = IF a \in sealed THEN Released(workUnits, unitOf[a], a)
                                    ELSE workUnits
    /\ EnterPhase(a, "over")
    /\ UNCHANGED << waits, now, unitOf, sealed, deaths >>

-----------------------------------------------------------------------------
(* recoverExpiredAttempts sweeps the pool and lands the swept attempts as      *)
(* heartbeat_lost; it gives no lease back.                                     *)
Sweep ==
    /\ Expired(workUnits, now) # {}
    /\ sealed' = sealed \cup {workUnits[u].attempt : u \in Expired(workUnits, now)}
    /\ workUnits' = Swept(workUnits, now)
    /\ UNCHANGED << leases, waits, now, phase, unitOf, deaths >>

(* A cancellation revokes the leases of Subtasks and cancels their waits.      *)
Cancel(cancelled) ==
    /\ Revoke({a \in Attempts : SubtaskOf[a] \in cancelled})
    /\ << leases, waits >>' # << leases, waits >>
    /\ UNCHANGED << workUnits, now, phase, unitOf, sealed, deaths >>

(* Once its sandbox has exited, recover() gives back the revoked leases of a   *)
(* cancelled attempt; its run() may still be on its way out. The WorkUnit      *)
(* stays: its release asks for a work_unit_id that no statement ever writes.   *)
ConfirmExit(a) ==
    /\ leases[a].status = "held" /\ leases[a].revoked
    /\ phase[a] \in {"running", "closing", "over"}
    /\ leases' = ReleasedRevoked(a)
    /\ UNCHANGED << workUnits, waits, now, phase, unitOf, sealed, deaths >>

ProcessDies ==
    /\ deaths < MaxDeaths /\ now + deaths < MaxTime
    /\ AllOver
    /\ deaths' = deaths + 1
    /\ UNCHANGED << workUnits, leases, waits, now, unitOf, sealed >>

(* Startup seals the claims it finds and gives back their leases and units.    *)
ReconcileStartup ==
    /\ deaths > 0
    /\ \A a \in Attempts : phase[a] \in {"new", "over"}
    /\ OrphanedClaims(workUnits) # {}
    /\ LET orphans == {workUnits[u].attempt : u \in OrphanedClaims(workUnits)} IN
         /\ sealed' = sealed \cup orphans
         /\ leases' = ReleasedAll(orphans)
    /\ workUnits' = ReconciledClaims(workUnits)
    /\ UNCHANGED << waits, now, phase, unitOf, deaths >>

Tick ==
    /\ now + deaths < MaxTime
    /\ now' = now + 1
    /\ UNCHANGED << workUnits, leases, waits, phase, unitOf, sealed, deaths >>

NextResources ==
    \/ \E a \in Attempts :
         \/ \E u \in Units : ClaimIdle(a, u) \/ StartProvisioning(a, u)
         \/ ProbeFails(a) \/ ProbeSucceeds(a) \/ ClaimProvisioned(a)
         \/ StartRun(a) \/ StartConflicts(a)
         \/ Heartbeat(a) \/ HeartbeatThrows(a) \/ MarkWaiting(a)
         \/ FinishLanded(a) \/ FinishFailed(a) \/ FinishUncertain(a) \/ Close(a)
         \/ ConfirmExit(a)
    \/ \E cancelled \in SUBSET {SubtaskOf[a] : a \in Attempts} : Cancel(cancelled)
    \/ Sweep \/ ProcessDies \/ ReconcileStartup \/ Tick

SpecResources == InitResources /\ [][NextResources]_pool

-----------------------------------------------------------------------------
(* Every row keeps its shape, and only a running or finished run() holds a     *)
(* unit (resource-lease-repo.ts and work-unit-repo.ts).                        *)
ResourcesTypeOK ==
    /\ workUnits \in [Units -> WorkUnitRow]
    /\ leases \in [Attempts -> Lease]
    /\ waits \subseteq Attempts
    /\ now \in Nat /\ deaths \in Nat
    /\ phase \in [Attempts -> Phase]
    /\ unitOf \in [Attempts -> Units \cup {NoUnit}]
    /\ sealed \subseteq Attempts

(* Two attempts never hold live leases that conflict, through heartbeats,      *)
(* expiries, revocations, releases and restarts (resource-lease-repo.ts:89).   *)
LeasesExclusive ==
    \A a, b \in Attempts :
        LiveLease(a, now) /\ LiveLease(b, now) /\ a # b => ~Conflicting(a, b)

(* A claimed unit is given back only once the attempt that claims it is over   *)
(* or sealed: the release of an attempt that lost its unit to another, by the  *)
(* shared probe or a sweep, leaves the other's claim alone                     *)
(* (work-unit-claim-service.ts:228).                                           *)
OnlyItsOwnRelease ==
    [][ \A u \in Units, a \in Attempts :
          /\ workUnits[u].attempt = a /\ workUnits[u].state \in Active
          /\ workUnits'[u].attempt = NoAttempt
          => phase'[a] = "over" \/ a \in sealed'
      ]_pool
=============================================================================
