--------------------------- MODULE WorkUnitClaims ---------------------------
(* The pool of executor WorkUnits (execution/work-unit-claim-service.ts over   *)
(* storage/work-unit-repo.ts): a row per unit with its state, the attempt that *)
(* claims it and the expiry of the claim. Each operator below is one call of   *)
(* the service as a function of the rows; a module that composes the pool with *)
(* attempts says when a call happens. Names, events and the audit trail of a   *)
(* unit are left out.                                                          *)
EXTENDS Naturals, FiniteSets

CONSTANTS Attempts,     \* attempt ids
          Units,        \* ids of the units that are ever provisioned
          SubtaskOf,    \* the Subtask of an attempt
          AgentClassOf, \* the agent class an attempt is dispatched to
          NoAttempt,    \* null in claimed_attempt_id
          UnitLease     \* leaseMs of the claim service

ASSUME UnitAssumption == NoAttempt \notin Attempts /\ UnitLease \in Nat \ {0}

VARIABLE workUnits      \* the table work_units

UnitState == {"absent", "starting", "idle", "claimed", "running", "waiting",
              "failed", "heartbeat_lost"}
Active == {"claimed", "running", "waiting"}

(* A row keeps the class it was provisioned for; no expiry is 0.               *)
AgentClasses == {AgentClassOf[a] : a \in Attempts}
Row(class, state, attempt, expires) ==
    [class |-> class, state |-> state, attempt |-> attempt, expires |-> expires]
WorkUnitRow == [class : AgentClasses \cup {"none"}, state : UnitState,
                attempt : Attempts \cup {NoAttempt}, expires : Nat]
Absent == Row("none", "absent", NoAttempt, 0)

WithState(units, u, state, attempt, expires) ==
    [units EXCEPT ![u] = Row(units[u].class, state, attempt, expires)]

(* idx_work_units_one_active_attempt_per_subtask: the statement throws when    *)
(* it would leave two active units to one Subtask.                             *)
OneActivePerSubtask(units) ==
    \A u, v \in Units :
        /\ {units[u].state, units[v].state} \subseteq Active
        /\ NoAttempt \notin {units[u].attempt, units[v].attempt}
        /\ SubtaskOf[units[u].attempt] = SubtaskOf[units[v].attempt]
        => u = v

-----------------------------------------------------------------------------
(* findIdleByKind for the class of an attempt.                                 *)
IdleUnits(units, a) ==
    {u \in Units : units[u].state = "idle" /\ units[u].class = AgentClassOf[a]}

(* provisionExecutor: the row before the probe and after it.                   *)
Provisioned(units, u, a) ==
    [units EXCEPT ![u] = Row(AgentClassOf[a], "starting", NoAttempt, 0)]
Probed(units, u, available) ==
    WithState(units, u, IF available THEN "idle" ELSE "failed",
              units[u].attempt, units[u].expires)

(* claim() after the unit was chosen: it does not look at the row again.       *)
ClaimedBy(units, u, a, now) ==
    WithState(units, u, "claimed", a, now + UnitLease)

(* mark(): markRunning, heartbeat, markWaiting and markFailed of a claim write *)
(* whatever the unit has become.                                               *)
Marked(units, u, a, state, now) ==
    WithState(units, u, state, a, now + UnitLease)

(* A mutant of Released: a stale release is not skipped.                       *)
ReleasedByAnyone(units, u, a) ==
    WithState(units, u, IF units[u].state \in {"failed", "heartbeat_lost"}
                        THEN units[u].state ELSE "idle", NoAttempt, 0)

(* release() is skipped when the unit is no longer claimed by the attempt.     *)
Released(units, u, a) ==
    IF units[u].attempt # a THEN units
    ELSE WithState(units, u, IF units[u].state \in {"failed", "heartbeat_lost"}
                             THEN units[u].state ELSE "idle", NoAttempt, 0)

(* sweepExpired: the units whose claim expired, and the rows after it.         *)
Expired(units, now) ==
    {u \in Units : /\ units[u].state \in Active
                   /\ units[u].expires # 0
                   /\ units[u].expires < now}
Swept(units, now) ==
    [u \in Units |-> IF u \in Expired(units, now)
                     THEN Row(units[u].class, "heartbeat_lost", NoAttempt, 0)
                     ELSE units[u]]

(* listOrphanedClaims and releaseReconciledClaim, at startup.                  *)
OrphanedClaims(units) ==
    {u \in Units : units[u].state \in Active /\ units[u].attempt # NoAttempt}
ReconciledClaims(units) ==
    [u \in Units |-> IF u \in OrphanedClaims(units)
                     THEN Row(units[u].class, "heartbeat_lost", NoAttempt, 0)
                     ELSE units[u]]

(* isClaimCurrent, which every landing of an attempt asks.                     *)
ClaimCurrent(units, u, a, required) ==
    units[u].attempt = a /\ units[u].state \in required
=============================================================================
