------------------------ MODULE AttemptResourcesProofs ------------------------
(***************************************************************************)
(* What an attempt is given. The WorkUnit pool and the resource leases,    *)
(* for any number of attempts, units and grants and whatever the           *)
(* durations: no two live leases conflict, and no attempt's unit is given  *)
(* back behind its back. Then the evidence and the handoffs, for any Tasks *)
(* and work graphs.                                                        *)
(***************************************************************************)
EXTENDS AttemptResources, SubtaskDelivery, FiniteSetTheorems, SequenceTheorems,
        WellFoundedInduction, TLAPS

(***************************************************************************)
(* Whether two grants conflict does not depend on who asks: the claim of   *)
(* one attempt looks at the leases of the others only                      *)
(* (resource/partition.ts).                                                *)
(***************************************************************************)
LEMMA ConflictIsSymmetric ==
  ASSUME NEW a, NEW b, Conflicting(a, b)
  PROVE  Conflicting(b, a)
  <1>1. PICK c \in GrantOf[a], d \in GrantOf[b] : ResourceClaimsConflict(c, d)
    BY DEF Conflicting
  <1>2. ResourceClaimsConflict(d, c)
    BY <1>1 DEF ResourceClaimsConflict, PartitionsOverlap
  <1> QED BY <1>2 DEF Conflicting

(***************************************************************************)
(* Type correctness. A unit in an active state is claimed by an attempt:   *)
(* the sweep and the startup seal the attempts of the units they find.     *)
(***************************************************************************)
ActiveIsClaimed ==
  \A u \in Units : workUnits[u].state \in Active => workUnits[u].attempt \in Attempts

Typed == ResourcesTypeOK /\ ActiveIsClaimed

UnitsTyped(units) ==
  /\ units \in [Units -> WorkUnitRow]
  /\ \A u \in Units : units[u].state \in Active => units[u].attempt \in Attempts

LEMMA AssumedTypes == /\ UnitLease \in Nat /\ ResourceLease \in Nat
                      /\ NoAttempt \notin Attempts
  BY UnitAssumption, LeaseAssumption

(* A unit is written with the state of a call and the attempt that makes it. *)
LEMMA WithStateTyped ==
  ASSUME NEW units, UnitsTyped(units), NEW u, NEW state \in UnitState,
         NEW attempt \in Attempts \cup {NoAttempt}, NEW expires \in Nat,
         state \in Active => attempt \in Attempts
  PROVE  UnitsTyped(WithState(units, u, state, attempt, expires))
  BY DEF UnitsTyped, WithState, Row, WorkUnitRow

LEMMA MarkedTyped ==
  ASSUME NEW units, UnitsTyped(units), NEW u, NEW a \in Attempts, NEW time \in Nat,
         NEW state \in UnitState
  PROVE  UnitsTyped(Marked(units, u, a, state, time))
  BY WithStateTyped, AssumedTypes DEF Marked

LEMMA ClaimedTyped ==
  ASSUME NEW units, UnitsTyped(units), NEW u, NEW a \in Attempts, NEW time \in Nat
  PROVE  UnitsTyped(ClaimedBy(units, u, a, time))
  BY WithStateTyped, AssumedTypes DEF ClaimedBy, UnitState

LEMMA ReleasedTyped ==
  ASSUME NEW units, UnitsTyped(units), NEW u, NEW a
  PROVE  UnitsTyped(Released(units, u, a))
  BY WithStateTyped DEF Released, UnitState, Active

LEMMA ProvisionedTyped ==
  ASSUME NEW units, UnitsTyped(units), NEW u, NEW a \in Attempts
  PROVE  UnitsTyped(Provisioned(units, u, a))
  BY DEF Provisioned, UnitsTyped, Row, WorkUnitRow, UnitState, Active, AgentClasses

LEMMA ProbedTyped ==
  ASSUME NEW units, UnitsTyped(units), NEW u, NEW available
  PROVE  UnitsTyped(Probed(units, u, available))
  <1>1. CASE u \in Units
    <2>1. units[u].attempt \in Attempts \cup {NoAttempt} /\ units[u].expires \in Nat
      BY <1>1 DEF UnitsTyped, WorkUnitRow
    <2>2. \A state \in {"idle", "failed"} : state \in UnitState /\ state \notin Active
      BY DEF UnitState, Active
    <2>3. \A state \in {"idle", "failed"} :
             UnitsTyped(WithState(units, u, state, units[u].attempt, units[u].expires))
      BY <2>1, <2>2, WithStateTyped
    <2> QED BY <2>3 DEF Probed
  <1>2. CASE u \notin Units
    BY <1>2 DEF Probed, WithState, UnitsTyped
  <1> QED BY <1>1, <1>2

LEMMA LostTyped ==
  ASSUME NEW units, UnitsTyped(units), NEW time
  PROVE  UnitsTyped(Swept(units, time)) /\ UnitsTyped(ReconciledClaims(units))
  BY DEF Swept, ReconciledClaims, Expired, OrphanedClaims, UnitsTyped, Row, WorkUnitRow,
         UnitState, Active

LEMMA LeasesTyped ==
  ASSUME ResourcesTypeOK
  PROVE  /\ \A As : ReleasedAll(As) \in [Attempts -> Lease]
         /\ \A a : ReleasedRevoked(a) \in [Attempts -> Lease]
         /\ \A a \in Attempts : Beaten(a, now) \in [Attempts -> Lease]
  <1>1. \A As : ReleasedAll(As) \in [Attempts -> Lease]
    BY DEF ReleasedAll, GivenBack, Lease, ResourcesTypeOK
  <1>2. \A a \in Attempts : Beaten(a, now) \in [Attempts -> Lease]
    BY AssumedTypes DEF Beaten, Lease, ResourcesTypeOK
  <1> QED BY <1>1, <1>2 DEF ReleasedRevoked, ResourcesTypeOK

LEMMA ClaimUnitTyped ==
  ASSUME Typed, NEW a \in Attempts, NEW u \in Units \cup {NoUnit}, ClaimUnit(a, u),
         UNCHANGED << leases, waits, now, sealed, deaths >>
  PROVE  Typed'
  <1>1. UnitsTyped(ClaimedBy(workUnits, u, a, now))
    BY ClaimedTyped DEF Typed, ResourcesTypeOK, ActiveIsClaimed, UnitsTyped
  <1> QED BY <1>1 DEF ClaimUnit, EnterPhase, Typed, ResourcesTypeOK, ActiveIsClaimed,
                      UnitsTyped, Phase

(* An attempt's own steps write typed rows. *)
LEMMA AttemptStepTyped ==
  ASSUME Typed, NEW a \in Attempts,
         \/ \E u \in Units : ClaimIdle(a, u) \/ StartProvisioning(a, u)
         \/ ProbeFails(a) \/ ProbeSucceeds(a) \/ ClaimProvisioned(a)
         \/ StartRun(a) \/ StartConflicts(a)
         \/ Heartbeat(a) \/ HeartbeatThrows(a) \/ MarkWaiting(a)
         \/ FinishLanded(a) \/ FinishFailed(a) \/ FinishUncertain(a) \/ Close(a)
         \/ ConfirmExit(a)
  PROVE  Typed'
  <1> USE DEF Typed, EnterPhase, Phase
  <1>0. /\ UnitsTyped(workUnits) /\ now \in Nat
        /\ \A b \in Attempts : unitOf[b] \in Units \cup {NoUnit}
    BY DEF ResourcesTypeOK, ActiveIsClaimed, UnitsTyped
  <1>1. ASSUME NEW u \in Units, ClaimIdle(a, u) PROVE Typed'
    BY <1>1, ClaimUnitTyped DEF ClaimIdle
  <1>2. ASSUME NEW u \in Units, StartProvisioning(a, u) PROVE Typed'
    BY <1>0, <1>2, ProvisionedTyped
       DEF StartProvisioning, ResourcesTypeOK, ActiveIsClaimed, UnitsTyped
  <1>3. CASE ProbeFails(a) \/ ProbeSucceeds(a)
    <2>1. \A available : UnitsTyped(Probed(workUnits, unitOf[a], available))
      BY <1>0, ProbedTyped
    <2>2. UnitsTyped(workUnits')
      BY <1>3, <2>1 DEF ProbeFails, ProbeSucceeds
    <2> QED BY <1>3, <2>2 DEF ProbeFails, ProbeSucceeds, ResourcesTypeOK, ActiveIsClaimed,
                              UnitsTyped
  <1>4. CASE ClaimProvisioned(a)
    BY <1>0, <1>4, ClaimUnitTyped DEF ClaimProvisioned
  <1>5. CASE StartRun(a)
    <2>1. UnitsTyped(Marked(workUnits, unitOf[a], a, "running", now))
      BY <1>0, MarkedTyped DEF UnitState
    <2>2. UnitsTyped(workUnits')
      BY <1>0, <1>5, <2>1 DEF StartRun
    <2>3. leases' \in [Attempts -> Lease] /\ waits' \subseteq Attempts
      BY <1>5, AssumedTypes DEF StartRun, ClaimLeases, Lease, ResourcesTypeOK
    <2> QED BY <1>5, <2>2, <2>3 DEF StartRun, ResourcesTypeOK, ActiveIsClaimed, UnitsTyped
  <1>6. CASE StartConflicts(a)
    BY <1>0, <1>6, ReleasedTyped
       DEF StartConflicts, WaitForLeases, ResourcesTypeOK, ActiveIsClaimed, UnitsTyped
  <1>7. CASE Heartbeat(a)
    <2>1. UnitsTyped(workUnits')
      BY <1>0, <1>7, MarkedTyped DEF Heartbeat, UnitState
    <2> QED BY <1>7, <2>1, LeasesTyped
            DEF Heartbeat, ResourcesTypeOK, ActiveIsClaimed, UnitsTyped
  <1>8. CASE HeartbeatThrows(a)
    BY <1>8 DEF HeartbeatThrows, AllOver, ResourcesTypeOK, ActiveIsClaimed
  <1>9. CASE MarkWaiting(a)
    <2>1. UnitsTyped(workUnits')
      BY <1>0, <1>9, MarkedTyped DEF MarkWaiting, UnitState
    <2> QED BY <1>9, <2>1 DEF MarkWaiting, ResourcesTypeOK, ActiveIsClaimed, UnitsTyped
  <1>10. CASE FinishLanded(a) \/ FinishUncertain(a)
    BY <1>10 DEF FinishLanded, FinishUncertain, ResourcesTypeOK, ActiveIsClaimed
  <1>11. CASE FinishFailed(a)
    <2>1. UnitsTyped(workUnits')
      BY <1>0, <1>11, MarkedTyped DEF FinishFailed, UnitState
    <2> QED BY <1>11, <2>1 DEF FinishFailed, ResourcesTypeOK, ActiveIsClaimed, UnitsTyped
  <1>12. CASE Close(a)
    <2>1. UnitsTyped(workUnits')
      BY <1>0, <1>12, ReleasedTyped DEF Close
    <2> QED BY <1>12, <2>1, LeasesTyped
            DEF Close, ResourcesTypeOK, ActiveIsClaimed, UnitsTyped
  <1>13. CASE ConfirmExit(a)
    BY <1>13, LeasesTyped DEF ConfirmExit, ResourcesTypeOK, ActiveIsClaimed
  <1> QED BY <1>1, <1>2, <1>3, <1>4, <1>5, <1>6, <1>7, <1>8, <1>9, <1>10, <1>11, <1>12, <1>13

(* The sweep, a cancellation, a crash, a restart and the clock do as well. *)
LEMMA SessionStepTyped ==
  ASSUME Typed,
         \/ \E cancelled : Cancel(cancelled)
         \/ Sweep \/ ProcessDies \/ ReconcileStartup \/ Tick
  PROVE  Typed'
  <1> USE DEF Typed
  <1>0. UnitsTyped(workUnits)
    BY DEF ResourcesTypeOK, ActiveIsClaimed, UnitsTyped
  <1>1. ASSUME NEW cancelled, Cancel(cancelled) PROVE Typed'
    BY <1>1 DEF Cancel, Revoke, Lease, ResourcesTypeOK, ActiveIsClaimed
  <1>2. CASE Sweep
    BY <1>0, <1>2, LostTyped
       DEF Sweep, Expired, ResourcesTypeOK, ActiveIsClaimed, UnitsTyped
  <1>3. CASE ProcessDies
    BY <1>3 DEF ProcessDies, AllOver, Phase, ResourcesTypeOK, ActiveIsClaimed
  <1>4. CASE ReconcileStartup
    <2>1. sealed' \subseteq Attempts /\ leases' \in [Attempts -> Lease]
      BY <1>4, LeasesTyped DEF ReconcileStartup, OrphanedClaims, ResourcesTypeOK, ActiveIsClaimed
    <2> QED BY <1>0, <1>4, <2>1, LostTyped
            DEF ReconcileStartup, ResourcesTypeOK, ActiveIsClaimed, UnitsTyped
  <1>5. CASE Tick
    BY <1>5 DEF Tick, ResourcesTypeOK, ActiveIsClaimed
  <1> QED BY <1>1, <1>2, <1>3, <1>4, <1>5

LEMMA TypedStep ==
  ASSUME Typed, [NextResources]_pool
  PROVE  Typed'
  <1>1. CASE NextResources
    BY <1>1, AttemptStepTyped, SessionStepTyped DEF NextResources
  <1>2. CASE UNCHANGED pool
    BY <1>2 DEF pool, Typed, ResourcesTypeOK, ActiveIsClaimed
  <1> QED BY <1>1, <1>2

THEOREM PoolTyped == SpecResources => []Typed
  <1>1. InitResources => Typed
    BY DEF InitResources, Typed, ResourcesTypeOK, ActiveIsClaimed, Absent, Row, WorkUnitRow,
           UnitState, Active, NoLease, Lease, Phase
  <1> QED BY <1>1, TypedStep, PTL DEF SpecResources

(***************************************************************************)
(* The rows of the pool, of the leases and of the waits keep their types,  *)
(* at every step of every attempt (work-unit-repo.ts and                   *)
(* resource-lease-repo.ts).                                                *)
(***************************************************************************)
THEOREM ResourcesTypeCorrect == SpecResources => []ResourcesTypeOK
  BY PoolTyped, PTL DEF Typed

(***************************************************************************)
(* Only a claim makes a lease live, and it finds no live lease it          *)
(* conflicts with; a heartbeat extends what is live, and everything else   *)
(* shortens: the invariant needs nothing but itself and the types.         *)
(***************************************************************************)
LEMMA ClaimKeepsExclusive ==
  ASSUME Typed, LeasesExclusive, NEW a \in Attempts, ClaimLeases(a, now), now' = now
  PROVE  LeasesExclusive'
  <1> SUFFICES ASSUME NEW b \in Attempts, NEW c \in Attempts, b # c,
                      LiveLease(b, now)', LiveLease(c, now)', Conflicting(b, c)
               PROVE  FALSE
    BY DEF LeasesExclusive
  <1>1. \A d \in Attempts \ {a} : LiveLease(d, now)' => LiveLease(d, now)
    BY DEF ClaimLeases, LiveLease, Typed, ResourcesTypeOK
  <1>2. \A d \in Attempts \ {a} : LiveLease(d, now) => ~Conflicting(a, d)
    BY DEF ClaimLeases, Conflicts
  <1>3. CASE b # a /\ c # a
    BY <1>1, <1>3 DEF LeasesExclusive
  <1>4. CASE b = a \/ c = a
    BY <1>1, <1>2, <1>4, ConflictIsSymmetric
  <1> QED BY <1>3, <1>4

LEMMA ShorterKeepsExclusive ==
  ASSUME LeasesExclusive,
         \A a \in Attempts : LiveLease(a, now)' => LiveLease(a, now)
  PROVE  LeasesExclusive'
  BY DEF LeasesExclusive, Conflicting

LEMMA OnlyClaimsMakeLive ==
  ASSUME Typed, [NextResources]_pool, ~\E a \in Attempts : StartRun(a)
  PROVE  \A a \in Attempts : LiveLease(a, now)' => LiveLease(a, now)
  <1> SUFFICES ASSUME NEW b \in Attempts, LiveLease(b, now)' PROVE LiveLease(b, now)
    OBVIOUS
  <1> USE DEF LiveLease, Typed, ResourcesTypeOK
  <1>1. ASSUME NEW a \in Attempts, Heartbeat(a) PROVE LiveLease(b, now)
    BY <1>1 DEF Heartbeat, Beaten
  <1>2. ASSUME NEW a \in Attempts, Close(a) \/ ConfirmExit(a) PROVE LiveLease(b, now)
    BY <1>2 DEF Close, ConfirmExit, ReleasedRevoked, ReleasedAll, GivenBack
  <1>3. ASSUME NEW cancelled, Cancel(cancelled) PROVE LiveLease(b, now)
    BY <1>3 DEF Cancel, Revoke
  <1>4. CASE ReconcileStartup
    BY <1>4 DEF ReconcileStartup, ReleasedAll, GivenBack
  <1>5. CASE Tick
    BY <1>5 DEF Tick, Lease
  <1>6. CASE leases' = leases /\ now' = now
    BY <1>6
  <1>7. ASSUME NEW a \in Attempts,
               \/ \E u \in Units : ClaimIdle(a, u) \/ StartProvisioning(a, u)
               \/ ProbeFails(a) \/ ProbeSucceeds(a) \/ ClaimProvisioned(a)
               \/ StartConflicts(a) \/ HeartbeatThrows(a) \/ MarkWaiting(a)
               \/ FinishLanded(a) \/ FinishFailed(a) \/ FinishUncertain(a)
        PROVE  leases' = leases /\ now' = now
    BY <1>7 DEF ClaimIdle, StartProvisioning, ProbeFails, ProbeSucceeds, ClaimProvisioned,
                StartConflicts, WaitForLeases, HeartbeatThrows, MarkWaiting, FinishLanded,
                FinishFailed, FinishUncertain
  <1>8. ASSUME Sweep \/ ProcessDies \/ UNCHANGED pool PROVE leases' = leases /\ now' = now
    BY <1>8 DEF Sweep, ProcessDies, pool
  <1> QED BY <1>1, <1>2, <1>3, <1>4, <1>5, <1>6, <1>7, <1>8 DEF NextResources

(***************************************************************************)
(* For any attempts, grants and lease durations, two attempts never hold   *)
(* live leases that conflict (resource-lease-repo.ts:89).                  *)
(***************************************************************************)
THEOREM LeasesAreExclusive == SpecResources => []LeasesExclusive
  <1>1. InitResources => LeasesExclusive
    BY DEF InitResources, LeasesExclusive, LiveLease, NoLease
  <1>2. Typed /\ LeasesExclusive /\ [NextResources]_pool => LeasesExclusive'
    <2> SUFFICES ASSUME Typed, LeasesExclusive, [NextResources]_pool PROVE LeasesExclusive'
      OBVIOUS
    <2>1. CASE \E a \in Attempts : StartRun(a)
      BY <2>1, ClaimKeepsExclusive DEF StartRun
    <2>2. CASE ~\E a \in Attempts : StartRun(a)
      BY <2>2, OnlyClaimsMakeLive, ShorterKeepsExclusive
    <2> QED BY <2>1, <2>2
  <1> QED BY <1>1, <1>2, PoolTyped, PTL DEF SpecResources

(***************************************************************************)
(* What a call does to a unit that an attempt b claims: only the release   *)
(* by b itself, the sweep and the startup leave it to nobody.              *)
(***************************************************************************)
Frees(units, b) ==
  \E u \in Units : /\ workUnits[u].attempt = b /\ workUnits[u].state \in Active
                   /\ units[u].attempt = NoAttempt

LEMMA ReleaseFreesItsOwn ==
  ASSUME Typed, NEW a \in Attempts, NEW b \in Attempts, NEW u, Frees(Released(workUnits, u, a), b)
  PROVE  a = b
  BY UnitAssumption DEF Frees, Released, WithState, Row, Typed, ResourcesTypeOK

LEMMA CallsFreeNothing ==
  ASSUME Typed, NEW a \in Attempts, NEW b \in Attempts, NEW u
  PROVE  /\ ~Frees(workUnits, b)
         /\ \A state : ~Frees(Marked(workUnits, u, a, state, now), b)
         /\ ~Frees(ClaimedBy(workUnits, u, a, now), b)
         /\ workUnits[u].state = "absent" => ~Frees(Provisioned(workUnits, u, a), b)
         /\ \A available : ~Frees(Probed(workUnits, u, available), b)
  <1> USE UnitAssumption DEF Frees, WithState, Row, Typed, ResourcesTypeOK
  <1>1. ~Frees(workUnits, b)
    OBVIOUS
  <1>2. \A state : ~Frees(Marked(workUnits, u, a, state, now), b)
    BY DEF Marked
  <1>3. ~Frees(ClaimedBy(workUnits, u, a, now), b)
    BY DEF ClaimedBy
  <1>4. workUnits[u].state = "absent" => ~Frees(Provisioned(workUnits, u, a), b)
    BY DEF Provisioned, Active
  <1>5. \A available : ~Frees(Probed(workUnits, u, available), b)
    BY DEF Probed
  <1> QED BY <1>1, <1>2, <1>3, <1>4, <1>5

ReleasedByOwner ==
  \A u \in Units, a \in Attempts :
     /\ workUnits[u].attempt = a /\ workUnits[u].state \in Active
     /\ workUnits'[u].attempt = NoAttempt
     => phase'[a] = "over" \/ a \in sealed'

LEMMA FreedByOwner ==
  ASSUME \A b \in Attempts : Frees(workUnits', b) => phase'[b] = "over" \/ b \in sealed'
  PROVE  ReleasedByOwner
  BY DEF ReleasedByOwner, Frees

LEMMA StepReleasesByOwner ==
  ASSUME Typed, [NextResources]_pool
  PROVE  ReleasedByOwner
  <1> SUFFICES ASSUME NEW b \in Attempts, Frees(workUnits', b)
               PROVE  phase'[b] = "over" \/ b \in sealed'
    BY FreedByOwner
  <1>1. ASSUME NEW a \in Attempts, NEW u \in Units, ClaimIdle(a, u) \/ StartProvisioning(a, u)
        PROVE  FALSE
    BY <1>1, CallsFreeNothing DEF ClaimIdle, ClaimUnit, StartProvisioning
  <1>2. ASSUME NEW a \in Attempts,
               \/ ProbeFails(a) \/ ProbeSucceeds(a) \/ ClaimProvisioned(a)
               \/ StartRun(a) \/ Heartbeat(a) \/ HeartbeatThrows(a) \/ MarkWaiting(a)
               \/ FinishLanded(a) \/ FinishFailed(a) \/ FinishUncertain(a)
        PROVE  FALSE
    BY <1>2, CallsFreeNothing
       DEF ProbeFails, ProbeSucceeds, ClaimProvisioned, ClaimUnit, StartRun, Heartbeat,
           HeartbeatThrows, MarkWaiting, FinishLanded, FinishFailed, FinishUncertain
  <1>3. ASSUME NEW a \in Attempts, StartConflicts(a) \/ Close(a)
        PROVE  phase'[b] = "over"
    BY <1>3, CallsFreeNothing, ReleaseFreesItsOwn
       DEF StartConflicts, Close, EnterPhase, Typed, ResourcesTypeOK
  <1>4. ASSUME NEW a \in Attempts, ConfirmExit(a) PROVE FALSE
    BY <1>4, CallsFreeNothing DEF ConfirmExit
  <1>5. CASE Sweep
    BY <1>5, CallsFreeNothing DEF Sweep, Swept, Frees, Typed, ResourcesTypeOK
  <1>6. CASE ReconcileStartup
    BY <1>6, CallsFreeNothing DEF ReconcileStartup, ReconciledClaims, Frees, Typed, ResourcesTypeOK
  <1>7. ASSUME (\E cancelled : Cancel(cancelled)) \/ ProcessDies \/ Tick \/ UNCHANGED pool
        PROVE  FALSE
    BY <1>7, CallsFreeNothing DEF Cancel, ProcessDies, Tick, pool
  <1> QED BY <1>1, <1>2, <1>3, <1>4, <1>5, <1>6, <1>7 DEF NextResources

(***************************************************************************)
(* Whatever probes, sweeps, cancellations and restarts fall between the    *)
(* claim of a unit and its release, a claimed unit becomes nobody's only   *)
(* when the attempt that claims it is over or sealed                       *)
(* (work-unit-claim-service.ts:228).                                       *)
(***************************************************************************)
THEOREM UnitsAreReleasedByTheirOwners == SpecResources => OnlyItsOwnRelease
  <1>1. Typed /\ [NextResources]_pool => [ReleasedByOwner]_pool
    BY StepReleasesByOwner
  <1>2. [][ReleasedByOwner]_pool => OnlyItsOwnRelease
    BY PTL DEF OnlyItsOwnRelease, ReleasedByOwner
  <1> QED BY <1>1, <1>2, PoolTyped, PTL DEF SpecResources
-----------------------------------------------------------------------------
(***************************************************************************)
(* The delivery of evidence and handoffs.                                  *)
(***************************************************************************)

Stages == {"ready", "running", "awaiting_decision", "awaiting_integration", "done"}

DeliveryTyped ==
  /\ planned \subseteq Tasks /\ late \subseteq Nodes
  /\ stage \in [Nodes -> Stages] /\ retries \in 0 .. MaxRetries
  /\ DOMAIN given = Nodes /\ DOMAIN result = Nodes
  /\ DOMAIN pending = {s \in Nodes : stage[s] = "awaiting_integration"}
  /\ \A p \in Nodes, c \in Nodes :
       << p, c >> \in DOMAIN handoffs <=> stage[p] = "done" /\ c \in Targets(p)

\* An evidence id keeps the kind and the name of what its row holds, and the
\* input of the user is held for its own Task.
RowIsNamed(id, row) ==
  /\ \E kind \in RefKinds : id = EvidenceId(kind, row.holds)
  /\ row.holds \in DOMAIN Name
  /\ id[1] = "current_user_input" => row.task \in Tasks /\ row.holds = row.task
RowsAreNamed(table) == \A id \in DOMAIN table : RowIsNamed(id, table[id])

\* The inputs and interactions that an admitted graph cites have rows.
PlannedIsWritten ==
  \A t \in planned : \A ref \in RefsOf(t) :
    ref.kind \in InteractionKinds \cup {"current_user_input"} =>
      EvidenceId(ref.kind, ref.source) \in DOMAIN rows

\* Whatever a running attempt cites has a row.
RunningIsWritten ==
  \A s \in Nodes : stage[s] = "running" =>
    \A ref \in Range(Refs[s]) : EvidenceId(ref.kind, ref.source) \in DOMAIN rows

\* Items made from a body, as the edge asks for them.
MadeFrom(p, c, items, body) ==
  /\ Keys(items) = Keys(Items[<< p, c >>])
  /\ \A n \in DOMAIN items : items[n].type = "text" => items[n].size = body

PendingIsMade ==
  \A p \in Nodes : stage[p] = "awaiting_integration" =>
    \A c \in Targets(p) : MadeFrom(p, c, pending[p].handoffs[c], pending[p].body)
HandoffsAreMade ==
  \A p \in Nodes : stage[p] = "done" =>
    \A c \in Targets(p) : MadeFrom(p, c, handoffs[<< p, c >>], result[p])

DeliveryInv ==
  /\ DeliveryTyped /\ RowsAreNamed(rows) /\ PlannedIsWritten /\ RunningIsWritten
  /\ PendingIsMade /\ HandoffsAreMade /\ ContextIsWhole /\ EvidenceIsScoped
  /\ RefusalIsExplained
-----------------------------------------------------------------------------
LEMMA FirstIs ==
  ASSUME NEW S \in SUBSET Nat, S # {}
  PROVE  (CHOOSE i \in S : \A j \in S : i <= j) \in S
  <1> DEFINE R == OpToRel(<, Nat)
  <1>1. IsWellFoundedOn(R, Nat)
    BY NatLessThanWellFounded
  <1>2. PICK x \in S : \A y \in S : << y, x >> \notin R
    BY <1>1, WFMin
  <1>3. \A y \in S : ~(y < x)
    BY <1>2 DEF OpToRel
  <1>4. \A y \in S : x <= y
    BY <1>3
  <1> QED BY <1>4

\* The greatest position of a finite set of positions is one of them.
LEMMA LastIs ==
  ASSUME NEW S \in SUBSET Nat, S # {}, NEW bound \in Nat, \A i \in S : i <= bound
  PROVE  Max(S) \in S
  <1> DEFINE above == {m \in Nat : \A i \in S : i <= m}
  <1>1. above \in SUBSET Nat /\ above # {}
    OBVIOUS
  <1>2. PICK m \in above : \A k \in above : m <= k
    <2> DEFINE least == CHOOSE i \in above : \A j \in above : i <= j
    <2> HIDE DEF above
    <2>1. IsWellFoundedOn(OpToRel(<, Nat), Nat)
      BY NatLessThanWellFounded
    <2>2. PICK x \in above : \A y \in above : << y, x >> \notin OpToRel(<, Nat)
      BY <1>1, <2>1, WFMin
    <2>3. \A y \in above : ~(y < x)
      BY <1>1, <2>2 DEF OpToRel
    <2>4. \A y \in above : x <= y
      BY <1>1, <2>3
    <2> QED BY <2>4
  <1>3. m \in S
    <2> SUFFICES ASSUME m \notin S PROVE FALSE
      OBVIOUS
    <2>1. \A i \in S : i <= m /\ i # m /\ i \in Nat
      BY <1>2
    <2>2. m - 1 \in Nat
      <3>1. PICK i \in S : TRUE
        OBVIOUS
      <3>2. i \in Nat /\ m \in Nat /\ i <= m /\ i # m
        BY <2>1, <3>1
      <3> QED BY <3>2
    <2>3. m - 1 \in above
      BY <2>1, <2>2
    <2> QED BY <1>2, <2>3
  <1>4. \A i \in S : i <= m
    BY <1>2
  <1> QED BY <1>3, <1>4 DEF Max

\* What writing a list of entries does to a table.
LEMMA UpsertIs ==
  ASSUME NEW table, NEW entries, DOMAIN entries \subseteq Nat,
         NEW bound \in Nat, \A n \in DOMAIN entries : n <= bound,
         RowsAreNamed(table), \A n \in DOMAIN entries : RowIsNamed(entries[n].id, entries[n])
  PROVE  /\ RowsAreNamed(UpsertAll(table, entries))
         /\ DOMAIN table \subseteq DOMAIN UpsertAll(table, entries)
         /\ \A n \in DOMAIN entries : entries[n].id \in DOMAIN UpsertAll(table, entries)
         /\ \A id \in DOMAIN table : /\ UpsertAll(table, entries)[id].task = table[id].task
                                     /\ UpsertAll(table, entries)[id].exact = table[id].exact
  <1> DEFINE at(id) == {n \in DOMAIN entries : entries[n].id = id}
             made(id) == IF id \in DOMAIN table THEN table[id] ELSE entries[Min(at(id))]
             held(id) == IF at(id) = {} THEN table[id].holds ELSE entries[Max(at(id))].holds
             written == DOMAIN table \cup {entries[n].id : n \in DOMAIN entries}
             after == UpsertAll(table, entries)
  <1>1. after = [id \in written |-> [task |-> made(id).task, exact |-> made(id).exact, holds |-> held(id)]]
    BY DEF UpsertAll
  <1>2. ASSUME NEW id \in written, at(id) # {}
        PROVE  Min(at(id)) \in at(id) /\ Max(at(id)) \in at(id)
    <2>1. at(id) \in SUBSET Nat
      OBVIOUS
    <2>2. Max(at(id)) \in at(id)
      <3> DEFINE S == at(id)
      <3>1. S \in SUBSET Nat /\ S # {} /\ \A i \in S : i <= bound
        BY <1>2
      <3> HIDE DEF S
      <3>2. Max(S) \in S
        BY <3>1, LastIs
      <3> QED BY <3>2 DEF S
    <2>3. Min(at(id)) \in at(id)
      <3> DEFINE S == at(id)
      <3>1. S \in SUBSET Nat /\ S # {}
        BY <1>2
      <3> HIDE DEF S
      <3>2. Min(S) \in S
        BY <3>1, FirstIs DEF Min
      <3> QED BY <3>2 DEF S
    <2> QED BY <2>2, <2>3
  <1>3. ASSUME NEW id \in written
        PROVE  /\ id \in DOMAIN table \/ at(id) # {}
               /\ RowIsNamed(id, [task |-> made(id).task, exact |-> made(id).exact, holds |-> held(id)])
    <2>1. id \in DOMAIN table \/ at(id) # {}
      OBVIOUS
    <2>2. PICK m : m = made(id)
      OBVIOUS
    <2>3. RowIsNamed(id, m)
      <3>1. CASE id \in DOMAIN table
        BY <2>2, <3>1 DEF RowsAreNamed
      <3>2. CASE id \notin DOMAIN table
        <4>1. Min(at(id)) \in at(id)
          BY <1>2, <2>1, <3>2
        <4> QED BY <2>2, <3>2, <4>1
      <3> QED BY <3>1, <3>2
    <2>4. PICK h : h = held(id)
      OBVIOUS
    <2>5. PICK r : RowIsNamed(id, r) /\ h = r.holds
      <3>1. CASE at(id) = {}
        BY <2>1, <2>4, <3>1 DEF RowsAreNamed
      <3>2. CASE at(id) # {}
        <4>1. Max(at(id)) \in at(id)
          BY <1>2, <3>2
        <4> QED BY <2>4, <3>2, <4>1
      <3> QED BY <3>1, <3>2
    <2>6. id[1] = "current_user_input" => m.task \in Tasks /\ h = m.task
      <3> SUFFICES ASSUME id[1] = "current_user_input" PROVE m.task \in Tasks /\ h = m.task
        OBVIOUS
      <3>1. m.task \in Tasks /\ m.holds = m.task /\ r.task \in Tasks /\ h = r.task
        BY <2>3, <2>5 DEF RowIsNamed
      <3>2. id[2] = Name[m.holds] /\ id[2] = Name[h]
        BY <2>3, <2>5 DEF RowIsNamed, EvidenceId
      <3>3. \A t, u \in Tasks : Name[t] = Name[u] => t = u
        BY DeliveryAssumption
      <3> QED BY <3>1, <3>2, <3>3
    <2>7. (\E kind \in RefKinds : id = EvidenceId(kind, h)) /\ h \in DOMAIN Name
      BY <2>5 DEF RowIsNamed
    <2>8. RowIsNamed(id, [task |-> m.task, exact |-> m.exact, holds |-> h])
      BY <2>6, <2>7 DEF RowIsNamed
    <2> HIDE DEF made, held
    <2> QED BY <2>1, <2>2, <2>4, <2>8
  <1> HIDE DEF at, made, held
  <1>4. DOMAIN after = written
    BY <1>1
  <1>5. \A id \in written : after[id] = [task |-> made(id).task, exact |-> made(id).exact, holds |-> held(id)]
    BY <1>1
  <1> HIDE DEF after
  <1>6. RowsAreNamed(after)
    BY <1>3, <1>4, <1>5 DEF RowsAreNamed
  <1>7. \A id \in DOMAIN table : after[id].task = table[id].task /\ after[id].exact = table[id].exact
    <2> SUFFICES ASSUME NEW id \in DOMAIN table
                 PROVE  after[id].task = table[id].task /\ after[id].exact = table[id].exact
      OBVIOUS
    <2>1. id \in written /\ made(id) = table[id]
      BY DEF made
    <2>2. after[id] = [task |-> table[id].task, exact |-> table[id].exact, holds |-> held(id)]
      BY <1>5, <2>1
    <2> QED BY <2>2
  <1> QED BY <1>4, <1>6, <1>7 DEF after

\* A table grows: the rows it has keep their Tasks.
Grows(table, after) ==
  /\ DOMAIN table \subseteq DOMAIN after
  /\ \A id \in DOMAIN table : after[id].task = table[id].task

LEMMA EntryIsNamed ==
  ASSUME NEW t \in Tasks, NEW kind \in RefKinds, NEW source \in DOMAIN Name,
         kind = "current_user_input" => source = t
  PROVE  /\ Entry(t, kind, source).id = EvidenceId(kind, source)
         /\ RowIsNamed(Entry(t, kind, source).id, Entry(t, kind, source))
  <1>1. /\ Entry(t, kind, source).id = EvidenceId(kind, source)
        /\ Entry(t, kind, source).task = t /\ Entry(t, kind, source).holds = source
    BY DEF Entry
  <1>2. EvidenceId(kind, source)[1] = kind
    BY DEF EvidenceId
  <1> QED BY <1>1, <1>2 DEF RowIsNamed

\* Entries made from the sources of a kind.
LEMMA EntriesOfWrite ==
  ASSUME NEW table, RowsAreNamed(table), NEW t \in Tasks, NEW kind \in RefKinds \ {"current_user_input"},
         NEW sources \in Seq(DOMAIN Name), NEW kept
  PROVE  /\ RowsAreNamed(UpsertAll(table, EntriesOf(t, kind, sources, kept)))
         /\ Grows(table, UpsertAll(table, EntriesOf(t, kind, sources, kept)))
  <1> DEFINE entries == EntriesOf(t, kind, sources, kept)
  <1>1. Len(sources) \in Nat /\ DOMAIN sources = 1 .. Len(sources)
    BY LenProperties
  <1>2. /\ DOMAIN entries \subseteq DOMAIN sources
        /\ \A n \in DOMAIN entries : entries[n] = Entry(t, kind, sources[n])
    BY DEF EntriesOf
  <1>3. \A n \in DOMAIN sources : sources[n] \in DOMAIN Name
    BY ElementOfSeq, <1>1
  <1> HIDE DEF entries
  <1>4. ASSUME NEW n \in DOMAIN entries
        PROVE  RowIsNamed(entries[n].id, entries[n])
    BY <1>2, <1>3, EntryIsNamed
  <1>5. DOMAIN entries \subseteq Nat /\ \A n \in DOMAIN entries : n <= Len(sources)
    BY <1>1, <1>2
  <1>6. /\ RowsAreNamed(UpsertAll(table, entries))
        /\ Grows(table, UpsertAll(table, entries))
    BY <1>1, <1>4, <1>5, UpsertIs DEF Grows
  <1> QED BY <1>6 DEF entries

LEMMA GrowsOn ==
  ASSUME NEW table, NEW between, NEW after, Grows(table, between), Grows(between, after)
  PROVE  Grows(table, after)
  BY DEF Grows

LEMMA SyncedIs ==
  ASSUME RowsAreNamed(rows), NEW t \in Tasks
  PROVE  RowsAreNamed(Synced(t)) /\ Grows(rows, Synced(t))
  <1> DEFINE told == UpsertAll(rows, EntriesOf(t, "user_interaction", Interactions[t], Range(Interactions[t])))
             located == UpsertAll(told, EntriesOf(t, "task_resource", Resources[t], Range(Resources[t])))
  <1>1. Resources[t] \in Seq(DOMAIN Name) /\ Interactions[t] \in Seq(DOMAIN Name) /\ Preferences[t] \in Seq(DOMAIN Name)
    BY DeliveryAssumption
  <1>2. \A kind \in {"user_interaction", "task_resource", "preference"} : kind \in RefKinds \ {"current_user_input"}
    BY DEF RefKinds, InteractionKinds
  <1>3. RowsAreNamed(told) /\ Grows(rows, told)
    BY <1>1, <1>2, EntriesOfWrite
  <1> HIDE DEF told
  <1>4. RowsAreNamed(located) /\ Grows(told, located)
    BY <1>1, <1>2, <1>3, EntriesOfWrite
  <1> HIDE DEF located
  <1>5. Synced(t) = UpsertAll(located, EntriesOf(t, "preference", Preferences[t], confirmed))
    BY DEF Synced, located, told
  <1>6. RowsAreNamed(Synced(t)) /\ Grows(located, Synced(t))
    BY <1>1, <1>2, <1>4, <1>5, EntriesOfWrite
  <1> QED BY <1>3, <1>4, <1>6, GrowsOn

\* A finite set in some order: its elements, and no others.
LEMMA InSomeOrder ==
  ASSUME NEW S, IsFiniteSet(S)
  PROVE  /\ SetToSeq(S) \in [1 .. Cardinality(S) -> S] /\ Cardinality(S) \in Nat
         /\ \A x \in S : \E n \in 1 .. Cardinality(S) : SetToSeq(S)[n] = x
  <1> DEFINE n == Cardinality(S)
  <1>1. n \in Nat /\ ExistsBijection(1 .. n, S)
    BY FS_CardinalityType
  <1>2. PICK f \in [1 .. n -> S] : IsInjective(f)
    BY <1>1 DEF ExistsBijection, Bijection, Injection, IsInjective
  <1>3. SetToSeq(S) \in [1 .. n -> S] /\ IsInjective(SetToSeq(S))
    BY <1>2 DEF SetToSeq
  <1> DEFINE g == SetToSeq(S)
  <1> HIDE DEF g
  <1>4. g \in Injection(1 .. n, S)
    BY <1>3 DEF g, Injection, IsInjective
  <1>5. Cardinality(1 .. n) = n
    BY <1>1, FS_Interval
  <1>6. g \in Surjection(1 .. n, S)
    BY <1>4, <1>5, FS_Injection
  <1>7. \A x \in S : \E k \in 1 .. n : g[k] = x
    BY <1>6 DEF Surjection
  <1> QED BY <1>1, <1>3, <1>7 DEF g

\* What is written with a graph.
LEMMA PlanningWrites ==
  ASSUME RowsAreNamed(rows), NEW t \in Tasks
  PROVE  /\ RowsAreNamed(UpsertAll(rows, CitedAtPlanning(t)))
         /\ Grows(rows, UpsertAll(rows, CitedAtPlanning(t)))
         /\ \A ref \in RefsOf(t) : ref.kind \in InteractionKinds \cup {"current_user_input"} =>
              EvidenceId(ref.kind, ref.source) \in DOMAIN UpsertAll(rows, CitedAtPlanning(t))
  <1> DEFINE inputs == {q \in RefsOf(t) : q.kind \in InteractionKinds \cup {"current_user_input"}}
             S == {Entry(t, r.kind, r.source) : r \in inputs}
             entries == CitedAtPlanning(t)
  <1>1. IsFiniteSet(S)
    <2>1. IsFiniteSet(inputs)
      BY DeliveryAssumption, FS_Subset
    <2> DEFINE f == [r \in inputs |-> Entry(t, r.kind, r.source)]
    <2>2. f \in Surjection(inputs, S)
      BY DEF Surjection
    <2> HIDE DEF f, inputs, S
    <2> QED BY <2>1, <2>2, FS_Surjection
  <1>2. entries = SetToSeq(S)
    BY DEF CitedAtPlanning
  <1>3. ASSUME NEW e \in S
        PROVE  RowIsNamed(e.id, e)
    <2>1. PICK r \in inputs : e = Entry(t, r.kind, r.source)
      OBVIOUS
    <2>2. PICK s \in Nodes : TaskOf[s] = t /\ r \in Range(Refs[s])
      BY <2>1 DEF RefsOf
    <2>3. r \in [kind : RefKinds, source : DOMAIN Name] /\ (r.kind = "current_user_input" => r.source = t)
      <3>1. Refs[s] \in Seq([kind : RefKinds, source : DOMAIN Name])
        BY DeliveryAssumption
      <3>2. r \in [kind : RefKinds, source : DOMAIN Name]
        <4>1. PICK n \in DOMAIN Refs[s] : r = Refs[s][n]
          BY <2>2 DEF Range
        <4>2. n \in 1 .. Len(Refs[s])
          BY <3>1, <4>1, LenProperties
        <4>3. Refs[s][n] \in [kind : RefKinds, source : DOMAIN Name]
          BY <3>1, <4>2, ElementOfSeq
        <4> QED BY <4>1, <4>3
      <3> QED BY <2>2, <3>2, DeliveryAssumption
    <2> QED BY <2>1, <2>3, EntryIsNamed
  <1>4. \A r \in inputs : Entry(t, r.kind, r.source) \in S /\ Entry(t, r.kind, r.source).id = EvidenceId(r.kind, r.source)
    BY DEF Entry
  <1> HIDE DEF S, entries
  <1>5. /\ DOMAIN entries = 1 .. Cardinality(S) /\ Cardinality(S) \in Nat
        /\ \A n \in DOMAIN entries : entries[n] \in S
        /\ \A x \in S : \E n \in DOMAIN entries : entries[n] = x
    BY <1>1, <1>2, InSomeOrder
  <1>6. /\ DOMAIN entries \subseteq Nat /\ \A n \in DOMAIN entries : n <= Cardinality(S)
        /\ \A n \in DOMAIN entries : RowIsNamed(entries[n].id, entries[n])
    BY <1>3, <1>5
  <1>7. /\ RowsAreNamed(UpsertAll(rows, entries)) /\ Grows(rows, UpsertAll(rows, entries))
        /\ \A n \in DOMAIN entries : entries[n].id \in DOMAIN UpsertAll(rows, entries)
    BY <1>5, <1>6, UpsertIs DEF Grows
  <1>8. \A r \in inputs : EvidenceId(r.kind, r.source) \in DOMAIN UpsertAll(rows, entries)
    BY <1>4, <1>5, <1>7
  <1> QED BY <1>7, <1>8 DEF entries
-----------------------------------------------------------------------------
\* The first state, and the steps that leave the evidence as it is.

LEMMA DeliveryStarts == InitDelivery => DeliveryInv
  <1> SUFFICES ASSUME InitDelivery PROVE DeliveryInv
    OBVIOUS
  <1>1. DOMAIN rows = {} /\ DOMAIN pending = {} /\ DOMAIN handoffs = {}
    BY DEF InitDelivery
  <1>2. \A s \in Nodes : stage[s] = "ready"
    BY DEF InitDelivery
  <1>3. DeliveryTyped
    BY <1>1, <1>2, DeliveryAssumption DEF InitDelivery, DeliveryTyped, Stages
  <1>4. RowsAreNamed(rows) /\ PlannedIsWritten /\ RunningIsWritten
    BY <1>1, <1>2 DEF InitDelivery, RowsAreNamed, PlannedIsWritten, RunningIsWritten
  <1>5. PendingIsMade /\ HandoffsAreMade /\ ContextIsWhole
    BY <1>2 DEF PendingIsMade, HandoffsAreMade, ContextIsWhole
  <1>6. EvidenceIsScoped /\ RefusalIsExplained
    BY DEF InitDelivery, EvidenceIsScoped, RefusalIsExplained
  <1> QED BY <1>3, <1>4, <1>5, <1>6 DEF DeliveryInv

\* Who is done stays done, and so do its result and its handoffs.
LEMMA StageKeeps ==
  ASSUME DeliveryInv, NEW s \in Nodes, stage[s] # "done",
         NEW next \in Stages \ {"done"}, stage' = [stage EXCEPT ![s] = next],
         UNCHANGED << result, handoffs >>
  PROVE  /\ stage' \in [Nodes -> Stages] /\ HandoffsAreMade'
         /\ \A p \in Nodes : stage[p] = "done" <=> stage'[p] = "done"
         /\ \A p \in Nodes, c \in Nodes :
              << p, c >> \in DOMAIN handoffs' <=> stage'[p] = "done" /\ c \in Targets(p)
  <1>1. stage \in [Nodes -> Stages]
    BY DEF DeliveryInv, DeliveryTyped
  <1>2. stage' \in [Nodes -> Stages] /\ \A p \in Nodes : stage[p] = "done" <=> stage'[p] = "done"
    BY <1>1
  <1>3. HandoffsAreMade'
    BY <1>2 DEF DeliveryInv, HandoffsAreMade, MadeFrom, Targets, Edges, Keys
  <1> QED BY <1>2, <1>3 DEF DeliveryInv, DeliveryTyped

\* What was made, handed on or given stays as it is while nobody touches it.
LEMMA MadeStays ==
  ASSUME DeliveryInv, UNCHANGED << stage, given, pending, result, handoffs >>
  PROVE  PendingIsMade' /\ HandoffsAreMade' /\ ContextIsWhole'
  <1>1. PendingIsMade'
    BY DEF DeliveryInv, PendingIsMade, MadeFrom, Targets, Edges, Keys
  <1>2. HandoffsAreMade'
    BY DEF DeliveryInv, HandoffsAreMade, MadeFrom, Targets, Edges, Keys
  <1>3. ContextIsWhole'
    BY DEF DeliveryInv, ContextIsWhole, Parents, Edges, Keys
  <1> QED BY <1>1, <1>2, <1>3

LEMMA PersistKeeps ==
  ASSUME DeliveryInv, NEW t \in Tasks, PersistWorkGraph(t)
  PROVE  DeliveryInv'
  <1>1. /\ UNCHANGED << confirmed, stage, retries, given, pending, result, handoffs, late >>
        /\ planned' = planned \cup {t} /\ rows' = UpsertAll(rows, CitedAtPlanning(t))
        /\ answer' = {} /\ refusal' = {}
    BY DEF PersistWorkGraph, Quiet
  <1>2. /\ RowsAreNamed(rows') /\ Grows(rows, rows')
        /\ \A ref \in RefsOf(t) : ref.kind \in InteractionKinds \cup {"current_user_input"} =>
              EvidenceId(ref.kind, ref.source) \in DOMAIN rows'
    BY <1>1, PlanningWrites DEF DeliveryInv
  <1>3. DeliveryTyped'
    BY <1>1 DEF DeliveryInv, DeliveryTyped, Targets, Edges
  <1>4. PlannedIsWritten'
    BY <1>1, <1>2 DEF DeliveryInv, PlannedIsWritten, Grows
  <1>5. RunningIsWritten'
    BY <1>1, <1>2 DEF DeliveryInv, RunningIsWritten, Grows
  <1>6. PendingIsMade' /\ HandoffsAreMade' /\ ContextIsWhole'
    BY <1>1, MadeStays
  <1>7. EvidenceIsScoped' /\ RefusalIsExplained'
    BY <1>1 DEF EvidenceIsScoped, RefusalIsExplained
  <1>8. RowsAreNamed(rows)'
    BY <1>2 DEF RowsAreNamed, RowIsNamed
  <1> QED BY <1>3, <1>4, <1>5, <1>6, <1>7, <1>8 DEF DeliveryInv

\* A tool changes nothing but its answer; the user withdraws a preference.
LEMMA QuietKeeps ==
  ASSUME DeliveryInv, refusal' = {}, EvidenceIsScoped',
         UNCHANGED << rows, planned, stage, retries, given, pending, result, handoffs, late >>
  PROVE  DeliveryInv'
  <1>1. DeliveryTyped'
    BY DEF DeliveryInv, DeliveryTyped, Targets, Edges
  <1>2. RowsAreNamed(rows)' /\ PlannedIsWritten' /\ RunningIsWritten'
    BY DEF DeliveryInv, RowsAreNamed, RowIsNamed, PlannedIsWritten, RunningIsWritten
  <1>3. PendingIsMade' /\ HandoffsAreMade' /\ ContextIsWhole'
    BY MadeStays
  <1>4. RefusalIsExplained'
    BY DEF RefusalIsExplained
  <1> QED BY <1>1, <1>2, <1>3, <1>4 DEF DeliveryInv

LEMMA ToolsKeep ==
  ASSUME DeliveryInv, NEW s \in Nodes,
         ListEvidence(s) \/ \E id \in DOMAIN rows : GetEvidence(s, id)
  PROVE  DeliveryInv'
  <1>1. Tool(s)
    BY DEF ListEvidence, GetEvidence
  <1>2. /\ stage[s] = "running" /\ refusal' = {}
        /\ UNCHANGED << rows, planned, stage, retries, given, pending, result, handoffs, late >>
    BY <1>1 DEF Tool
  <1>3. CASE ListEvidence(s)
    <2>1. answer' = {[by |-> s, ids |-> ListGeneral(TaskOf[s]), exactly |-> FALSE]}
      BY <1>3 DEF ListEvidence
    <2>2. \A id \in ListGeneral(TaskOf[s]) : rows[id].task = TaskOf[s] /\ ~rows[id].exact
      BY DEF ListGeneral, FindForTask
    <2>3. EvidenceIsScoped'
      BY <1>2, <2>1, <2>2 DEF EvidenceIsScoped
    <2> QED BY <1>2, <2>3, QuietKeeps
  <1>4. ASSUME NEW id \in DOMAIN rows, GetEvidence(s, id)
        PROVE  DeliveryInv'
    <2>1. /\ answer' = {[by |-> s, ids |-> {id}, exactly |-> TRUE]}
          /\ rows[id].task = TaskOf[s] /\ (rows[id].exact => id \in Exact(s))
      BY <1>4 DEF GetEvidence, FindForTask
    <2>2. EvidenceIsScoped'
      BY <1>2, <2>1 DEF EvidenceIsScoped, Exact
    <2> QED BY <1>2, <2>2, QuietKeeps
  <1> QED BY <1>3, <1>4

LEMMA WithdrawKeeps ==
  ASSUME DeliveryInv, NEW p, Withdraw(p)
  PROVE  DeliveryInv'
  <1>1. /\ answer' = {} /\ refusal' = {}
        /\ UNCHANGED << rows, planned, stage, retries, given, pending, result, handoffs, late >>
    BY DEF Withdraw, Quiet
  <1>2. EvidenceIsScoped'
    BY <1>1 DEF EvidenceIsScoped
  <1> QED BY <1>1, <1>2, QuietKeeps
-----------------------------------------------------------------------------
\* A context is built, a completion is reported and integrated.

\* A dependency that is done has handed on.
LEMMA IncomingIsMade ==
  ASSUME DeliveryInv, NEW s \in Nodes, \A p \in Parents(s) : stage[p] = "done"
  PROVE  /\ IncomingComplete(s) /\ DOMAIN Incoming(s) = Parents(s)
         /\ \A p \in Parents(s) : MadeFrom(p, s, Incoming(s)[p], result[p])
  <1>1. \A p \in Parents(s) : p \in Nodes /\ s \in Targets(p)
    BY DEF Parents, Targets
  <1> QED BY <1>1 DEF DeliveryInv, DeliveryTyped, HandoffsAreMade, IncomingComplete, Incoming

\* Why a reference to what was admitted is refused.
LEMMA UnresolvedIsExplained ==
  ASSUME DeliveryInv, NEW t \in planned, NEW ref \in RefsOf(t), Unresolved(t, Synced(t), ref),
         ref.kind \in RefKinds, ref.kind = "current_user_input" => ref.source = t
  PROVE  \/ ref.kind = "preference" /\ ref.source \notin confirmed
         \/ ref.kind = "task_resource" /\ ref.source \notin Range(Resources[t])
         \/ /\ ref.kind \in InteractionKinds /\ ~OwnInteraction(t, ref.source)
            /\ EvidenceId(ref.kind, ref.source) \in DOMAIN rows
            /\ rows[EvidenceId(ref.kind, ref.source)].task # t
  <1> DEFINE id == EvidenceId(ref.kind, ref.source)
  <1>1. t \in Tasks /\ RowsAreNamed(rows)
    BY DEF DeliveryInv, DeliveryTyped
  <1>2. Grows(rows, Synced(t))
    BY <1>1, SyncedIs
  <1>3. ref.kind \in InteractionKinds \cup {"current_user_input"} => id \in DOMAIN rows
    BY DEF DeliveryInv, PlannedIsWritten
  <1>4. CASE ref.kind = "current_user_input"
    <2>1. ~FindForTask(Synced(t), t, id)
      BY <1>4 DEF Unresolved
    <2>2. id \in DOMAIN rows /\ RowIsNamed(id, rows[id]) /\ id[1] = "current_user_input" /\ id[2] = Name[t]
      BY <1>1, <1>3, <1>4 DEF RowsAreNamed, EvidenceId
    <2>3. rows[id].task \in Tasks /\ Name[rows[id].task] = Name[t]
      BY <2>2 DEF RowIsNamed, EvidenceId
    <2>4. \A u, v \in Tasks : Name[u] = Name[v] => u = v
      BY DeliveryAssumption
    <2>5. rows[id].task = t
      BY <1>1, <2>3, <2>4
    <2> QED BY <1>2, <2>1, <2>2, <2>5 DEF Grows, FindForTask
  <1>5. CASE ref.kind \in {"task_resource", "preference"}
    BY <1>5 DEF Unresolved
  <1>6. CASE ref.kind \in InteractionKinds
    <2>1. ~FindForTask(Synced(t), t, id) /\ ~OwnInteraction(t, ref.source)
      BY <1>6 DEF Unresolved, InteractionKinds
    <2>2. id \in DOMAIN rows /\ rows[id].task # t
      BY <1>2, <1>3, <1>6, <2>1 DEF Grows, FindForTask
    <2> QED BY <1>6, <2>1, <2>2
  <1> QED BY <1>4, <1>5, <1>6 DEF RefKinds

LEMMA BuildKeeps ==
  ASSUME DeliveryInv, NEW s \in Nodes, Build(s)
  PROVE  DeliveryInv'
  <1> DEFINE t == TaskOf[s]
             refused == {n \in DOMAIN Refs[s] : Unresolved(t, Synced(t), Refs[s][n])}
             cited == {n \in DOMAIN Refs[s] : /\ \A m \in refused : n < m
                                              /\ WritesRow(t, Synced(t), Refs[s][n])}
             entries == [n \in cited |-> Entry(t, Refs[s][n].kind, Refs[s][n].source)]
  <1>1. /\ t \in planned /\ stage[s] \in {"ready", "awaiting_decision"}
        /\ stage[s] = "ready" \/ retries < MaxRetries
        /\ \A p \in Parents(s) : stage[p] = "done"
    BY DEF Build, Startable
  <1>2. /\ IncomingComplete(s) /\ DOMAIN Incoming(s) = Parents(s)
        /\ \A p \in Parents(s) : MadeFrom(p, s, Incoming(s)[p], result[p])
    BY <1>1, IncomingIsMade
  <1>3. /\ UNCHANGED << confirmed, planned, pending, result, handoffs, late >> /\ answer' = {}
        /\ retries' = IF stage[s] = "ready" THEN retries ELSE retries + 1
        /\ rows' = UpsertAll(Synced(t), entries)
    BY <1>2 DEF Build
  <1>4. \/ /\ refused = {} /\ stage' = [stage EXCEPT ![s] = "running"]
           /\ given' = [given EXCEPT ![s] = Incoming(s)] /\ refusal' = {}
        \/ /\ refused # {} /\ stage' = [stage EXCEPT ![s] = "awaiting_decision"]
           /\ refusal' = {[of |-> s, refs |-> {Refs[s][n] : n \in refused}]} /\ given' = given
    BY <1>2 DEF Build
  <1>5. t \in Tasks /\ RowsAreNamed(Synced(t)) /\ Grows(rows, Synced(t))
    BY <1>1, SyncedIs DEF DeliveryInv, DeliveryTyped
  <1>6. /\ Len(Refs[s]) \in Nat /\ DOMAIN Refs[s] = 1 .. Len(Refs[s])
        /\ \A n \in DOMAIN Refs[s] :
             /\ Refs[s][n] \in [kind : RefKinds, source : DOMAIN Name] /\ Refs[s][n] \in RefsOf(t)
             /\ Refs[s][n].kind = "current_user_input" => Refs[s][n].source = t
    <2>1. Refs[s] \in Seq([kind : RefKinds, source : DOMAIN Name])
      BY DeliveryAssumption
    <2>2. \A n \in DOMAIN Refs[s] : Refs[s][n] \in [kind : RefKinds, source : DOMAIN Name]
      BY <2>1, ElementOfSeq, LenProperties
    <2>3. \A n \in DOMAIN Refs[s] : Refs[s][n] \in Range(Refs[s])
      BY DEF Range
    <2>4. \A ref \in Range(Refs[s]) : ref \in RefsOf(t) /\ (ref.kind = "current_user_input" => ref.source = t)
      BY DeliveryAssumption DEF RefsOf
    <2> QED BY <2>1, <2>2, <2>3, <2>4, LenProperties
  <1>7. \A n \in DOMAIN entries :
          /\ n \in DOMAIN Refs[s] /\ n \in Nat /\ n <= Len(Refs[s])
          /\ entries[n].id = EvidenceId(Refs[s][n].kind, Refs[s][n].source)
          /\ RowIsNamed(entries[n].id, entries[n])
    <2> SUFFICES ASSUME NEW n \in cited
                 PROVE  /\ n \in DOMAIN Refs[s] /\ n \in Nat /\ n <= Len(Refs[s])
                        /\ entries[n].id = EvidenceId(Refs[s][n].kind, Refs[s][n].source)
                        /\ RowIsNamed(entries[n].id, entries[n])
      OBVIOUS
    <2>1. entries[n] = Entry(t, Refs[s][n].kind, Refs[s][n].source) /\ n \in DOMAIN Refs[s]
      OBVIOUS
    <2>2. Refs[s][n].kind \in RefKinds /\ Refs[s][n].source \in DOMAIN Name
      BY <1>6, <2>1
    <2> HIDE DEF entries, cited
    <2>3. /\ entries[n].id = EvidenceId(Refs[s][n].kind, Refs[s][n].source)
          /\ RowIsNamed(entries[n].id, entries[n])
      BY <1>5, <1>6, <2>1, <2>2, EntryIsNamed
    <2> QED BY <1>6, <2>1, <2>3
  <1>8. DOMAIN entries = cited
    OBVIOUS
  <1> HIDE DEF entries
  <1>9. /\ RowsAreNamed(rows') /\ Grows(Synced(t), rows') /\ Grows(rows, rows')
        /\ \A n \in DOMAIN entries : entries[n].id \in DOMAIN rows'
    <2>1. /\ RowsAreNamed(UpsertAll(Synced(t), entries))
          /\ Grows(Synced(t), UpsertAll(Synced(t), entries))
          /\ \A n \in DOMAIN entries : entries[n].id \in DOMAIN UpsertAll(Synced(t), entries)
      <3>1. DOMAIN entries \subseteq Nat
        BY <1>7
      <3> QED BY <1>5, <1>6, <1>7, <3>1, UpsertIs DEF Grows
    <2> QED BY <1>3, <1>5, <2>1, GrowsOn
  <1>10. stage[s] # "done" /\ stage \in [Nodes -> Stages] /\ retries \in 0 .. MaxRetries /\ DOMAIN given = Nodes
    BY <1>1 DEF DeliveryInv, DeliveryTyped
  <1>11. PICK next \in {"running", "awaiting_decision"} : stage' = [stage EXCEPT ![s] = next]
    BY <1>4
  <1>12. /\ stage' \in [Nodes -> Stages] /\ HandoffsAreMade'
         /\ \A p \in Nodes : stage[p] = "done" <=> stage'[p] = "done"
         /\ \A p \in Nodes, c \in Nodes :
              << p, c >> \in DOMAIN handoffs' <=> stage'[p] = "done" /\ c \in Targets(p)
    BY <1>3, <1>10, <1>11, StageKeeps DEF Stages
  <1>13. \A p \in Nodes : /\ stage'[p] = "awaiting_integration" <=> stage[p] = "awaiting_integration"
                          /\ p # s => stage'[p] = stage[p]
    BY <1>1, <1>10, <1>11
  <1>14. retries' \in 0 .. MaxRetries
    BY <1>1, <1>3, <1>10, DeliveryAssumption
  <1>15. DOMAIN given' = Nodes /\ \A p \in Nodes : p # s => given'[p] = given[p]
    BY <1>4, <1>10
  <1>16. DeliveryTyped'
    BY <1>3, <1>12, <1>13, <1>14, <1>15 DEF DeliveryInv, DeliveryTyped, Targets, Edges
  <1>17. PlannedIsWritten'
    BY <1>3, <1>9 DEF DeliveryInv, PlannedIsWritten, Grows
  <1>18. PendingIsMade'
    BY <1>3, <1>13 DEF DeliveryInv, PendingIsMade, MadeFrom, Targets, Edges, Keys
  <1>19. EvidenceIsScoped'
    BY <1>3 DEF EvidenceIsScoped
  <1>20. RowsAreNamed(rows)'
    BY <1>9 DEF RowsAreNamed, RowIsNamed
  <1>21. ASSUME NEW n \in DOMAIN Refs[s], refused = {}
         PROVE  EvidenceId(Refs[s][n].kind, Refs[s][n].source) \in DOMAIN rows'
    <2>1. ~Unresolved(t, Synced(t), Refs[s][n])
      BY <1>21
    <2>2. CASE WritesRow(t, Synced(t), Refs[s][n])
      <3>1. n \in cited
        BY <1>21, <2>2
      <3> QED BY <1>7, <1>8, <1>9, <3>1
    <2>3. CASE ~WritesRow(t, Synced(t), Refs[s][n])
      <3>1. Refs[s][n].kind \in RefKinds
        BY <1>6
      <3>2. EvidenceId(Refs[s][n].kind, Refs[s][n].source) \in DOMAIN Synced(t)
        BY <2>1, <2>3, <3>1 DEF Unresolved, WritesRow, FindForTask, RefKinds
      <3> QED BY <1>9, <3>2 DEF Grows
    <2> QED BY <2>2, <2>3
  <1>22. RunningIsWritten'
    <2> SUFFICES ASSUME NEW p \in Nodes, stage'[p] = "running", NEW ref \in Range(Refs[p])
                 PROVE  EvidenceId(ref.kind, ref.source) \in DOMAIN rows'
      BY DEF RunningIsWritten
    <2>1. CASE p = s
      <3>1. refused = {}
        BY <1>4, <1>10, <2>1
      <3> QED BY <1>21, <2>1, <3>1 DEF Range
    <2>2. CASE p # s
      BY <1>9, <1>13, <2>2 DEF DeliveryInv, RunningIsWritten, Grows
    <2> QED BY <2>1, <2>2
  <1>23. ContextIsWhole'
    <2> SUFFICES ASSUME NEW c \in Nodes, stage'[c] = "running"
                 PROVE  /\ DOMAIN given'[c] = Parents(c)
                        /\ \A p \in Parents(c) :
                             /\ stage'[p] = "done"
                             /\ Keys(given'[c][p]) = Keys(Items[<< p, c >>])
                             /\ \A n \in DOMAIN given'[c][p] :
                                  given'[c][p][n].type = "text" => given'[c][p][n].size = result[p]
      BY <1>3 DEF ContextIsWhole, Parents, Edges, Keys
    <2>1. \A p \in Parents(c) : p \in Nodes
      BY DEF Parents
    <2>2. CASE c = s
      <3>1. given'[s] = Incoming(s)
        BY <1>4, <1>10, <2>2
      <3> QED BY <1>1, <1>2, <1>12, <2>1, <2>2, <3>1 DEF MadeFrom
    <2>3. CASE c # s
      BY <1>12, <1>13, <1>15, <2>1, <2>3 DEF DeliveryInv, ContextIsWhole
    <2> QED BY <2>2, <2>3
  <1>24. RefusalIsExplained'
    <2>1. CASE refusal' = {}
      BY <2>1 DEF RefusalIsExplained
    <2>2. CASE refused # {} /\ refusal' = {[of |-> s, refs |-> {Refs[s][n] : n \in refused}]}
      <3> SUFFICES ASSUME NEW n \in refused
                   PROVE  LET ref == Refs[s][n]
                          IN  \/ ref.kind = "preference" /\ ref.source \notin confirmed
                              \/ ref.kind = "task_resource" /\ ref.source \notin Range(Resources[t])
                              \/ /\ ref.kind \in InteractionKinds
                                 /\ ~OwnInteraction(t, ref.source)
                                 /\ rows'[EvidenceId(ref.kind, ref.source)].task # t
        BY <1>3, <2>2 DEF RefusalIsExplained, OwnInteraction, EvidenceId
      <3>1. \/ Refs[s][n].kind = "preference" /\ Refs[s][n].source \notin confirmed
            \/ Refs[s][n].kind = "task_resource" /\ Refs[s][n].source \notin Range(Resources[t])
            \/ /\ Refs[s][n].kind \in InteractionKinds /\ ~OwnInteraction(t, Refs[s][n].source)
               /\ EvidenceId(Refs[s][n].kind, Refs[s][n].source) \in DOMAIN rows
               /\ rows[EvidenceId(Refs[s][n].kind, Refs[s][n].source)].task # t
        BY <1>1, <1>6, UnresolvedIsExplained
      <3> QED BY <1>9, <3>1 DEF Grows
    <2> QED BY <1>4, <2>1, <2>2
  <1> QED BY <1>12, <1>16, <1>17, <1>18, <1>19, <1>20, <1>22, <1>23, <1>24 DEF DeliveryInv

LEMMA MaterializedIs ==
  ASSUME NEW s \in Nodes, NEW c, NEW r
  PROVE  MadeFrom(s, c, Handoff(s, c, r), r.body)
  <1>1. DOMAIN Handoff(s, c, r) = DOMAIN Items[<< s, c >>]
    BY DEF Handoff
  <1>2. \A n \in DOMAIN Items[<< s, c >>] :
          /\ Handoff(s, c, r)[n].key = Items[<< s, c >>][n].key
          /\ Handoff(s, c, r)[n].type = Items[<< s, c >>][n].type
          /\ Handoff(s, c, r)[n].type = "text" => Handoff(s, c, r)[n].size = r.body
    BY DEF Handoff, Materialized
  <1> QED BY <1>1, <1>2 DEF MadeFrom, Keys

LEMMA ReportKeeps ==
  ASSUME DeliveryInv, NEW s \in Nodes, Report(s)
  PROVE  DeliveryInv'
  <1>1. /\ UNCHANGED << rows, confirmed, planned, retries, given, result, handoffs >>
        /\ answer' = {} /\ refusal' = {} /\ stage[s] = "running"
    BY DEF Report, Quiet
  <1>2. PICK r : \/ /\ stage' = [stage EXCEPT ![s] = "awaiting_integration"]
                    /\ pending' = [q \in DOMAIN pending \cup {s} |-> IF q = s THEN Completion(s, r) ELSE pending[q]]
                    /\ late' = late \cup SideBySide(s)
                 \/ /\ stage' = [stage EXCEPT ![s] = "awaiting_decision"]
                    /\ UNCHANGED << pending, late >>
    BY DEF Report
  <1>3. stage[s] # "done" /\ stage \in [Nodes -> Stages] /\ DOMAIN pending = {q \in Nodes : stage[q] = "awaiting_integration"}
    BY <1>1 DEF DeliveryInv, DeliveryTyped
  <1>4. PICK next \in {"awaiting_integration", "awaiting_decision"} : stage' = [stage EXCEPT ![s] = next]
    BY <1>2
  <1>5. /\ stage' \in [Nodes -> Stages] /\ HandoffsAreMade'
        /\ \A p \in Nodes : stage[p] = "done" <=> stage'[p] = "done"
        /\ \A p \in Nodes, c \in Nodes :
             << p, c >> \in DOMAIN handoffs' <=> stage'[p] = "done" /\ c \in Targets(p)
    BY <1>1, <1>3, <1>4, StageKeeps DEF Stages
  <1>6. stage'[s] # "running" /\ \A p \in Nodes : p # s => stage'[p] = stage[p]
    BY <1>3, <1>4
  <1>7. late' \subseteq Nodes
    BY <1>2 DEF DeliveryInv, DeliveryTyped, SideBySide, Targets
  <1>8. /\ DOMAIN pending' = {q \in Nodes : stage'[q] = "awaiting_integration"}
        /\ \A q \in Nodes : q # s => pending'[q] = pending[q] \/ q \notin DOMAIN pending
        /\ stage'[s] = "awaiting_integration" => pending'[s] = Completion(s, r)
    <2>1. CASE stage' = [stage EXCEPT ![s] = "awaiting_decision"] /\ UNCHANGED << pending, late >>
      BY <1>1, <1>3, <2>1
    <2>2. CASE /\ stage' = [stage EXCEPT ![s] = "awaiting_integration"]
               /\ pending' = [q \in DOMAIN pending \cup {s} |-> IF q = s THEN Completion(s, r) ELSE pending[q]]
      BY <1>1, <1>3, <2>2
    <2> QED BY <1>2, <2>1, <2>2
  <1>9. DeliveryTyped'
    BY <1>1, <1>5, <1>7, <1>8 DEF DeliveryInv, DeliveryTyped, Targets, Edges
  <1>10. RowsAreNamed(rows)' /\ PlannedIsWritten'
    BY <1>1 DEF DeliveryInv, RowsAreNamed, RowIsNamed, PlannedIsWritten
  <1>11. RunningIsWritten'
    BY <1>1, <1>6 DEF DeliveryInv, RunningIsWritten
  <1>12. PendingIsMade'
    <2> SUFFICES ASSUME NEW p \in Nodes, stage'[p] = "awaiting_integration", NEW c \in Targets(p)
                 PROVE  MadeFrom(p, c, pending'[p].handoffs[c], pending'[p].body)
      BY DEF PendingIsMade, MadeFrom, Targets, Edges, Keys
    <2>1. CASE p = s
      <3>1. pending'[s].handoffs[c] = Handoff(s, c, r) /\ pending'[s].body = r.body
        BY <1>8, <2>1 DEF Completion
      <3> QED BY <2>1, <3>1, MaterializedIs
    <2>2. CASE p # s
      <3>1. stage[p] = "awaiting_integration" /\ pending'[p] = pending[p]
        BY <1>3, <1>6, <1>8, <2>2
      <3> QED BY <3>1 DEF DeliveryInv, PendingIsMade
    <2> QED BY <2>1, <2>2
  <1>13. ContextIsWhole'
    <2>1. \A c \in Nodes : stage'[c] = "running" => stage[c] = "running"
      BY <1>6
    <2>2. \A c \in Nodes : \A p \in Parents(c) : p \in Nodes
      BY DEF Parents
    <2> QED BY <1>1, <1>5, <2>1, <2>2 DEF DeliveryInv, ContextIsWhole, Parents, Edges, Keys
  <1>14. EvidenceIsScoped' /\ RefusalIsExplained'
    BY <1>1 DEF EvidenceIsScoped, RefusalIsExplained
  <1> QED BY <1>5, <1>9, <1>10, <1>11, <1>12, <1>13, <1>14 DEF DeliveryInv

LEMMA IntegrateKeeps ==
  ASSUME DeliveryInv, NEW s \in Nodes, Integrate(s)
  PROVE  DeliveryInv'
  <1>1. /\ UNCHANGED << rows, confirmed, planned, retries, given, late >>
        /\ answer' = {} /\ refusal' = {} /\ stage[s] = "awaiting_integration"
        /\ stage' = [stage EXCEPT ![s] = "done"]
        /\ result' = [result EXCEPT ![s] = pending[s].body]
        /\ handoffs' = [e \in DOMAIN handoffs \cup {<< s, c >> : c \in Targets(s)} |->
                          IF e[1] = s THEN pending[s].handoffs[e[2]] ELSE handoffs[e]]
        /\ pending' = Restrict(pending, DOMAIN pending \ {s})
    BY DEF Integrate, Quiet
  <1>2. /\ stage \in [Nodes -> Stages] /\ DOMAIN result = Nodes
        /\ DOMAIN pending = {q \in Nodes : stage[q] = "awaiting_integration"}
        /\ \A p \in Nodes, c \in Nodes :
             << p, c >> \in DOMAIN handoffs <=> stage[p] = "done" /\ c \in Targets(p)
    BY DEF DeliveryInv, DeliveryTyped
  <1>3. /\ stage' \in [Nodes -> Stages] /\ stage'[s] = "done" /\ result'[s] = pending[s].body
        /\ DOMAIN result' = Nodes
        /\ \A p \in Nodes : p # s => stage'[p] = stage[p] /\ result'[p] = result[p]
    BY <1>1, <1>2 DEF Stages
  <1>4. /\ DOMAIN pending' = {q \in Nodes : stage'[q] = "awaiting_integration"}
        /\ \A q \in DOMAIN pending' : pending'[q] = pending[q]
    BY <1>1, <1>2, <1>3 DEF Restrict
  <1>5. \A p \in Nodes, c \in Nodes :
          << p, c >> \in DOMAIN handoffs' <=> stage'[p] = "done" /\ c \in Targets(p)
    <2> SUFFICES ASSUME NEW p \in Nodes, NEW c \in Nodes
                 PROVE  << p, c >> \in DOMAIN handoffs' <=> stage'[p] = "done" /\ c \in Targets(p)
      OBVIOUS
    <2>1. << p, c >> \in DOMAIN handoffs' <=>
            << p, c >> \in DOMAIN handoffs \/ (p = s /\ c \in Targets(s))
      BY <1>1
    <2> QED BY <1>1, <1>2, <1>3, <2>1
  <1>6. \A p \in Nodes : \A c \in Targets(p) : << p, c >> \in DOMAIN handoffs' =>
          handoffs'[<< p, c >>] = IF p = s THEN pending[s].handoffs[c] ELSE handoffs[<< p, c >>]
    BY <1>1
  <1>7. DeliveryTyped'
    BY <1>1, <1>3, <1>4, <1>5 DEF DeliveryInv, DeliveryTyped, Targets, Edges
  <1>8. RowsAreNamed(rows)' /\ PlannedIsWritten'
    BY <1>1 DEF DeliveryInv, RowsAreNamed, RowIsNamed, PlannedIsWritten
  <1>9. RunningIsWritten'
    BY <1>1, <1>3 DEF DeliveryInv, RunningIsWritten
  <1>10. PendingIsMade'
    BY <1>3, <1>4 DEF DeliveryInv, PendingIsMade, MadeFrom, Targets, Edges, Keys
  <1>11. HandoffsAreMade'
    <2> SUFFICES ASSUME NEW p \in Nodes, stage'[p] = "done", NEW c \in Targets(p)
                 PROVE  MadeFrom(p, c, handoffs'[<< p, c >>], result'[p])
      BY DEF HandoffsAreMade, MadeFrom, Targets, Edges, Keys
    <2>1. c \in Nodes
      BY DEF Targets
    <2>2. << p, c >> \in DOMAIN handoffs'
      BY <1>5, <2>1
    <2>3. CASE p = s
      <3>1. handoffs'[<< p, c >>] = pending[s].handoffs[c] /\ result'[p] = pending[s].body
        BY <1>3, <1>6, <2>2, <2>3
      <3> QED BY <1>1, <2>3, <3>1 DEF DeliveryInv, PendingIsMade
    <2>4. CASE p # s
      <3>1. handoffs'[<< p, c >>] = handoffs[<< p, c >>] /\ result'[p] = result[p] /\ stage[p] = "done"
        BY <1>3, <1>6, <2>2, <2>4
      <3> QED BY <3>1 DEF DeliveryInv, HandoffsAreMade
    <2> QED BY <2>3, <2>4
  <1>12. ContextIsWhole'
    <2> SUFFICES ASSUME NEW c \in Nodes, stage'[c] = "running"
                 PROVE  /\ DOMAIN given[c] = Parents(c)
                        /\ \A p \in Parents(c) :
                             /\ stage'[p] = "done"
                             /\ Keys(given[c][p]) = Keys(Items[<< p, c >>])
                             /\ \A n \in DOMAIN given[c][p] :
                                  given[c][p][n].type = "text" => given[c][p][n].size = result'[p]
      BY <1>1 DEF ContextIsWhole, Parents, Edges, Keys
    <2>1. stage[c] = "running"
      BY <1>3
    <2>2. \A p \in Parents(c) : p \in Nodes /\ stage[p] = "done" /\ p # s
      BY <1>1, <2>1 DEF DeliveryInv, ContextIsWhole, Parents
    <2> QED BY <1>3, <2>1, <2>2 DEF DeliveryInv, ContextIsWhole
  <1>13. EvidenceIsScoped' /\ RefusalIsExplained'
    BY <1>1 DEF EvidenceIsScoped, RefusalIsExplained
  <1> QED BY <1>7, <1>8, <1>9, <1>10, <1>11, <1>12, <1>13 DEF DeliveryInv

LEMMA DeliveryStutters ==
  ASSUME DeliveryInv, UNCHANGED delivery
  PROVE  DeliveryInv'
  <1>1. UNCHANGED << rows, confirmed, planned, stage, retries, given, pending, result, handoffs,
                     answer, refusal, late >>
    BY DEF delivery
  <1>2. DeliveryTyped'
    BY <1>1 DEF DeliveryInv, DeliveryTyped, Targets, Edges
  <1>3. RowsAreNamed(rows)' /\ PlannedIsWritten' /\ RunningIsWritten'
    BY <1>1 DEF DeliveryInv, RowsAreNamed, RowIsNamed, PlannedIsWritten, RunningIsWritten
  <1>4. PendingIsMade' /\ HandoffsAreMade' /\ ContextIsWhole'
    BY <1>1, MadeStays
  <1>5. EvidenceIsScoped'
    BY <1>1 DEF DeliveryInv, EvidenceIsScoped, Exact
  <1>6. RefusalIsExplained'
    BY <1>1 DEF DeliveryInv, RefusalIsExplained, OwnInteraction, EvidenceId
  <1> QED BY <1>2, <1>3, <1>4, <1>5, <1>6 DEF DeliveryInv

LEMMA DeliveryStepKeeps == DeliveryInv /\ [NextDelivery]_delivery => DeliveryInv'
  <1> SUFFICES ASSUME DeliveryInv, [NextDelivery]_delivery
               PROVE  DeliveryInv'
    OBVIOUS
  <1>1. ASSUME NEW t \in Tasks, PersistWorkGraph(t)
        PROVE  DeliveryInv'
    BY <1>1, PersistKeeps
  <1>2. ASSUME NEW s \in Nodes, Build(s)
        PROVE  DeliveryInv'
    BY <1>2, BuildKeeps
  <1>3. ASSUME NEW s \in Nodes, ListEvidence(s) \/ \E id \in DOMAIN rows : GetEvidence(s, id)
        PROVE  DeliveryInv'
    BY <1>3, ToolsKeep
  <1>4. ASSUME NEW s \in Nodes, Report(s) \/ Integrate(s)
        PROVE  DeliveryInv'
    BY <1>4, ReportKeeps, IntegrateKeeps
  <1>5. ASSUME NEW p \in confirmed, Withdraw(p)
        PROVE  DeliveryInv'
    BY <1>5, WithdrawKeeps
  <1>6. CASE UNCHANGED delivery
    BY <1>6, DeliveryStutters
  <1> QED BY <1>1, <1>2, <1>3, <1>4, <1>5, <1>6 DEF NextDelivery

\* The invariant of the delivery holds in every behaviour.
THEOREM DeliveryInductive == SpecDelivery => []DeliveryInv
  BY DeliveryStarts, DeliveryStepKeeps, PTL DEF SpecDelivery

\* Stages, contexts, pending completions and handoffs keep their shapes: a Subtask
\* waits for its integration exactly with a pending completion, and an edge has a
\* handoff exactly when its source is done (subtask_handoffs, task_workspace_publications).
THEOREM DeliveryTypeCorrect == SpecDelivery => []DeliveryTyped
  <1>1. DeliveryInv => DeliveryTyped
    BY DEF DeliveryInv
  <1> QED BY <1>1, DeliveryInductive, PTL

\* Every attempt reads and is handed what its work graph says: the handoffs of all
\* its dependencies as integrated, evidence of its own Task, a row for whatever it
\* cites; and it is refused only for the reasons named (SubtaskExecutionContext.build,
\* ScopedExecutionEvidencePort, validateCompletionProtocol and publish).
THEOREM DeliveriesAreExact == SpecDelivery => []DeliveryIsExact
  <1>1. DeliveryInv => DeliveryIsExact
    <2> SUFFICES ASSUME DeliveryInv PROVE DeliveryIsExact
      OBVIOUS
    <2>1. CitedIsRead
      <3> SUFFICES ASSUME NEW s \in Nodes, stage[s] = "running", NEW ref \in Range(Refs[s])
                   PROVE  LET id == EvidenceId(ref.kind, ref.source)
                          IN  id \in DOMAIN rows /\ (rows[id].holds = ref.source \/ SharedName(ref))
        BY DEF CitedIsRead
      <3>1. EvidenceId(ref.kind, ref.source) \in DOMAIN rows
        BY DEF DeliveryInv, RunningIsWritten
      <3>2. PICK row : row = rows[EvidenceId(ref.kind, ref.source)]
        OBVIOUS
      <3>3. RowIsNamed(EvidenceId(ref.kind, ref.source), row)
        BY <3>1, <3>2 DEF DeliveryInv, RowsAreNamed
      <3>4. row.holds \in DOMAIN Name /\ Name[row.holds] = Name[ref.source]
        BY <3>3 DEF RowIsNamed, EvidenceId
      <3> QED BY <3>1, <3>2, <3>4 DEF SharedName
    <2> QED BY <2>1 DEF DeliveryInv, DeliveryIsExact
  <1> QED BY <1>1, DeliveryInductive, PTL

-----------------------------------------------------------------------------
(***************************************************************************)
(* The budgets of what a Subtask is handed. A sum is a number of tagged    *)
(* units, so that one more part adds its own.                              *)
(***************************************************************************)
LEMMA TaggedAdds ==
  ASSUME NEW parts, NEW more, NEW x, x \notin DOMAIN parts,
         DOMAIN more = DOMAIN parts \cup {x}, \A p \in DOMAIN parts : more[p] = parts[p],
         IsFiniteSet(Tagged(parts)), IsFiniteSet(more[x])
  PROVE  /\ IsFiniteSet(Tagged(more))
         /\ Cardinality(Tagged(more)) = Cardinality(Tagged(parts)) + Cardinality(more[x])
  <1> DEFINE own == {x} \X more[x]
  <1>1. IsFiniteSet({x}) /\ Cardinality({x}) = 1
    BY FS_Singleton
  <1>2. IsFiniteSet(own) /\ Cardinality(own) = 1 * Cardinality(more[x])
    BY <1>1, FS_Product
  <1>3. Cardinality(more[x]) \in Nat /\ Cardinality(Tagged(parts)) \in Nat /\ Cardinality(own) \in Nat
    BY <1>2, FS_CardinalityType
  <1>4. Tagged(more) = Tagged(parts) \cup own
    BY DEF Tagged
  <1>5. Tagged(parts) \cap own = {}
    BY DEF Tagged
  <1>6. /\ IsFiniteSet(Tagged(parts) \cup own)
        /\ Cardinality(Tagged(parts) \cup own) =
             Cardinality(Tagged(parts)) + Cardinality(own) - Cardinality(Tagged(parts) \cap own)
    BY <1>2, FS_Union
  <1>7. Cardinality(Tagged(parts) \cap own) = 0
    BY <1>5, FS_EmptySet
  <1> QED BY <1>2, <1>3, <1>4, <1>6, <1>7

LEMMA UnitsAreFinite ==
  ASSUME NEW items, NEW type, IsFiniteSet(DOMAIN items), \A n \in DOMAIN items : items[n].size \in Nat
  PROVE  IsFiniteSet(UnitsOf(items, type))
  <1> DEFINE here == {m \in DOMAIN items : items[m].type = type}
             bags == {{n} \X (1 .. items[n].size) : n \in here}
             tag == [n \in here |-> {n} \X (1 .. items[n].size)]
  <1>1. IsFiniteSet(here)
    BY FS_Subset
  <1>2. tag \in Surjection(here, bags)
    BY DEF Surjection
  <1>3. IsFiniteSet(bags)
    BY <1>1, <1>2, FS_Surjection
  <1>4. ASSUME NEW n \in here
        PROVE  IsFiniteSet({n} \X (1 .. items[n].size))
    <2>1. items[n].size \in Int /\ 1 \in Int
      OBVIOUS
    <2>2. IsFiniteSet(1 .. items[n].size)
      BY <2>1, FS_Interval
    <2>3. IsFiniteSet({n})
      BY FS_Singleton
    <2> QED BY <2>2, <2>3, FS_Product
  <1>5. IsFiniteSet(UNION bags)
    <2>1. \A T \in bags : IsFiniteSet(T)
      BY <1>4
    <2> HIDE DEF bags
    <2> QED BY <1>3, <2>1, FS_UNION
  <1>6. UnitsOf(items, type) = UNION bags
    BY DEF UnitsOf, Tagged
  <1> QED BY <1>5, <1>6

Limit(type) == IF type = "text" THEN TextPerNode ELSE PathsPerNode

\* What pending completions and recorded handoffs hold can be counted.
Countable ==
  \A type \in {"text", "artifact"} : \A c \in Nodes :
    /\ IsFiniteSet(RecordedUnits(c, type))
    /\ \A p \in Parents(c) \cap DOMAIN pending : IsFiniteSet(UnitsOf(pending[p].handoffs[c], type))

\* Without another one beside it, a pending completion has the room it was checked for.
OneIsPending ==
  \A c \in Nodes \ late : \A p, q \in Parents(c) \cap DOMAIN pending : p = q
RoomIsLeft ==
  \A type \in {"text", "artifact"} : \A c \in Nodes \ late : \A p \in Parents(c) \cap DOMAIN pending :
    Usage(c, type) + SizeOf(pending[p].handoffs[c], type) <= Limit(type)
WithinLimits ==
  \A type \in {"text", "artifact"} : \A c \in Nodes \ late : Usage(c, type) <= Limit(type)

BudgetInv == DeliveryInv /\ Countable /\ OneIsPending /\ RoomIsLeft /\ WithinLimits

LEMMA BudgetStarts == InitDelivery => BudgetInv
  <1> SUFFICES ASSUME InitDelivery PROVE BudgetInv
    OBVIOUS
  <1>1. \A c \in Nodes : \A type : RecordedUnits(c, type) = {}
    BY DEF InitDelivery, RecordedUnits, Recorded, Tagged
  <1>2. DOMAIN pending = {}
    BY DEF InitDelivery
  <1>3. IsFiniteSet({}) /\ Cardinality({}) = 0
    BY FS_EmptySet
  <1>4. \A type : Limit(type) \in Nat
    BY DeliveryAssumption DEF Limit
  <1>5. WithinLimits
    BY <1>1, <1>3, <1>4 DEF WithinLimits, Usage
  <1> QED BY <1>1, <1>2, <1>3, <1>5, DeliveryStarts DEF BudgetInv, Countable, OneIsPending, RoomIsLeft

\* Steps that touch no completion, handoff or target.
LEMMA BudgetStutters ==
  ASSUME BudgetInv, DeliveryInv', UNCHANGED << pending, handoffs, late >>
  PROVE  BudgetInv'
  BY DEF BudgetInv, Countable, OneIsPending, RoomIsLeft, WithinLimits, Usage, RecordedUnits, Recorded,
         Parents, Edges

LEMMA ReportFits ==
  ASSUME BudgetInv, DeliveryInv', NEW s \in Nodes, Report(s)
  PROVE  BudgetInv'
  <1>1. UNCHANGED handoffs /\ stage[s] = "running"
    BY DEF Report
  <1>2. s \notin DOMAIN pending
    BY <1>1 DEF BudgetInv, DeliveryInv, DeliveryTyped
  <1>3. CASE UNCHANGED << pending, late >>
    BY <1>1, <1>3, BudgetStutters
  <1>4. CASE \E r \in Responses :
               /\ AcceptedReport(s, r)
               /\ pending' = [q \in DOMAIN pending \cup {s} |-> IF q = s THEN Completion(s, r) ELSE pending[q]]
               /\ late' = late \cup SideBySide(s)
    <2>1. PICK r \in Responses :
            /\ AcceptedReport(s, r)
            /\ pending' = [q \in DOMAIN pending \cup {s} |-> IF q = s THEN Completion(s, r) ELSE pending[q]]
            /\ late' = late \cup SideBySide(s)
      BY <1>4
    <2>2. /\ DOMAIN pending' = DOMAIN pending \cup {s}
          /\ \A q \in DOMAIN pending : pending'[q] = pending[q]
          /\ pending'[s] = Completion(s, r)
      BY <1>2, <2>1
    <2>3. \A c \in Nodes : \A type : RecordedUnits(c, type)' = RecordedUnits(c, type) /\ Usage(c, type)' = Usage(c, type)
      BY <1>1 DEF RecordedUnits, Recorded, Usage, Parents, Edges
    <2>4. \A c \in Targets(s) :
            /\ pending'[s].handoffs[c] = Handoff(s, c, r)
            /\ \A n \in DOMAIN Handoff(s, c, r) : WithinItem(Handoff(s, c, r)[n])
            /\ WithinTarget(c, Handoff(s, c, r))
      BY <2>1, <2>2 DEF Completion, AcceptedReport, Valid, WithinBudgets
    <2>5. \A c \in Nodes : s \in Parents(c) <=> c \in Targets(s)
      BY DEF Parents, Targets
    <2>6. \A c \in Targets(s) : \A type : IsFiniteSet(UnitsOf(Handoff(s, c, r), type))
      <3> SUFFICES ASSUME NEW c \in Targets(s), NEW type
                   PROVE  IsFiniteSet(UnitsOf(Handoff(s, c, r), type))
        OBVIOUS
      <3>1. DOMAIN Handoff(s, c, r) = DOMAIN Items[<< s, c >>]
        BY DEF Handoff
      <3>2. IsFiniteSet(DOMAIN Handoff(s, c, r))
        BY <3>1, DeliveryAssumption DEF Targets, Edges
      <3>3. \A n \in DOMAIN Handoff(s, c, r) : Handoff(s, c, r)[n].size \in Nat
        BY <2>4 DEF WithinItem
      <3> QED BY <3>2, <3>3, UnitsAreFinite
    <2>7. Countable'
      <3> SUFFICES ASSUME NEW type \in {"text", "artifact"}, NEW c \in Nodes,
                          NEW p \in Parents(c) \cap DOMAIN pending'
                   PROVE  IsFiniteSet(UnitsOf(pending'[p].handoffs[c], type))
        BY <2>3 DEF BudgetInv, Countable, Parents, Edges, UnitsOf, Tagged
      <3>1. CASE p = s
        BY <2>4, <2>5, <2>6, <3>1
      <3>2. CASE p # s
        BY <2>2, <3>2 DEF BudgetInv, Countable
      <3> QED BY <3>1, <3>2
    <2>8. OneIsPending'
      <3> SUFFICES ASSUME NEW c \in Nodes \ late', NEW p \in Parents(c) \cap DOMAIN pending',
                          NEW q \in Parents(c) \cap DOMAIN pending', p # q
                   PROVE  FALSE
        BY DEF OneIsPending, Parents, Edges
      <3>1. c \notin late /\ c \notin SideBySide(s)
        BY <2>1
      <3>2. CASE p = s
        <4>1. q \in DOMAIN pending /\ q \in Parents(c) \ {s}
          BY <2>2, <3>2
        <4> QED BY <2>5, <3>1, <3>2, <4>1 DEF SideBySide
      <3>3. CASE q = s
        <4>1. p \in DOMAIN pending /\ p \in Parents(c) \ {s}
          BY <2>2, <3>3
        <4> QED BY <2>5, <3>1, <3>3, <4>1 DEF SideBySide
      <3>4. CASE p # s /\ q # s
        BY <2>2, <3>1, <3>4 DEF BudgetInv, OneIsPending
      <3> QED BY <3>2, <3>3, <3>4
    <2>9. RoomIsLeft'
      <3> SUFFICES ASSUME NEW type \in {"text", "artifact"}, NEW c \in Nodes \ late',
                          NEW p \in Parents(c) \cap DOMAIN pending'
                   PROVE  Usage(c, type) + SizeOf(pending'[p].handoffs[c], type) <= Limit(type)
        <4>1. \A c \in Nodes : Parents(c)' = Parents(c)
          BY DEF Parents, Edges
        <4>2. \A type, c, p : SizeOf(pending[p].handoffs[c], type)'
                                = SizeOf(pending'[p].handoffs[c], type)
          BY DEF SizeOf, UnitsOf, Tagged
        <4>3. \A type : Limit(type)' = Limit(type)
          BY DEF Limit
        <4> QED BY <2>3, <4>1, <4>2, <4>3 DEF RoomIsLeft
      <3>1. c \in Nodes \ late
        BY <2>1
      <3>2. CASE p = s
        BY <2>4, <2>5, <3>2 DEF WithinTarget, Limit
      <3>3. CASE p # s
        BY <2>2, <3>1, <3>3 DEF BudgetInv, RoomIsLeft
      <3> QED BY <3>2, <3>3
    <2>10. WithinLimits'
      BY <2>1, <2>3 DEF BudgetInv, WithinLimits, Limit
    <2> QED BY <2>7, <2>8, <2>9, <2>10 DEF BudgetInv
  <1> QED BY <1>3, <1>4 DEF Report

LEMMA IntegrateFits ==
  ASSUME BudgetInv, DeliveryInv', NEW s \in Nodes, Integrate(s)
  PROVE  BudgetInv'
  <1>1. /\ UNCHANGED late /\ stage[s] = "awaiting_integration"
        /\ handoffs' = [e \in DOMAIN handoffs \cup {<< s, c >> : c \in Targets(s)} |->
                          IF e[1] = s THEN pending[s].handoffs[e[2]] ELSE handoffs[e]]
        /\ pending' = Restrict(pending, DOMAIN pending \ {s})
    BY DEF Integrate
  <1>2. s \in DOMAIN pending /\ \A c \in Nodes : << s, c >> \notin DOMAIN handoffs
    BY <1>1 DEF BudgetInv, DeliveryInv, DeliveryTyped
  <1>3. DOMAIN pending' = DOMAIN pending \ {s} /\ \A q \in DOMAIN pending' : pending'[q] = pending[q]
    BY <1>1 DEF Restrict
  <1>4. \A c \in Nodes : s \in Parents(c) <=> c \in Targets(s)
    BY DEF Parents, Targets
  <1>5. ASSUME NEW c \in Nodes, c \notin Targets(s)
        PROVE  \A type : RecordedUnits(c, type)' = RecordedUnits(c, type)
    <2>1. Recorded(c)' = Recorded(c) /\ \A p \in Recorded(c) : handoffs'[<< p, c >>] = handoffs[<< p, c >>]
      BY <1>1, <1>2, <1>4, <1>5 DEF Recorded, Parents, Edges
    <2>2. ASSUME NEW type
          PROVE  RecordedUnits(c, type)' = RecordedUnits(c, type)
      <3>1. \A p \in Recorded(c) :
              UnitsOf(handoffs'[<< p, c >>], type) = UnitsOf(handoffs[<< p, c >>], type)
        BY <2>1
      <3> DEFINE parts == [p \in Recorded(c) |-> UnitsOf(handoffs[<< p, c >>], type)]
                 more == [p \in Recorded(c)' |-> UnitsOf(handoffs'[<< p, c >>], type)]
      <3>2. parts = more
        BY <2>1, <3>1
      <3>3. RecordedUnits(c, type) = Tagged(parts) /\ RecordedUnits(c, type)' = Tagged(more)
        BY DEF RecordedUnits, UnitsOf, Tagged
      <3> QED BY <3>2, <3>3
    <2> QED BY <2>2
  <1>6. ASSUME NEW c \in Targets(s), NEW type \in {"text", "artifact"}
        PROVE  /\ IsFiniteSet(RecordedUnits(c, type)')
               /\ Usage(c, type)' = Usage(c, type) + SizeOf(pending[s].handoffs[c], type)
    <2>1. c \in Nodes /\ s \in Parents(c)
      BY <1>4 DEF Targets
    <2>2. /\ Recorded(c)' = Recorded(c) \cup {s} /\ s \notin Recorded(c)
          /\ handoffs'[<< s, c >>] = pending[s].handoffs[c]
          /\ \A p \in Recorded(c) : handoffs'[<< p, c >>] = handoffs[<< p, c >>]
      BY <1>1, <1>2, <2>1 DEF Recorded, Parents, Edges
    <2> DEFINE parts == [p \in Recorded(c) |-> UnitsOf(handoffs[<< p, c >>], type)]
               more == [p \in Recorded(c)' |-> UnitsOf(handoffs'[<< p, c >>], type)]
    <2>3. /\ s \notin DOMAIN parts /\ DOMAIN more = DOMAIN parts \cup {s}
          /\ \A p \in DOMAIN parts : more[p] = parts[p]
          /\ more[s] = UnitsOf(pending[s].handoffs[c], type)
      BY <2>2
    <2>4. RecordedUnits(c, type) = Tagged(parts) /\ RecordedUnits(c, type)' = Tagged(more)
      BY DEF RecordedUnits, UnitsOf, Tagged
    <2>5. IsFiniteSet(Tagged(parts)) /\ IsFiniteSet(more[s])
      BY <1>2, <2>1, <2>3, <2>4 DEF BudgetInv, Countable
    <2> HIDE DEF parts, more
    <2>6. /\ IsFiniteSet(Tagged(more))
          /\ Cardinality(Tagged(more)) = Cardinality(Tagged(parts)) + Cardinality(more[s])
      BY <2>3, <2>5, TaggedAdds
    <2> QED BY <2>3, <2>4, <2>6 DEF Usage, SizeOf
  <1>7. Countable'
    <2> SUFFICES ASSUME NEW type \in {"text", "artifact"}, NEW c \in Nodes
                 PROVE  /\ IsFiniteSet(RecordedUnits(c, type)')
                        /\ \A p \in Parents(c) \cap DOMAIN pending' :
                             IsFiniteSet(UnitsOf(pending'[p].handoffs[c], type))
      BY DEF Countable, Parents, Edges, UnitsOf, Tagged
    <2>1. IsFiniteSet(RecordedUnits(c, type)')
      <3>1. CASE c \in Targets(s)
        BY <1>6, <3>1
      <3>2. CASE c \notin Targets(s)
        BY <1>5, <3>2 DEF BudgetInv, Countable
      <3> QED BY <3>1, <3>2
    <2> QED BY <1>3, <2>1 DEF BudgetInv, Countable
  <1>8. OneIsPending'
    BY <1>1, <1>3 DEF BudgetInv, OneIsPending, Parents, Edges
  <1>9. ASSUME NEW type \in {"text", "artifact"}, NEW c \in Nodes \ late'
        PROVE  /\ Usage(c, type)' <= Limit(type)
               /\ \A p \in Parents(c) \cap DOMAIN pending' :
                    Usage(c, type)' + SizeOf(pending'[p].handoffs[c], type) <= Limit(type)
    <2>1. c \in Nodes \ late
      BY <1>1, <1>9
    <2>2. CASE c \in Targets(s)
      <3>1. \A p \in Parents(c) \cap DOMAIN pending' : FALSE
        BY <1>2, <1>3, <1>4, <2>1, <2>2 DEF BudgetInv, OneIsPending
      <3>2. Usage(c, type) + SizeOf(pending[s].handoffs[c], type) <= Limit(type)
        BY <1>2, <1>4, <2>1, <2>2, <1>9 DEF BudgetInv, RoomIsLeft
      <3>3. Usage(c, type)' = Usage(c, type) + SizeOf(pending[s].handoffs[c], type)
        BY <1>6, <2>2
      <3> QED BY <3>1, <3>2, <3>3
    <2>3. CASE c \notin Targets(s)
      <3>1. Usage(c, type)' = Usage(c, type)
        BY <1>5, <2>3 DEF Usage
      <3> QED BY <1>3, <2>1, <3>1 DEF BudgetInv, RoomIsLeft, WithinLimits
    <2> QED BY <2>2, <2>3
  <1>10. RoomIsLeft' /\ WithinLimits'
    BY <1>9 DEF RoomIsLeft, WithinLimits, Parents, Edges, SizeOf, UnitsOf, Tagged, Limit
  <1> QED BY <1>7, <1>8, <1>10 DEF BudgetInv

LEMMA BudgetStepKeeps == BudgetInv /\ [NextDelivery]_delivery => BudgetInv'
  <1> SUFFICES ASSUME BudgetInv, [NextDelivery]_delivery
               PROVE  BudgetInv'
    OBVIOUS
  <1>1. DeliveryInv'
    BY DeliveryStepKeeps DEF BudgetInv
  <1>2. ASSUME NEW t \in Tasks, PersistWorkGraph(t)
        PROVE  BudgetInv'
    BY <1>1, <1>2, BudgetStutters DEF PersistWorkGraph
  <1>3. ASSUME NEW s \in Nodes, Build(s)
        PROVE  BudgetInv'
    <2>1. UNCHANGED << pending, handoffs, late >>
      BY <1>3 DEF Build
    <2> QED BY <1>1, <2>1, BudgetStutters
  <1>4. ASSUME NEW s \in Nodes, ListEvidence(s) \/ \E id \in DOMAIN rows : GetEvidence(s, id)
        PROVE  BudgetInv'
    <2>1. UNCHANGED << pending, handoffs, late >>
      BY <1>4 DEF ListEvidence, GetEvidence, Tool
    <2> QED BY <1>1, <2>1, BudgetStutters
  <1>5. ASSUME NEW s \in Nodes, Report(s) \/ Integrate(s)
        PROVE  BudgetInv'
    BY <1>1, <1>5, ReportFits, IntegrateFits
  <1>6. ASSUME NEW p \in confirmed, Withdraw(p)
        PROVE  BudgetInv'
    BY <1>1, <1>6, BudgetStutters DEF Withdraw
  <1>7. CASE UNCHANGED delivery
    BY <1>1, <1>7, BudgetStutters DEF delivery
  <1> QED BY <1>2, <1>3, <1>4, <1>5, <1>6, <1>7 DEF NextDelivery

\* A Subtask is handed no more text and files than its budgets allow, unless two
\* of the completions it depends on were validated side by side, before either
\* was integrated (validateBudgets, summarizeHandoffUsage).
THEOREM BudgetsAreKept == SpecDelivery => []BudgetIsKept
  <1>1. BudgetInv => BudgetIsKept
    BY DEF BudgetInv, WithinLimits, BudgetIsKept, Limit
  <1>2. SpecDelivery => []BudgetInv
    BY BudgetStarts, BudgetStepKeeps, PTL DEF SpecDelivery
  <1> QED BY <1>1, <1>2, PTL
=============================================================================
