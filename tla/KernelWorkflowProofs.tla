-------------------------- MODULE KernelWorkflowProofs --------------------------
(***************************************************************************)
(* Proofs about the durable kernel workflow for every set of workflows,    *)
(* events, filters and bounds.  The inductive invariant is IInv: the type  *)
(* invariant, the three ledger invariants, and StretchOwnsTurn, which says *)
(* that a drain inside its synchronous stretch is the one that moves.      *)
(***************************************************************************)
EXTENDS KernelWorkflow, TLAPS

\* A drain between its start and its await holds the turn, so no other workflow,
\* recovery or restart runs between its claim and its issue.
StretchOwnsTurn == \A w \in Workflows : pc[w] \in {"loop", "claimed"} => turn = w

IInv == TypeOK /\ StretchOwnsTurn /\ IssuanceAtomic /\ ClaimHeld /\ ObservationDurable

USE DEF EventStatus, ApplicationStatus, DrainState

\* Inserting events types the inbox, makes no event absent and touches none that
\* is already known.
LEMMA InsertedFacts ==
  ASSUME inbox \in [Events -> EventStatus], availableAt \in [Events -> Nat],
         NEW S, NEW t \in Nat
  PROVE  /\ Inserted(S) \in [Events -> EventStatus]
         /\ InsertedAt(S, t) \in [Events -> Nat]
         /\ \A e \in Events : /\ inbox[e] # "absent" => Inserted(S)[e] = inbox[e]
                              /\ Inserted(S)[e] \in {inbox[e], "pending"}
                              /\ e \in S => Inserted(S)[e] # "absent"
BY DEF Inserted, InsertedAt

\* Starting or joining a drain changes volatile state only, and the claimed and
\* applying drains not at all.
LEMMA StartDrainFacts ==
  ASSUME TypeOK, StretchOwnsTurn, turn = NoOne, NEW w \in Workflows, StartDrain(w)
  PROVE  /\ pc' \in [Workflows -> DrainState]
         /\ cur' = cur
         /\ handled' = handled
         /\ turn' \in Workflows \cup {NoOne, Down}
         /\ StretchOwnsTurn'
         /\ \A v \in Workflows : pc'[v] \in {"claimed", "applying"} => pc'[v] = pc[v]
BY TurnAssumption DEF TypeOK, StretchOwnsTurn, StartDrain, volatile

THEOREM InitIInv == Init => IInv
BY ConstantsAssumption, TurnAssumption
DEF Init, IInv, TypeOK, StretchOwnsTurn, IssuanceAtomic, ClaimHeld, ObservationDurable

\* The store's transactions, the drain's steps, crash and restart preserve IInv.
THEOREM NextIInv == IInv /\ [Next]_vars => IInv'
<1> SUFFICES ASSUME IInv, [Next]_vars PROVE IInv'
  OBVIOUS
<1> USE ConstantsAssumption, NoDecisionAssumption, NoEventAssumption, TurnAssumption
<1> USE DEF IInv, TypeOK, StretchOwnsTurn, IssuanceAtomic, ClaimHeld, ObservationDurable
<1>1. ASSUME NEW w \in Workflows, NEW e \in Events, Submit(w, e) PROVE IInv'
  <2>1. /\ turn = NoOne /\ StartDrain(w) /\ inbox' = Inserted({e})
        /\ availableAt' = InsertedAt({e}, now)
        /\ UNCHANGED <<decision, application, observed, now, crashes>>
    BY <1>1 DEF Submit
  <2>2. /\ inbox' \in [Events -> EventStatus] /\ availableAt' \in [Events -> Nat]
        /\ \A x \in Events : /\ inbox[x] # "absent" => inbox'[x] = inbox[x]
                             /\ inbox'[x] \in {inbox[x], "pending"}
    <3>1. now \in Nat /\ inbox \in [Events -> EventStatus] /\ availableAt \in [Events -> Nat]
      OBVIOUS
    <3> HIDE DEF IInv, TypeOK
    <3> QED BY <2>1, <3>1, InsertedFacts
  <2>3. /\ pc' \in [Workflows -> DrainState] /\ cur' = cur /\ handled' = handled
        /\ turn' \in Workflows \cup {NoOne, Down} /\ StretchOwnsTurn'
        /\ \A v \in Workflows : pc'[v] \in {"claimed", "applying"} => pc'[v] = pc[v]
    BY <2>1, StartDrainFacts
  <2>4. TypeOK'
    BY <2>1, <2>2, <2>3
  <2>5. IssuanceAtomic' /\ ObservationDurable'
    BY <2>1, <2>2, ZenonT(40)
  <2>6. ClaimHeld'
    BY <2>1, <2>2, <2>3
  <2> QED BY <2>3, <2>4, <2>5, <2>6
<1>2. ASSUME NEW w \in Workflows, Recover(w) PROVE IInv'
  <2>1. /\ turn = NoOne /\ StartDrain(w) /\ inbox' = ReconciledEvents(inbox)
        /\ application' = ReconciledApplications
        /\ UNCHANGED <<availableAt, decision, observed, now, crashes>>
    BY <1>2 DEF Recover
  <2>2. /\ pc' \in [Workflows -> DrainState] /\ cur' = cur /\ handled' = handled
        /\ turn' \in Workflows \cup {NoOne, Down} /\ StretchOwnsTurn'
        /\ \A v \in Workflows : pc'[v] \in {"claimed", "applying"} => pc'[v] = pc[v]
    BY <2>1, StartDrainFacts
  <2>3. TypeOK'
    BY <2>1, <2>2 DEF ReconciledEvents, ReconciledApplications
  <2>4. IssuanceAtomic' /\ ObservationDurable'
    BY <2>1 DEF ReconciledEvents, ReconciledApplications
  <2>5. ClaimHeld'
    BY <2>1, <2>2 DEF ReconciledApplications
  <2> QED BY <2>2, <2>3, <2>4, <2>5
<1>3. ASSUME NEW w \in Workflows, StartApply(w) PROVE IInv'
  BY <1>3 DEF StartApply, Recoverable
<1>4. ASSUME NEW w \in Workflows, Claim(w) PROVE IInv'
  BY <1>4 DEF Claim, Claimable
<1>5. ASSUME NEW w \in Workflows, DecideThrows(w) PROVE IInv'
  BY <1>5 DEF DecideThrows, store
<1>6. ASSUME NEW w \in Workflows, Issue(w) PROVE IInv'
  BY <1>6 DEF Issue
<1>7. ASSUME NEW w \in Workflows, DrainEnds(w) PROVE IInv'
  BY <1>7 DEF DrainEnds, store
<1>8. ASSUME NEW w \in Workflows, Settle(w) PROVE IInv'
  BY <1>8 DEF Settle, store
<1>9. ASSUME NEW w \in Workflows, Applied(w) PROVE IInv'
  <2>1. PICK O \in SUBSET Events, t \in Nat :
          inbox' = Inserted(O) /\ availableAt' = InsertedAt(O, t)
          /\ observed' = [observed EXCEPT ![cur[w]] = O]
    <3>1. cur[w] \in Events /\ Follows[cur[w]] \subseteq Events
      BY <1>9 DEF Applied
    <3>2. {{}} \cup {{f} : f \in Follows[cur[w]]} \subseteq SUBSET Events
      BY <3>1
    <3>3. now..MaxTime \subseteq Nat
      OBVIOUS
    <3>4. \E O \in {{}} \cup {{f} : f \in Follows[cur[w]]} : \E t \in now..MaxTime :
            inbox' = Inserted(O) /\ availableAt' = InsertedAt(O, t)
            /\ observed' = [observed EXCEPT ![cur[w]] = O]
      BY <1>9 DEF Applied
    <3> QED BY <3>2, <3>3, <3>4
  <2>2. /\ inbox' \in [Events -> EventStatus] /\ availableAt' \in [Events -> Nat]
        /\ \A x \in Events : /\ inbox[x] # "absent" => inbox'[x] = inbox[x]
                             /\ inbox'[x] \in {inbox[x], "pending"}
                             /\ x \in O => inbox'[x] # "absent"
    BY <2>1, InsertedFacts
  <2>3. /\ turn = NoOne /\ pc[w] = "applying" /\ application[cur[w]] = "applying"
        /\ cur[w] \in Events
        /\ application' = [application EXCEPT ![cur[w]] = "applied"]
        /\ pc' = [pc EXCEPT ![w] = "loop"] /\ turn' = w
        /\ cur' = [cur EXCEPT ![w] = NoEvent]
        /\ UNCHANGED <<decision, handled, now, crashes>>
    BY <1>9 DEF Applied
  <2>4. TypeOK' /\ StretchOwnsTurn'
    BY <2>1, <2>2, <2>3
  <2>5. IssuanceAtomic'
    BY <2>2, <2>3
  <2>6. ClaimHeld'
    BY <2>2, <2>3
  <2>7. ObservationDurable'
    BY <2>1, <2>2, <2>3
  <2> QED BY <2>4, <2>5, <2>6, <2>7
<1>10. ASSUME NEW w \in Workflows, ApplyFails(w) PROVE IInv'
  BY <1>10 DEF ApplyFails
<1>11. ASSUME NEW e \in Events, ResolveRecoveryItem(e) PROVE IInv'
  BY <1>11 DEF ResolveRecoveryItem, volatile
<1>12. CASE Tick
  BY <1>12 DEF Tick, store, volatile
<1>13. CASE Crash
  BY <1>13 DEF Crash, store
<1>14. CASE Restart
  <2>1. PICK S \in SUBSET Events :
          inbox' = ReconciledEvents(Inserted(S)) /\ availableAt' = InsertedAt(S, now)
    BY <1>14 DEF Restart
  <2>2. /\ Inserted(S) \in [Events -> EventStatus] /\ availableAt' \in [Events -> Nat]
        /\ \A x \in Events : /\ inbox[x] # "absent" => Inserted(S)[x] = inbox[x]
                             /\ Inserted(S)[x] \in {inbox[x], "pending"}
    BY <2>1, InsertedFacts
  <2>3. /\ turn = Down /\ turn' = NoOne /\ application' = ReconciledApplications
        /\ UNCHANGED <<decision, observed, pc, cur, handled, now, crashes>>
    BY <1>14 DEF Restart
  <2>4. inbox' \in [Events -> EventStatus]
        /\ \A x \in Events : /\ inbox[x] # "absent" => inbox'[x] # "absent"
                             /\ inbox'[x] = "processed"
                                  <=> inbox[x] = "processed"
    BY <2>1, <2>2 DEF ReconciledEvents
  <2>5. TypeOK' /\ StretchOwnsTurn'
    BY <2>2, <2>3, <2>4 DEF ReconciledApplications
  <2>6. IssuanceAtomic' /\ ObservationDurable'
    BY <2>3, <2>4 DEF ReconciledApplications
  <2>7. ClaimHeld'
    BY <2>3, <2>4 DEF ReconciledApplications
  <2> QED BY <2>5, <2>6, <2>7
<1>15. CASE RestartBlocked
  <2>1. PICK S \in SUBSET Events :
          inbox' = Inserted(S) /\ availableAt' = InsertedAt(S, now)
    BY <1>15 DEF RestartBlocked
  <2>2. /\ inbox' \in [Events -> EventStatus] /\ availableAt' \in [Events -> Nat]
        /\ \A x \in Events : /\ inbox[x] # "absent" => inbox'[x] = inbox[x]
                             /\ inbox'[x] \in {inbox[x], "pending"}
    BY <2>1, InsertedFacts
  <2>3. /\ turn = Down /\ turn' = NoOne
        /\ UNCHANGED <<decision, application, observed, pc, cur, handled, now, crashes>>
    BY <1>15 DEF RestartBlocked
  <2>4. TypeOK' /\ StretchOwnsTurn'
    BY <2>2, <2>3
  <2>5. IssuanceAtomic' /\ ObservationDurable'
    BY <2>2, <2>3
  <2>6. ClaimHeld'
    BY <2>2, <2>3
  <2> QED BY <2>4, <2>5, <2>6
<1>16. CASE UNCHANGED vars
  BY <1>16 DEF vars, store, volatile
<1> QED
  BY <1>1, <1>2, <1>3, <1>4, <1>5, <1>6, <1>7, <1>8, <1>9, <1>10, <1>11, <1>12,
     <1>13, <1>14, <1>15, <1>16 DEF Next, Drain

\* Type correctness.
THEOREM TypeCorrect == Spec => []TypeOK
<1>1. IInv => TypeOK
  BY DEF IInv
<1> QED BY <1>1, InitIInv, NextIInv, PTL DEF Spec

\* A decision, its application and the advance of its event exist together or
\* not at all, at every point a crash can fall.
THEOREM IssuanceIsAtomic == Spec => []IssuanceAtomic
<1>1. IInv => IssuanceAtomic
  BY DEF IInv
<1> QED BY <1>1, InitIInv, NextIInv, PTL DEF Spec

\* A drain issues only for a claimed, undecided event and applies only what has
\* an application.
THEOREM ClaimIsHeld == Spec => []ClaimHeld
<1>1. IInv => ClaimHeld
  BY DEF IInv
<1> QED BY <1>1, InitIInv, NextIInv, PTL DEF Spec

\* The follow-up of a completed application is in the inbox.
THEOREM ObservationIsDurable == Spec => []ObservationDurable
<1>1. IInv => ObservationDurable
  BY DEF IInv
<1> QED BY <1>1, InitIInv, NextIInv, PTL DEF Spec

\* No step replaces a decision or takes an application out of applied.
THEOREM LedgerIsImmutable == Spec => LedgerImmutable
<1> DEFINE Kept == \A e \in Events :
             /\ decision[e] # NoDecision => decision'[e] = decision[e]
             /\ application[e] = "applied" => application'[e] = "applied"
<1>1. IInv /\ [Next]_vars => [Kept]_vars
  <2> SUFFICES ASSUME IInv, Next PROVE Kept
    OBVIOUS
  <2> USE DEF IInv, TypeOK, IssuanceAtomic, ClaimHeld
  <2>1. ASSUME NEW w \in Workflows, NEW e \in Events, Submit(w, e) PROVE Kept
    BY <2>1 DEF Submit
  <2>2. ASSUME NEW w \in Workflows, Recover(w) PROVE Kept
    BY <2>2 DEF Recover, ReconciledApplications
  <2>3. ASSUME NEW w \in Workflows, StartApply(w) PROVE Kept
    BY <2>3, ConstantsAssumption DEF StartApply, Recoverable
  <2>4. ASSUME NEW w \in Workflows, Issue(w) PROVE Kept
    BY <2>4 DEF Issue
  <2>5. ASSUME NEW w \in Workflows, Applied(w) PROVE Kept
    BY <2>5 DEF Applied
  <2>6. ASSUME NEW w \in Workflows, ApplyFails(w) PROVE Kept
    BY <2>6 DEF ApplyFails
  <2>7. ASSUME NEW w \in Workflows,
               Claim(w) \/ DecideThrows(w) \/ DrainEnds(w) \/ Settle(w) PROVE Kept
    BY <2>7 DEF Claim, DecideThrows, DrainEnds, Settle, store
  <2>8. ASSUME NEW e \in Events, ResolveRecoveryItem(e) PROVE Kept
    BY <2>8 DEF ResolveRecoveryItem
  <2>9. CASE Tick \/ Crash
    BY <2>9 DEF Tick, Crash, store
  <2>10. CASE Restart \/ RestartBlocked
    BY <2>10 DEF Restart, RestartBlocked, ReconciledApplications
  <2> QED
    BY <2>1, <2>2, <2>3, <2>4, <2>5, <2>6, <2>7, <2>8, <2>9, <2>10 DEF Next, Drain
<1> QED
  BY <1>1, InitIInv, NextIInv, PTL DEF Spec, LedgerImmutable

\* No application is completed but by the return of a drain that called the
\* handler for it, or by an operator who says so of an uncertain one: no crash,
\* reconciliation or other drain skips the handler.
THEOREM CompletionsHaveRun == Spec => CompletionHasRun
<1> DEFINE HasRun == \A e \in Events :
             (application'[e] = "applied" /\ application[e] # "applied")
               => \/ application[e] = "uncertain"
                  \/ \E w \in Workflows : pc[w] = "applying" /\ cur[w] = e /\ pc'[w] = "loop"
<1>1. IInv /\ [Next]_vars => [HasRun]_vars
  <2> SUFFICES ASSUME IInv, Next PROVE HasRun
    OBVIOUS
  <2> USE DEF IInv, TypeOK
  <2>1. ASSUME NEW w \in Workflows, Applied(w) PROVE HasRun
    BY <2>1 DEF Applied
  <2>2. ASSUME NEW w \in Workflows, StartApply(w) PROVE HasRun
    BY <2>2 DEF StartApply
  <2>3. ASSUME NEW w \in Workflows, Issue(w) PROVE HasRun
    BY <2>3 DEF Issue
  <2>4. ASSUME NEW w \in Workflows, ApplyFails(w) PROVE HasRun
    BY <2>4 DEF ApplyFails
  <2>5. ASSUME NEW e \in Events, ResolveRecoveryItem(e) PROVE HasRun
    BY <2>5 DEF ResolveRecoveryItem
  <2>6. ASSUME NEW w \in Workflows, Recover(w) PROVE HasRun
    BY <2>6 DEF Recover, ReconciledApplications
  <2>7. ASSUME NEW w \in Workflows, NEW e \in Events,
               Submit(w, e) \/ Claim(w) \/ DecideThrows(w) \/ DrainEnds(w) \/ Settle(w)
        PROVE  HasRun
    BY <2>7 DEF Submit, Claim, DecideThrows, DrainEnds, Settle, store
  <2>8. CASE Tick \/ Crash
    BY <2>8 DEF Tick, Crash, store
  <2>9. CASE Restart \/ RestartBlocked
    BY <2>9 DEF Restart, RestartBlocked, ReconciledApplications
  <2> QED
    BY <2>1, <2>2, <2>3, <2>4, <2>5, <2>6, <2>7, <2>8, <2>9 DEF Next, Drain
<1> QED
  BY <1>1, InitIInv, NextIInv, PTL DEF Spec, CompletionHasRun

-----------------------------------------------------------------------------
(* The store implements EventLedger. *)

Stage == [e \in Events |-> StageOf(e)]

\* Inserting events is the abstract ledger's Queue, whatever else of the store
\* changes, as long as decided events stay decided.
LEMMA InsertedQueues ==
  ASSUME TypeOK, IssuanceAtomic, NEW S \in SUBSET Events, inbox' = Inserted(S),
         application' = application
  PROVE  Stage' = Ledger!Queue(S)
BY DEF TypeOK, IssuanceAtomic, Inserted, Stage, StageOf, Ledger!Queue

\* Every step of the workflows is a step of the ledger or leaves it alone.
THEOREM StepImplementsLedger ==
  IInv /\ [Next]_vars => [Ledger!Next]_(Ledger!ledger)
<1> SUFFICES ASSUME IInv, Next PROVE Ledger!Next \/ UNCHANGED Ledger!ledger
  BY DEF vars, store, Ledger!ledger, StageOf
<1> USE ConstantsAssumption
<1> USE DEF IInv, TypeOK, IssuanceAtomic, ClaimHeld, ObservationDurable
<1>1. ASSUME Stage' = Stage, UNCHANGED <<decision, observed>>
      PROVE  UNCHANGED Ledger!ledger
  BY <1>1 DEF Stage, Ledger!ledger
<1>2. ASSUME NEW S \in SUBSET Events, Stage' = Ledger!Queue(S),
             UNCHANGED <<decision, observed>>
      PROVE  Ledger!Next
  BY <1>2 DEF Stage, Ledger!Next, Ledger!Enqueue
<1>3. ASSUME NEW w \in Workflows, NEW e \in Events, Submit(w, e) PROVE Ledger!Next
  <2>1. Stage' = Ledger!Queue({e})
    <3>1. TypeOK /\ IssuanceAtomic /\ {e} \in SUBSET Events
      OBVIOUS
    <3>2. inbox' = Inserted({e}) /\ application' = application
      BY <1>3 DEF Submit
    <3> HIDE DEF IInv, TypeOK, IssuanceAtomic
    <3> QED BY <3>1, <3>2, InsertedQueues
  <2> QED BY <1>2, <1>3, <2>1 DEF Submit
<1>4. ASSUME NEW w \in Workflows, Recover(w) PROVE UNCHANGED Ledger!ledger
  <2>1. Stage' = Stage
    BY <1>4 DEF Recover, ReconciledEvents, ReconciledApplications, Stage, StageOf
  <2> QED BY <1>1, <1>4, <2>1 DEF Recover
<1>5. ASSUME NEW w \in Workflows, StartApply(w) PROVE UNCHANGED Ledger!ledger
  <2>1. Stage' = Stage
    BY <1>5 DEF StartApply, Recoverable, Stage, StageOf
  <2> QED BY <1>1, <1>5, <2>1 DEF StartApply
<1>6. ASSUME NEW w \in Workflows, Claim(w) PROVE UNCHANGED Ledger!ledger
  <2>1. Stage' = Stage
    BY <1>6 DEF Claim, Claimable, Stage, StageOf
  <2> QED BY <1>1, <1>6, <2>1 DEF Claim
<1>7. ASSUME NEW w \in Workflows, DecideThrows(w) \/ DrainEnds(w) \/ Settle(w)
      PROVE  UNCHANGED Ledger!ledger
  BY <1>7 DEF DecideThrows, DrainEnds, Settle, store, Ledger!ledger, StageOf
<1>8. ASSUME NEW w \in Workflows, Issue(w) PROVE Ledger!Next
  <2>1. PICK a \in Actions :
          decision' = [decision EXCEPT ![cur[w]] = IF @ = NoDecision THEN a ELSE @]
    BY <1>8 DEF Issue
  <2>2. Stage[cur[w]] = "queued" /\ cur[w] \in Events
        /\ decision' = [decision EXCEPT ![cur[w]] = a] /\ observed' = observed
    BY <1>8, <2>1 DEF Issue, Stage, StageOf
  <2>3. Stage' = [Stage EXCEPT ![cur[w]] = "decided"]
    BY <1>8, <2>2 DEF Issue, Stage, StageOf
  <2> QED BY <2>2, <2>3 DEF Stage, Ledger!Next, Ledger!Decide
<1>9. ASSUME NEW w \in Workflows, Applied(w) PROVE Ledger!Next
  <2>1. cur[w] \in Events /\ application[cur[w]] = "applying"
        /\ application' = [application EXCEPT ![cur[w]] = "applied"]
        /\ decision' = decision
    BY <1>9 DEF Applied
  <2>2. PICK O \in SUBSET Events :
          inbox' = Inserted(O) /\ observed' = [observed EXCEPT ![cur[w]] = O]
    <3>1. {{}} \cup {{f} : f \in Follows[cur[w]]} \subseteq SUBSET Events
      BY <2>1
    <3>2. \E O \in {{}} \cup {{f} : f \in Follows[cur[w]]} :
            inbox' = Inserted(O) /\ observed' = [observed EXCEPT ![cur[w]] = O]
      BY <1>9 DEF Applied
    <3> QED BY <3>1, <3>2
  <2>3. Stage[cur[w]] = "decided"
    BY <2>1 DEF Stage, StageOf
  <2>4. Stage' = [Ledger!Queue(O) EXCEPT ![cur[w]] = "applied"]
    BY <2>1, <2>2 DEF Inserted, Stage, StageOf, Ledger!Queue
  <2> QED BY <2>1, <2>2, <2>3, <2>4 DEF Stage, Ledger!Next, Ledger!Complete
<1>10. ASSUME NEW w \in Workflows, ApplyFails(w) PROVE UNCHANGED Ledger!ledger
  <2>1. Stage' = Stage
    BY <1>10 DEF ApplyFails, Stage, StageOf
  <2> QED BY <1>1, <1>10, <2>1 DEF ApplyFails
<1>11. ASSUME NEW e \in Events, ResolveRecoveryItem(e)
       PROVE  Ledger!Next \/ UNCHANGED Ledger!ledger
  <2>1. application[e] = "uncertain" /\ UNCHANGED <<inbox, decision, observed>>
    BY <1>11 DEF ResolveRecoveryItem
  <2>2. CASE application' = [application EXCEPT ![e] = "pending"]
    <3>1. Stage' = Stage
      BY <2>1, <2>2 DEF Stage, StageOf
    <3> QED BY <1>1, <2>1, <3>1
  <2>3. CASE application' = [application EXCEPT ![e] = "applied"]
    <3>1. Stage[e] = "decided" /\ observed' = [observed EXCEPT ![e] = {}]
      BY <2>1 DEF Stage, StageOf
    <3>2. Stage' = [Ledger!Queue({}) EXCEPT ![e] = "applied"]
      BY <2>1, <2>3 DEF Stage, StageOf, Ledger!Queue
    <3>3. Ledger!Complete(e)
      <4>1. {} \in SUBSET Events
        OBVIOUS
      <4> QED BY <2>1, <3>1, <3>2, <4>1 DEF Stage, Ledger!Complete
    <3> QED BY <3>3 DEF Ledger!Next
  <2> QED BY <1>11, <2>2, <2>3 DEF ResolveRecoveryItem
<1>12. CASE Tick \/ Crash
  BY <1>12 DEF Tick, Crash, store, Ledger!ledger, StageOf
<1>13. CASE Restart
  <2>1. PICK S \in SUBSET Events : inbox' = ReconciledEvents(Inserted(S))
    BY <1>13 DEF Restart
  <2>2. Stage' = Ledger!Queue(S)
    BY <1>13, <2>1 DEF Restart, ReconciledEvents, ReconciledApplications, Inserted,
       Stage, StageOf, Ledger!Queue
  <2> QED BY <1>2, <1>13, <2>2 DEF Restart
<1>14. CASE RestartBlocked
  <2>1. PICK S \in SUBSET Events : inbox' = Inserted(S)
    BY <1>14 DEF RestartBlocked
  <2>2. Stage' = Ledger!Queue(S)
    <3>1. TypeOK /\ IssuanceAtomic /\ application' = application
      BY <1>14 DEF RestartBlocked
    <3> HIDE DEF IInv, TypeOK, IssuanceAtomic
    <3> QED BY <2>1, <3>1, InsertedQueues
  <2> QED BY <1>2, <1>14, <2>2 DEF RestartBlocked
<1> QED
  BY <1>3, <1>4, <1>5, <1>6, <1>7, <1>8, <1>9, <1>10, <1>11, <1>12, <1>13, <1>14
  DEF Next, Drain

\* The durable workflow store is an exactly-once event ledger.
THEOREM WorkflowImplementsLedger == Spec => ImplementsLedger
<1>1. Init => Ledger!Init
  BY DEF Init, Ledger!Init, StageOf, Ledger!NoDecision, NoDecision
<1> QED
  BY <1>1, InitIInv, NextIInv, StepImplementsLedger, PTL
  DEF Spec, ImplementsLedger, Ledger!Spec
=============================================================================
