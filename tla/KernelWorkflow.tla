---------------------------- MODULE KernelWorkflow ----------------------------
(***************************************************************************)
(* The durable kernel workflow: src/src/kernel/kernel-workflow.ts over the *)
(* SQLite store src/src/storage/kernel-workflow-repo.ts.                   *)
(*                                                                         *)
(* Every caller builds its own DurableKernelWorkflow with its own filters, *)
(* so several of them (Workflows) drain the one store.  JavaScript runs    *)
(* one turn at a time: between the start of a drain and the await of       *)
(* runtime.apply no other workflow moves, which is what `turn` says.  A    *)
(* crash may still fall between any two SQL transactions of a turn.        *)
(***************************************************************************)
EXTENDS Integers, FiniteSets

CONSTANTS
  Workflows,      \* live DurableKernelWorkflow instances
  Events,         \* ids of kernel events
  Actions,        \* kinds of KernelDecisionAction
  Inputs,         \* events submitted from outside (the others are observations)
  StartupEvents,  \* events startup reconciliation enqueues without a drain
  Accepted,       \* Accepted[w]: events that pass w's event and task filters
  AcceptedAct,    \* AcceptedAct[w]: actions that pass w's action filter
  Scope,          \* Scope[w]: events whose decision passes w's task filter
  Decides,        \* Decides[e]: actions the kernel may issue for e
  Follows,        \* Follows[e]: observations applying e's decision may return
  Throwing,       \* events whose snapshot or decision may throw
  Failing,        \* events whose apply may throw
  Recovering,     \* workflows on which recover() is called
  MaxDecisions,   \* MAX_DECISIONS_PER_DRAIN
  MaxTime,        \* bound on the clock
  MaxCrashes      \* bound on process crashes

ASSUME ConstantsAssumption ==
  /\ Inputs \subseteq Events /\ StartupEvents \subseteq Events
  /\ Accepted \in [Workflows -> SUBSET Events]
  /\ AcceptedAct \in [Workflows -> SUBSET Actions]
  /\ Scope \in [Workflows -> SUBSET Events]
  /\ Decides \in [Events -> SUBSET Actions]
  /\ Follows \in [Events -> SUBSET Events]
  /\ Throwing \subseteq Events /\ Failing \subseteq Events
  /\ Recovering \subseteq Workflows
  /\ MaxDecisions \in Nat \ {0} /\ MaxTime \in Nat /\ MaxCrashes \in Nat

NoDecision == "none"
ASSUME NoDecisionAssumption == NoDecision \notin Actions

NoEvent == "no event"
ASSUME NoEventAssumption == NoEvent \notin Events

NoOne == "no one"
Down == "down"
ASSUME TurnAssumption == NoOne # Down /\ {NoOne, Down} \cap Workflows = {}

VARIABLES
  inbox,        \* kernel_events.status, or absent
  availableAt,  \* kernel_events.available_at
  decision,     \* kernel_decisions.action of the event's decision
  application,  \* kernel_decision_applications.status, or none
  observed,     \* the observation stored on the application, as a set
  pc,           \* where the drain of each workflow stands
  cur,          \* the event (and its decision) the drain is working on, if any
  handled,      \* decisions handled by the running drain, 0 outside one
  turn,         \* the workflow whose synchronous stretch is running
  now,          \* the wall clock
  crashes       \* crashes so far

store    == <<inbox, availableAt, decision, application, observed>>
volatile == <<pc, cur, handled, turn>>
vars     == <<store, volatile, now, crashes>>

EventStatus == {"absent", "pending", "processing", "processed"}
ApplicationStatus == {"none", "pending", "applying", "applied", "uncertain"}
DrainState == {"idle", "loop", "claimed", "applying", "settling"}

Live == turn # Down
-----------------------------------------------------------------------------
(* The store's transactions. *)

\* Faulty: INSERT OR REPLACE, which queues a known event again.
InsertedOrReplaced(S) == [e \in Events |-> IF e \in S THEN "pending" ELSE inbox[e]]

\* insertEvent: INSERT OR IGNORE, so a second insert of an id changes nothing.
Inserted(S) == [e \in Events |->
                  IF e \in S /\ inbox[e] = "absent" THEN "pending" ELSE inbox[e]]

InsertedAt(S, t) == [e \in Events |->
                       IF e \in S /\ inbox[e] = "absent" THEN t ELSE availableAt[e]]

\* Faulty: the status filter also lets decided events through.
ClaimableAnyStatus(w) ==
  {e \in Accepted[w] : inbox[e] \in {"pending", "processed"} /\ availableAt[e] <= now}

\* claimNext: the due pending events w accepts, the earliest available first.
Claimable(w) ==
  LET due == {e \in Accepted[w] : inbox[e] = "pending" /\ availableAt[e] <= now}
  IN {e \in due : \A f \in due : availableAt[e] <= availableAt[f]}

\* listRecoverableApplications.
Recoverable(w) == {e \in Scope[w] : /\ application[e] = "pending"
                                    /\ decision[e] \in AcceptedAct[w]}

\* Faulty: reconciliation forgets the events no decision was issued for.
ReconciledDecidedEvents(box) == [e \in Events |->
  IF box[e] = "processing" /\ decision[e] # NoDecision THEN "processed" ELSE box[e]]

\* reconcileProcessing: every interrupted event and application of the store,
\* whichever workflow it belongs to.
ReconciledEvents(box) == [e \in Events |->
  IF box[e] # "processing" THEN box[e]
  ELSE IF decision[e] # NoDecision THEN "processed" ELSE "pending"]

\* Faulty: an interrupted application is assumed to have succeeded.
AssumedApplications == [e \in Events |->
  IF application[e] = "applying" THEN "applied" ELSE application[e]]

ReconciledApplications == [e \in Events |->
  IF application[e] = "applying" THEN "pending" ELSE application[e]]
-----------------------------------------------------------------------------
(* One drain.  Every action below but Applied, ApplyFails and Settle runs   *)
(* inside the synchronous stretch of the workflow that owns the turn.       *)

\* drainSerially: start a drain, or join the one in flight.
StartDrain(w) ==
  IF pc[w] = "idle"
  THEN /\ pc' = [pc EXCEPT ![w] = "loop"]
       /\ turn' = w
       /\ UNCHANGED <<cur, handled>>
  ELSE UNCHANGED volatile

Submit(w, e) == /\ turn = NoOne
                /\ e \in Inputs \cap Accepted[w]
                /\ inbox' = Inserted({e})
                /\ availableAt' = InsertedAt({e}, now)
                /\ StartDrain(w)
                /\ UNCHANGED <<decision, application, observed, now, crashes>>

Recover(w) == /\ turn = NoOne
              /\ w \in Recovering
              /\ inbox' = ReconciledEvents(inbox)
              /\ application' = ReconciledApplications
              /\ StartDrain(w)
              /\ UNCHANGED <<availableAt, decision, observed, now, crashes>>

\* The head of the loop: a recoverable application first; markApplying, then
\* runtime.apply is called and awaited, which ends the turn.
StartApply(w) == \E e \in Recoverable(w) :
  /\ turn = w /\ pc[w] = "loop" /\ handled[w] < MaxDecisions
  /\ application' = [application EXCEPT ![e] = "applying"]
  /\ pc' = [pc EXCEPT ![w] = "applying"]
  /\ cur' = [cur EXCEPT ![w] = e]
  /\ handled' = [handled EXCEPT ![w] = @ + 1]
  /\ turn' = NoOne
  /\ UNCHANGED <<inbox, availableAt, decision, observed, now, crashes>>

Claim(w) == \E e \in Claimable(w) :
  /\ turn = w /\ pc[w] = "loop" /\ handled[w] < MaxDecisions
  /\ Recoverable(w) = {}
  /\ inbox' = [inbox EXCEPT ![e] = "processing"]
  /\ pc' = [pc EXCEPT ![w] = "claimed"]
  /\ cur' = [cur EXCEPT ![w] = e]
  /\ UNCHANGED <<availableAt, decision, application, observed, handled, turn, now, crashes>>

\* buildSnapshot or decide throws: the drain rejects, the event stays claimed.
DecideThrows(w) ==
  /\ turn = w /\ pc[w] = "claimed" /\ cur[w] \in Throwing
  /\ pc' = [pc EXCEPT ![w] = "settling"]
  /\ turn' = NoOne
  /\ UNCHANGED <<store, cur, handled, now, crashes>>

\* Faulty: the application is left to a later transaction.
IssueWithoutApplication(w) ==
  /\ turn = w /\ pc[w] = "claimed"
  /\ \E a \in Decides[cur[w]] : decision' = [decision EXCEPT ![cur[w]] = a]
  /\ inbox' = [inbox EXCEPT ![cur[w]] = "processed"]
  /\ pc' = [pc EXCEPT ![w] = "loop"]
  /\ cur' = [cur EXCEPT ![w] = NoEvent]
  /\ UNCHANGED <<availableAt, application, observed, handled, turn, now, crashes>>

\* issue: decision (INSERT OR IGNORE), application (INSERT OR IGNORE) and
\* source event in one transaction.
Issue(w) ==
  /\ turn = w /\ pc[w] = "claimed"
  /\ \E a \in Decides[cur[w]] :
       decision' = [decision EXCEPT ![cur[w]] = IF @ = NoDecision THEN a ELSE @]
  /\ application' = [application EXCEPT ![cur[w]] = IF @ = "none" THEN "pending" ELSE @]
  /\ inbox' = [inbox EXCEPT ![cur[w]] = "processed"]
  /\ pc' = [pc EXCEPT ![w] = "loop"]
  /\ cur' = [cur EXCEPT ![w] = NoEvent]
  /\ UNCHANGED <<availableAt, observed, handled, turn, now, crashes>>

\* Nothing left to do, or MAX_DECISIONS_PER_DRAIN reached: drain() returns or
\* throws, and `draining` is cleared only in the microtask of finally().
DrainEnds(w) ==
  /\ turn = w /\ pc[w] = "loop"
  /\ \/ handled[w] >= MaxDecisions
     \/ Recoverable(w) = {} /\ Claimable(w) = {}
  /\ pc' = [pc EXCEPT ![w] = "settling"]
  /\ turn' = NoOne
  /\ UNCHANGED <<store, cur, handled, now, crashes>>

Settle(w) == /\ turn = NoOne
             /\ pc[w] = "settling"
             /\ pc' = [pc EXCEPT ![w] = "idle"]
             /\ cur' = [cur EXCEPT ![w] = NoEvent]
             /\ handled' = [handled EXCEPT ![w] = 0]
             /\ UNCHANGED <<store, turn, now, crashes>>

\* Faulty: the observation is stored on the application but not in the inbox.
AppliedWithoutInsert(w) ==
  /\ turn = NoOne /\ pc[w] = "applying" /\ application[cur[w]] = "applying"
  /\ \E O \in {{}} \cup {{f} : f \in Follows[cur[w]]} :
       observed' = [observed EXCEPT ![cur[w]] = O]
  /\ application' = [application EXCEPT ![cur[w]] = "applied"]
  /\ pc' = [pc EXCEPT ![w] = "loop"]
  /\ turn' = w
  /\ cur' = [cur EXCEPT ![w] = NoEvent]
  /\ UNCHANGED <<inbox, availableAt, decision, handled, now, crashes>>

\* runtime.apply returned an observation (or null) while the application is
\* still marked applying: markApplied stores both in one transaction.
Applied(w) ==
  /\ turn = NoOne /\ pc[w] = "applying" /\ application[cur[w]] = "applying"
  /\ \E O \in {{}} \cup {{f} : f \in Follows[cur[w]]} : \E t \in now..MaxTime :
       /\ inbox' = Inserted(O)
       /\ availableAt' = InsertedAt(O, t)
       /\ observed' = [observed EXCEPT ![cur[w]] = O]
  /\ application' = [application EXCEPT ![cur[w]] = "applied"]
  /\ pc' = [pc EXCEPT ![w] = "loop"]
  /\ turn' = w
  /\ cur' = [cur EXCEPT ![w] = NoEvent]
  /\ UNCHANGED <<decision, handled, now, crashes>>

\* Faulty: markApplicationFailed without its status = 'applying' condition.
ApplyFailsAnyStatus(w) ==
  /\ turn = NoOne /\ pc[w] = "applying"
  /\ cur[w] \in Failing \/ application[cur[w]] # "applying"
  /\ application' = [application EXCEPT ![cur[w]] = "uncertain"]
  /\ pc' = [pc EXCEPT ![w] = "settling"]
  /\ UNCHANGED <<inbox, availableAt, decision, observed, cur, handled, turn, now, crashes>>

\* runtime.apply threw, or markApplied found the application no longer applying
\* (its transaction rolls back).  markApplicationFailed touches an applying
\* application only; the drain breaks off.
ApplyFails(w) ==
  /\ turn = NoOne /\ pc[w] = "applying"
  /\ cur[w] \in Failing \/ application[cur[w]] # "applying"
  /\ application' = [application EXCEPT ![cur[w]] =
                       IF @ = "applying" THEN "uncertain" ELSE @]
  /\ pc' = [pc EXCEPT ![w] = "settling"]
  /\ UNCHANGED <<inbox, availableAt, decision, observed, cur, handled, turn, now, crashes>>
-----------------------------------------------------------------------------
(* The rest of the process. *)

\* Faulty: the operator's resolution is written as the new status.
ResolveRecoveryVerbatim(e) == \E resolution \in {"assume_applied", "retry"} :
  /\ turn = NoOne
  /\ application[e] = "uncertain"
  /\ application' = [application EXCEPT ![e] = resolution]
  /\ UNCHANGED <<inbox, availableAt, decision, observed, volatile, now, crashes>>

\* resolveRecoveryItem, called by the manual recovery runtime.
ResolveRecoveryItem(e) == \E status \in {"applied", "pending"} :
  /\ turn = NoOne
  /\ application[e] = "uncertain"
  /\ application' = [application EXCEPT ![e] = status]
  /\ UNCHANGED <<inbox, availableAt, decision, observed, volatile, now, crashes>>

Tick == /\ turn = NoOne
        /\ now < MaxTime
        /\ now' = now + 1
        /\ UNCHANGED <<store, volatile, crashes>>

Crash == /\ Live
         /\ crashes < MaxCrashes
         /\ crashes' = crashes + 1
         /\ pc' = [w \in Workflows |-> "idle"]
         /\ cur' = [w \in Workflows |-> NoEvent]
         /\ handled' = [w \in Workflows |-> 0]
         /\ turn' = Down
         /\ UNCHANGED <<store, now>>

\* Startup reconciles the store before any input, and may enqueue sandbox and
\* orphan events that no submit drains.
Restart == \E S \in SUBSET StartupEvents :
  /\ turn = Down
  /\ inbox' = ReconciledEvents(Inserted(S))
  /\ availableAt' = InsertedAt(S, now)
  /\ application' = ReconciledApplications
  /\ turn' = NoOne
  /\ UNCHANGED <<decision, observed, pc, cur, handled, now, crashes>>

\* A startup that cannot reconcile sandboxes or Git stops before the store, and
\* the session takes input on what it finds there.
RestartBlocked == \E S \in SUBSET StartupEvents :
  /\ turn = Down
  /\ inbox' = Inserted(S)
  /\ availableAt' = InsertedAt(S, now)
  /\ turn' = NoOne
  /\ UNCHANGED <<decision, application, observed, pc, cur, handled, now, crashes>>

Init == /\ inbox = [e \in Events |-> "absent"]
        /\ availableAt = [e \in Events |-> 0]
        /\ decision = [e \in Events |-> NoDecision]
        /\ application = [e \in Events |-> "none"]
        /\ observed = [e \in Events |-> {}]
        /\ pc = [w \in Workflows |-> "idle"]
        /\ cur = [w \in Workflows |-> NoEvent]
        /\ handled = [w \in Workflows |-> 0]
        /\ turn = NoOne
        /\ now = 0
        /\ crashes = 0

Drain(w) == \/ StartApply(w) \/ Claim(w) \/ DecideThrows(w) \/ Issue(w)
            \/ DrainEnds(w) \/ Settle(w) \/ Applied(w) \/ ApplyFails(w)

Next == \/ \E w \in Workflows : \/ \E e \in Events : Submit(w, e)
                                \/ Recover(w) \/ Drain(w)
        \/ \E e \in Events : ResolveRecoveryItem(e)
        \/ Tick \/ Crash \/ Restart \/ RestartBlocked

Spec == Init /\ [][Next]_vars
-----------------------------------------------------------------------------
(* Properties. *)

\* Every variable keeps the values its column or field can hold.
TypeOK == /\ inbox \in [Events -> EventStatus]
          /\ availableAt \in [Events -> Nat]
          /\ decision \in [Events -> Actions \cup {NoDecision}]
          /\ application \in [Events -> ApplicationStatus]
          /\ observed \in [Events -> SUBSET Events]
          /\ pc \in [Workflows -> DrainState]
          /\ cur \in [Workflows -> Events \cup {NoEvent}]
          /\ handled \in [Workflows -> Nat]
          /\ turn \in Workflows \cup {NoOne, Down}
          /\ now \in Nat /\ crashes \in Nat

\* Issuance is atomic at every point a crash can fall: a decision, its
\* application and the advance of its event to processed exist together or not
\* at all (issue, reconcileProcessing).
IssuanceAtomic == \A e \in Events :
  /\ decision[e] # NoDecision <=> application[e] # "none"
  /\ decision[e] # NoDecision <=> inbox[e] = "processed"

\* No drain works on what the store does not hold: a claimed event is processing
\* and undecided, an event being applied has an application (claimNext, issue).
ClaimHeld == \A w \in Workflows :
  /\ pc[w] = "claimed" => /\ cur[w] \in Events /\ inbox[cur[w]] = "processing"
                          /\ decision[cur[w]] = NoDecision
                          /\ turn = w
  /\ pc[w] = "applying" => cur[w] \in Events /\ application[cur[w]] # "none"

\* The observation of a completed application is in the inbox: no crash between
\* the handler's effect and its bookkeeping loses the follow-up (markApplied).
ObservationDurable == \A e \in Events : \A f \in observed[e] :
  application[e] = "applied" /\ inbox[f] # "absent"

\* A decision, once issued, is never replaced, and an applied application never
\* leaves that status, whichever workflows race over it.
LedgerImmutable ==
  [][\A e \in Events : /\ decision[e] # NoDecision => decision'[e] = decision[e]
                       /\ application[e] = "applied" => application'[e] = "applied"]_vars

\* Only an operator's assume_applied skips the handler: any other step that
\* completes an application is the return of a drain that called apply for it.
CompletionHasRun ==
  [][\A e \in Events : (application'[e] = "applied" /\ application[e] # "applied")
       => \/ application[e] = "uncertain"
          \/ \E w \in Workflows : pc[w] = "applying" /\ cur[w] = e /\ pc'[w] = "loop"]_vars

\* The ledger the store keeps implements the abstract one.
StageOf(e) == IF inbox[e] = "absent" THEN "absent"
              ELSE IF inbox[e] \in {"pending", "processing"} THEN "queued"
              ELSE IF application[e] = "applied" THEN "applied" ELSE "decided"

Ledger == INSTANCE EventLedger WITH stage <- [e \in Events |-> StageOf(e)]

ImplementsLedger == Ledger!Spec
=============================================================================
