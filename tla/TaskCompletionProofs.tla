-------------------------- MODULE TaskCompletionProofs -------------------------
(***************************************************************************)
(* Proofs about TaskCompletion, for every number of Subtasks, decisions,   *)
(* executions, sessions, commands of the user and crashes.                 *)
(*                                                                         *)
(* Neither invariant is inductive.  That a notification is sent once needs *)
(* to know what its row says of the calls made (Counted), and that a       *)
(* decision records once needs the row to say that it committed; the       *)
(* guard AppliedBefore then stops a second application only because a Task *)
(* with a notification is done, which is half of CompletionIsWhole.  That  *)
(* half needs in turn that a decision to complete the whole Task was       *)
(* issued when every Subtask was done (Justified).                         *)
(***************************************************************************)
EXTENDS TaskCompletion, TLAPS

Typed == /\ TypeOK
         /\ notified \in [Decisions -> Nat] /\ records \in [Decisions -> Nat]

\* What the row of a notification says of the calls made for it.
Counted ==
  \A d \in Decisions : /\ notified[d] = IF effect[d] \in {"none", "pending"} THEN 0 ELSE 1
                       /\ records[d] = IF effect[d] = "none" THEN 0 ELSE 1

\* A decision that waits knows what it completes; the whole Task is completed
\* by decisions made when all its Subtasks were done.
Justified ==
  \A d \in Decisions : /\ application[d] # "none" => kind[d] # "none"
                       /\ kind[d] = "full" => AllDone

Inv == Typed /\ Counted /\ Justified /\ CompletionIsWhole

-------------------------------------------------------------------------------
\* Steps that leave what has been completed as it is.  Only Subtasks and the
\* status of an unfinished Task change.
Undisturbed ==
  /\ UNCHANGED << revision, effect, records, notified >>
  /\ task = "done" <=> task' = "done"
  /\ task = "done" => UNCHANGED << work, cleaning >>
  /\ AllDone => AllDone'
  /\ \A d \in Decisions : /\ application'[d] # "none" => kind'[d] # "none"
                          /\ kind'[d] = "full" => kind[d] = "full" \/ AllDone

LEMMA UndisturbedKeeps ==
  ASSUME Inv, Undisturbed, Typed'
  PROVE  Inv'
  <1>1. Counted'
    BY DEF Inv, Counted, Undisturbed
  <1>2. Justified'
    BY DEF Inv, Justified, Undisturbed
  <1>3. CompletionIsWhole'
    <2>1. CASE task = "done"
      BY <2>1 DEF Inv, CompletionIsWhole, Undisturbed, AllDone, Closed
    <2>2. CASE task # "done"
      <3>1. revision = "active" /\ revision' = "active" /\ task' # "done"
        BY <2>2 DEF Inv, CompletionIsWhole, Undisturbed
      <3>2. \A d \in Decisions : effect'[d] = "none"
        BY <2>2 DEF Inv, CompletionIsWhole, Undisturbed
      <3> QED BY <3>1, <3>2 DEF CompletionIsWhole
    <2> QED BY <2>1, <2>2
  <1> QED BY <1>1, <1>2, <1>3 DEF Inv

-------------------------------------------------------------------------------
LEMMA InitHolds ==
  ASSUME Init
  PROVE  Inv
  <1>1. Typed
    BY DEF Init, Typed, TypeOK, TaskStatus
  <1>2. Counted
    BY DEF Init, Counted
  <1>3. Justified
    BY DEF Init, Justified
  <1>4. CompletionIsWhole
    BY DEF Init, CompletionIsWhole
  <1> QED BY <1>1, <1>2, <1>3, <1>4 DEF Inv

-------------------------------------------------------------------------------
\* Types.

Values == {"none", "pending", "sending", "sent", "uncertain"}

LEMMA DeliverTyped ==
  ASSUME Typed, NEW d \in Decisions, NEW x \in Sessions \cup {Applier}, Deliver(d, x)
  PROVE  /\ effect' \in [Decisions -> Values] /\ notified' \in [Decisions -> Nat]
         /\ flights' \subseteq Decisions \X (Sessions \cup {Applier})
  BY DEF Typed, TypeOK, Deliver, Deliverable, Values

LEMMA ExecutionTyped ==
  ASSUME Typed, NEW e \in Executions, Runs(e) \/ Resume(e)
  PROVE  Typed'
  <1> USE DEF durable, memory
  <1>1. CASE Begin(e)
    BY <1>1 DEF Begin, Typed, TypeOK
  <1>2. CASE End(e)
    BY <1>2 DEF End, SettledTask, Typed, TypeOK, TaskStatus
  <1>3. CASE Resume(e)
    BY <1>3 DEF Resume, User, Unblocked, Typed, TypeOK, TaskStatus
  <1>4. CASE Dispatch(e)
    <2>1. task' \in TaskStatus
      BY <1>4 DEF Dispatch, Blocked, Typed, TypeOK, TaskStatus
    <2>2. CASE UNCHANGED << application, kind, turn >>
      BY <1>4, <2>1, <2>2 DEF Dispatch, Typed, TypeOK
    <2>3. CASE \E d \in Unused : Issue(d, "full")
      BY <1>4, <2>1, <2>3 DEF Dispatch, Unused, Issue, Typed, TypeOK
    <2> QED BY <1>4, <2>2, <2>3 DEF Dispatch
  <1> QED BY <1>1, <1>2, <1>3, <1>4 DEF Runs

LEMMA SubtaskTyped ==
  ASSUME Typed, NEW s \in Subtasks, Integrate(s) \/ CleanUp(s)
  PROVE  Typed'
  <1> USE DEF durable, memory
  <1>1. CASE Integrate(s)
    BY <1>1 DEF Integrate, Typed, TypeOK
  <1>2. CASE CleanUp(s)
    BY <1>2 DEF CleanUp, Typed, TypeOK, TaskStatus
  <1> QED BY <1>1, <1>2

LEMMA UserTyped ==
  ASSUME Typed, Pause \/ Block \/ CancelTask \/ \E S \in SUBSET Subtasks : CancelSubtasks(S)
  PROVE  Typed'
  <1> USE DEF durable, memory
  <1>1. CASE Pause \/ Block
    BY <1>1 DEF Pause, Block, Interrupt, User, Typed, TypeOK, TaskStatus
  <1>2. CASE CancelTask
    BY <1>2 DEF CancelTask, Cancel, Open, User, Typed, TypeOK, TaskStatus
  <1>3. CASE \E S \in SUBSET Subtasks : CancelSubtasks(S)
    BY <1>3 DEF CancelSubtasks, Cancel, Open, User, Typed, TypeOK
  <1> QED BY <1>1, <1>2, <1>3

LEMMA DecisionTyped ==
  ASSUME Typed, Justified, NEW d \in Decisions,
         \/ Completes(d) \/ AcceptPartial(d) \/ Resolve(d)
         \/ \E f \in Sessions \cup {Applier} : Delivered(d, f)
  PROVE  Typed'
  <1> USE DEF durable, memory
  <1>1. CASE Apply(d)
    <2>1. /\ application[d] = "pending" /\ kind[d] \in {"full", "partial"}
          /\ application' \in [Decisions -> {"none", "pending", "applying", "applied", "uncertain"}]
          /\ task' \in TaskStatus /\ turn' \in Decisions \cup {NoDecision}
      BY <1>1 DEF Apply, Settled, Blocked, Transaction, Typed, TypeOK, TaskStatus, Justified
    <2>2. /\ revision' \in {"active", "full", "partial"}
          /\ records' \in [Decisions -> Nat]
          /\ effect' \in [Decisions -> Values]
      <3>1. CASE Transaction(d)
        BY <2>1, <3>1 DEF Transaction, Typed, TypeOK, Values
      <3>2. CASE UNCHANGED << revision, records, effect >>
        BY <3>2 DEF Typed, TypeOK, Values
      <3> QED BY <1>1, <3>1, <3>2 DEF Apply, Settled
    <2> QED BY <1>1, <2>1, <2>2 DEF Apply, Typed, TypeOK, Values
  <1>2. CASE Notify(d)
    <2>1. Deliver(d, Applier)
      BY <1>2 DEF Notify
    <2> QED BY <1>2, <2>1, DeliverTyped DEF Notify, Typed, TypeOK, Values
  <1>3. CASE Reapply(d)
    BY <1>3 DEF Reapply, Typed, TypeOK
  <1>4. CASE AcceptPartial(d)
    BY <1>4 DEF AcceptPartial, User, Issue, Typed, TypeOK
  <1>5. CASE Resolve(d)
    BY <1>5 DEF Resolve, ResolvedEffect, Typed, TypeOK
  <1>6. CASE \E f \in Sessions \cup {Applier} : Delivered(d, f)
    BY <1>6 DEF Delivered, Typed, TypeOK
  <1> QED BY <1>1, <1>2, <1>3, <1>4, <1>5, <1>6 DEF Completes

LEMMA SessionTyped ==
  ASSUME Typed,
         \/ Crash
         \/ \E s \in Sessions : \/ Start(s) \/ StartBlocked(s) \/ StartupLists(s)
                                \/ StartupThrows(s) \/ Started(s)
                                \/ \E d \in Decisions : StartupDelivers(s, d)
  PROVE  Typed'
  <1> USE DEF durable, memory
  <1>1. CASE Crash
    BY <1>1 DEF Crash, Typed, TypeOK
  <1>2. ASSUME NEW s \in Sessions, Start(s) PROVE Typed'
    BY <1>2 DEF Start, Reconciled, Typed, TypeOK, TaskStatus
  <1>3. ASSUME NEW s \in Sessions, Started(s) PROVE Typed'
    BY <1>3 DEF Started, Typed, TypeOK
  <1>4. ASSUME NEW s \in Sessions, NEW d \in Decisions, StartupDelivers(s, d) PROVE Typed'
    <2>1. Deliver(d, s)
      BY <1>4 DEF StartupDelivers
    <2> QED BY <1>4, <2>1, DeliverTyped DEF StartupDelivers, Typed, TypeOK, Values
  <1>5. ASSUME NEW s \in Sessions, StartBlocked(s) PROVE Typed'
    BY <1>5 DEF StartBlocked, Blocked, Typed, TypeOK, TaskStatus
  <1>6. ASSUME NEW s \in Sessions, StartupLists(s) \/ StartupThrows(s) PROVE Typed'
    BY <1>6 DEF StartupLists, StartupThrows, Typed, TypeOK
  <1> QED BY <1>1, <1>2, <1>3, <1>4, <1>5, <1>6

LEMMA TypedInductive ==
  ASSUME Typed, Justified, [Next]_vars
  PROVE  Typed'
  <1>1. CASE UNCHANGED vars
    BY <1>1 DEF vars, durable, memory, Typed, TypeOK
  <1> QED BY <1>1, ExecutionTyped, SubtaskTyped, UserTyped, DecisionTyped, SessionTyped DEF Next
-------------------------------------------------------------------------------
\* The steps.

LEMMA Unclaimed ==
  ASSUME Inv
  PROVE  /\ task = "done" => (revision # "active" /\ cleaning = {} /\ Closed)
         /\ task # "done" => (revision = "active" /\ \A d \in Decisions : effect[d] = "none")
  BY DEF Inv, CompletionIsWhole, Typed, TypeOK, AllDone, Closed

LEMMA IssueJustified ==
  ASSUME Typed, Justified, NEW d \in Decisions, NEW k \in {"full", "partial"}, Issue(d, k),
         k = "full" => AllDone
  PROVE  \A c \in Decisions : /\ application'[c] # "none" => kind'[c] # "none"
                              /\ kind'[c] = "full" => kind[c] = "full" \/ AllDone
  BY DEF Issue, Typed, TypeOK, Justified

LEMMA ExecutionStep ==
  ASSUME Inv, NEW e \in Executions, Runs(e) \/ Resume(e)
  PROVE  Undisturbed
  <1> USE DEF durable, memory
  <1>1. /\ UNCHANGED << revision, effect, records, notified, work, cleaning >>
        /\ AllDone => AllDone'
    BY DEF Runs, Begin, End, Dispatch, Resume, AllDone
  <1>2. task = "done" <=> task' = "done"
    BY Unclaimed DEF Runs, Begin, End, Dispatch, Resume, Blocked, SettledTask, Unblocked
  <1>3. \A d \in Decisions : /\ application'[d] # "none" => kind'[d] # "none"
                             /\ kind'[d] = "full" => kind[d] = "full" \/ AllDone
    <2>1. CASE UNCHANGED << application, kind >>
      BY <2>1 DEF Inv, Justified
    <2>2. CASE AllDone /\ \E d \in Unused : Issue(d, "full")
      BY <2>2, IssueJustified DEF Inv, Unused
    <2> QED BY <2>1, <2>2 DEF Runs, Begin, End, Dispatch, Resume
  <1>4. task = "done" => UNCHANGED << work, cleaning >>
    BY <1>1
  <1> QED BY <1>1, <1>2, <1>3, <1>4 DEF Undisturbed

LEMMA SubtaskStep ==
  ASSUME Inv, NEW s \in Subtasks, Integrate(s) \/ CleanUp(s)
  PROVE  Undisturbed
  <1> USE DEF durable, memory
  <1>1. UNCHANGED << revision, effect, records, notified, application, kind >>
    BY DEF Integrate, CleanUp
  <1>2. /\ task = "done" <=> task' = "done"
        /\ task = "done" => UNCHANGED << work, cleaning >>
    BY Unclaimed DEF Integrate, CleanUp, Closed
  <1>3. AllDone => AllDone'
    BY DEF Integrate, CleanUp, AllDone, Inv, Typed, TypeOK
  <1> QED BY <1>1, <1>2, <1>3 DEF Undisturbed, Inv, Justified

LEMMA UserStep ==
  ASSUME Inv, Pause \/ Block \/ CancelTask \/ \E S \in SUBSET Subtasks : CancelSubtasks(S)
  PROVE  Undisturbed
  <1> USE DEF durable, memory
  <1>1. UNCHANGED << revision, effect, records, notified, application, kind >>
    BY DEF Pause, Block, Interrupt, CancelTask, CancelSubtasks, Cancel
  <1>2. task # "done" /\ task' # "done"
    BY DEF Pause, Block, Interrupt, CancelTask, CancelSubtasks, Cancel, Cancellable
  <1>3. AllDone => AllDone'
    <2>1. CASE Pause \/ Block
      BY <2>1 DEF Pause, Block, Interrupt, AllDone
    <2>2. ASSUME NEW S \in SUBSET Open, Cancel(S), AllDone
          PROVE  AllDone'
      BY <2>2 DEF Cancel, Open, AllDone
    <2> QED BY <2>1, <2>2 DEF CancelTask, CancelSubtasks
  <1> QED BY <1>1, <1>2, <1>3 DEF Undisturbed, Inv, Justified

LEMMA SteadyStep ==
  ASSUME Inv,
         \/ Crash
         \/ \E s \in Sessions : \/ StartBlocked(s) \/ StartupLists(s)
                                \/ StartupThrows(s) \/ Started(s)
         \/ \E d \in Decisions : Reapply(d) \/ AcceptPartial(d)
  PROVE  Undisturbed
  <1> USE DEF durable, memory
  <1>1. /\ UNCHANGED << work, cleaning, revision, effect, records, notified >>
        /\ task = "done" <=> task' = "done"
    BY DEF Crash, StartBlocked, Blocked, StartupLists, StartupThrows, Started, Reapply, AcceptPartial
  <1>2. \A d \in Decisions : /\ application'[d] # "none" => kind'[d] # "none"
                             /\ kind'[d] = "full" => kind[d] = "full" \/ AllDone
    <2>1. CASE UNCHANGED << application, kind >>
      BY <2>1 DEF Inv, Justified
    <2>2. CASE \E d \in Unused : Issue(d, "partial")
      BY <2>2, IssueJustified DEF Inv, Unused
    <2> QED BY <2>1, <2>2 DEF Crash, StartBlocked, StartupLists, StartupThrows, Started, Reapply,
                              AcceptPartial
  <1>3. /\ task = "done" => UNCHANGED << work, cleaning >>
        /\ AllDone => AllDone'
    BY <1>1 DEF AllDone
  <1> QED BY <1>1, <1>2, <1>3 DEF Undisturbed

-------------------------------------------------------------------------------
\* Steps of the outbox: rows move on, no row begins and none returns to pending.
Moves ==
  /\ UNCHANGED << work, cleaning, revision, kind, records >>
  /\ task' = task
  /\ \A d \in Decisions :
        /\ effect[d] = "none" <=> effect'[d] = "none"
        /\ effect'[d] = "pending" => effect[d] = "pending"
        /\ notified'[d] = IF effect[d] = "pending" /\ effect'[d] # "pending"
                          THEN notified[d] + 1 ELSE notified[d]
        /\ application'[d] # "none" => application[d] # "none"

LEMMA MovesKeep ==
  ASSUME Inv, Moves, Typed'
  PROVE  Inv'
  <1>1. Counted'
    BY DEF Inv, Counted, Moves
  <1>2. Justified'
    BY DEF Inv, Justified, Moves, AllDone
  <1>3. CompletionIsWhole'
    BY DEF Inv, CompletionIsWhole, Moves, AllDone, Closed
  <1> QED BY <1>1, <1>2, <1>3 DEF Inv

LEMMA DeliverMoves ==
  ASSUME Inv, NEW d \in Decisions, NEW x, Deliver(d, x)
  PROVE  \A c \in Decisions :
           /\ effect[c] = "none" <=> effect'[c] = "none"
           /\ effect'[c] = "pending" => effect[c] = "pending"
           /\ notified'[c] = IF effect[c] = "pending" /\ effect'[c] # "pending"
                             THEN notified[c] + 1 ELSE notified[c]
  BY DEF Inv, Typed, TypeOK, Deliver, Deliverable

LEMMA OutboxStep ==
  ASSUME Inv,
         \/ \E d \in Decisions : \/ Notify(d) \/ Resolve(d)
                                 \/ \E f \in Sessions \cup {Applier} : Delivered(d, f)
         \/ \E s \in Sessions : Start(s) \/ \E d \in Decisions : StartupDelivers(s, d)
  PROVE  Moves
  <1> USE DEF durable, memory
  <1>1. ASSUME NEW d \in Decisions, Notify(d) PROVE Moves
    <2>1. Deliver(d, Applier)
      BY <1>1 DEF Notify
    <2> QED BY <1>1, <2>1, DeliverMoves DEF Notify, Moves, Inv, Typed, TypeOK
  <1>2. ASSUME NEW d \in Decisions, Resolve(d) PROVE Moves
    BY <1>2 DEF Resolve, ResolvedEffect, Moves, Inv, Typed, TypeOK
  <1>3. ASSUME NEW d \in Decisions, NEW f \in Sessions \cup {Applier}, Delivered(d, f) PROVE Moves
    BY <1>3 DEF Delivered, Moves, Inv, Typed, TypeOK
  <1>4. ASSUME NEW s \in Sessions, Start(s) PROVE Moves
    <2>1. task' = task
      BY <1>4, Unclaimed DEF Start, Completable
    <2> QED BY <1>4, <2>1 DEF Start, Reconciled, Moves, Inv, Typed, TypeOK
  <1>5. ASSUME NEW s \in Sessions, NEW d \in Decisions, StartupDelivers(s, d) PROVE Moves
    <2>1. Deliver(d, s)
      BY <1>5 DEF StartupDelivers
    <2> QED BY <1>5, <2>1, DeliverMoves DEF StartupDelivers, Moves
  <1> QED BY <1>1, <1>2, <1>3, <1>4, <1>5

-------------------------------------------------------------------------------
\* A decision that commits has not committed before: a whole one finds the Task
\* done then, an acceptance finds its revision closed.
LEMMA CommitsOnce ==
  ASSUME Inv, NEW d \in Decisions, ~AppliedBefore(d), application[d] # "none",
         IF kind[d] = "full" THEN ~Residue(d) ELSE MayAccept(d)
  PROVE  /\ effect[d] = "none" /\ cleaning = {}
         /\ kind[d] = "full" => AllDone
         /\ kind[d] = "partial" => Closed /\ revision = "active"
         /\ kind[d] \in {"full", "partial"}
  <1>1. kind[d] \in {"full", "partial"}
    BY DEF Inv, Justified, Typed, TypeOK
  <1>2. cleaning = {}
    BY DEF MayAccept, Residue
  <1>3. effect[d] = "none"
    BY <1>1, Unclaimed DEF AppliedBefore, MayAccept
  <1> QED BY <1>1, <1>2, <1>3 DEF Inv, Justified, MayAccept, Partial

LEMMA ApplyStep ==
  ASSUME Inv, Typed', NEW d \in Decisions, Apply(d)
  PROVE  Inv'
  <1>1. /\ application[d] = "pending" /\ UNCHANGED << work, cleaning, kind, notified >>
        /\ \A c \in Decisions : application'[c] # "none" => application[c] # "none"
    BY DEF Apply, Settled, Inv, Typed, TypeOK
  <1>2. CASE UNCHANGED << revision, records, effect >> /\ (task = "done" <=> task' = "done")
    <2>1. Undisturbed
      BY <1>1, <1>2 DEF Undisturbed, Inv, Justified, AllDone
    <2> QED BY <2>1, UndisturbedKeeps
  <1>3. CASE /\ ~AppliedBefore(d) /\ Transaction(d)
             /\ IF kind[d] = "full" THEN ~Residue(d) ELSE MayAccept(d)
    <2>1. /\ effect[d] = "none" /\ cleaning = {}
          /\ kind[d] = "full" => AllDone
          /\ kind[d] = "partial" => Closed /\ revision = "active"
          /\ kind[d] \in {"full", "partial"}
      BY <1>1, <1>3, CommitsOnce
    <2>2. /\ effect'[d] = "pending" /\ records'[d] = records[d] + 1
          /\ \A c \in Decisions \ {d} : effect'[c] = effect[c] /\ records'[c] = records[c]
      BY <1>3, <2>1 DEF Transaction, Inv, Typed, TypeOK
    <2>3. Counted'
      BY <1>1, <2>1, <2>2 DEF Inv, Counted, Typed
    <2>4. Justified'
      BY <1>1 DEF Inv, Justified, AllDone
    <2>5. CompletionIsWhole'
      <3>1. task' = "done" /\ cleaning' = {} /\ effect'[d] # "none"
        BY <1>1, <1>3, <2>1, <2>2 DEF Transaction
      <3>2. /\ revision' # "active"
            /\ revision' = "full" => AllDone
            /\ revision' = "partial" => Closed
        BY <1>3, <2>1 DEF Transaction, Inv, CompletionIsWhole
      <3> QED BY <1>1, <3>1, <3>2 DEF CompletionIsWhole, AllDone, Closed
    <2> QED BY <2>3, <2>4, <2>5 DEF Inv
  <1> QED BY <1>2, <1>3 DEF Apply, Settled, Blocked

LEMMA Inductive ==
  ASSUME Inv, [Next]_vars
  PROVE  Inv'
  <1>1. Typed'
    BY TypedInductive DEF Inv
  <1>2. CASE UNCHANGED vars
    BY <1>1, <1>2, UndisturbedKeeps DEF vars, durable, Undisturbed, Inv, Justified, AllDone
  <1>3. CASE Undisturbed
    BY <1>1, <1>3, UndisturbedKeeps
  <1>4. CASE Moves
    BY <1>1, <1>4, MovesKeep
  <1>5. CASE \E d \in Decisions : Apply(d)
    BY <1>1, <1>5, ApplyStep
  <1> QED BY <1>2, <1>3, <1>4, <1>5, ExecutionStep, SubtaskStep, UserStep, SteadyStep, OutboxStep
          DEF Next, Completes

LEMMA Invariance == Spec => []Inv
  <1>1. Init => Inv
    BY InitHolds
  <1>2. Inv /\ [Next]_vars => Inv'
    BY Inductive
  <1> QED BY <1>1, <1>2, PTL DEF Spec

\* Every column of the Task's completion and every field of the process that
\* completes it has the values the code gives it.
THEOREM CompletionTypeCorrect == Spec => []TypeOK
  <1>1. Inv => TypeOK
    BY DEF Inv, Typed
  <1> QED BY <1>1, Invariance, PTL

\* adr/0023: whichever sessions start while a notification is being delivered,
\* wherever the process stops and whatever the user resolves, the notifier is
\* called once for it and its decision records one result
\* (storage/kernel-effect-outbox-repo.ts).
THEOREM NotificationsAreSentOnce == Spec => []AtMostOnce
  <1>1. Inv => AtMostOnce
    BY DEF Inv, Counted, AtMostOnce
  <1> QED BY <1>1, Invariance, PTL

\* A Task is done exactly when its revision is complete and its notification
\* queued, and then it has no open Subtask and no attempt that is still being
\* cleaned up (completeTask in execution/kernel-execution-runtime.ts).
THEOREM CompletionsAreWhole == Spec => []CompletionIsWhole
  <1>1. Inv => CompletionIsWhole
    BY DEF Inv
  <1> QED BY <1>1, Invariance, PTL
===============================================================================
