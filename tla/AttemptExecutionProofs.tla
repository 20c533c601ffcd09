------------------------ MODULE AttemptExecutionProofs ------------------------
(***************************************************************************)
(* Proofs about AttemptExecution, for every number of Subtasks, attempts,  *)
(* slots, pauses, cancellations and crashes, and every set of occurrences. *)
(***************************************************************************)
EXTENDS AttemptExecution, FiniteSetTheorems, WellFoundedInduction, TLAPS

\* The attempt has been started once: a restart never makes it pending again.
Started(a) == item[a] \notin {"absent", "pending_launch", "launching"}

Shapes ==
  /\ item \in [Attempts -> ItemStatus]
  /\ receipt \in [Attempts -> TerminalState]
  /\ pc \in [Attempts -> Stations]
  /\ claimed \subseteq Attempts /\ cleanup \subseteq Attempts
  /\ kicking \in BOOLEAN

\* A kick runs alone: no other turn comes between the claim of a pending item
\* and its first check.
KickIsOneTurn ==
  \A a \in Attempts : pc[a] = "launching" => kicking /\ item[a] = "launching"

OwnersHaveStarted ==
  \A a \in Attempts : (pc[a] \notin {"none", "launching"} \/ a \in claimed) => Started(a)

PromisesDieWithTheProcess ==
  phase # "live" => ~kicking /\ \A a \in Attempts : pc[a] = "none"

CleanupIsCancelling == \A a \in cleanup : item[a] \in {"cancelling", "cancelled"}

\* The strengthening of OutcomeIsAtomic that is inductive.
IInv ==
  /\ Shapes
  /\ OutcomeIsAtomic
  /\ KickIsOneTurn
  /\ OwnersHaveStarted
  /\ PromisesDieWithTheProcess
  /\ CleanupIsCancelling
-----------------------------------------------------------------------------
(* What an action may do to one dispatch item. *)

\* Ended items stay ended, started ones stay started, and a cancellation that
\* was requested is never forgotten.
Moves(a) ==
  /\ item'[a] \in ItemStatus
  /\ item[a] \in Ended => item'[a] \in Ended
  /\ Started(a) => Started(a)'
  /\ item[a] \in {"cancelling", "cancelled"} => item'[a] \in {"cancelling", "cancelled"}

\* What every step does: the invariant is kept, and what has started has started.
Kept == IInv' /\ \A a \in Attempts : Started(a) => Started(a)'

LEMMA StatusSteps ==
  ASSUME NEW status \in ItemStatus
  PROVE  /\ Terminal(status) \in ItemStatus
         /\ status \notin {"absent", "pending_launch"} => Terminal(status) \in Ended
         /\ status \in {"cancelling", "cancelled"} => Terminal(status) = "cancelled"
         /\ Uncertain(status) \in ItemStatus
         /\ status \notin {"pending_launch", "launching", "running"} => Uncertain(status) = status
         /\ status \in {"pending_launch", "launching", "running"} => Uncertain(status) = "uncertain"
         /\ Relaunchable(status) \in ItemStatus
         /\ status # "launching" => Relaunchable(status) = status
  BY DEF ItemStatus, Terminal, Uncertain, Relaunchable, Ended

\* A batch only makes absent items pending.
LEMMA InsertedSteps ==
  ASSUME Shapes, NEW S, NEW k, \A s \in S : MayGrow(s), Inserted(S, k)
  PROVE  /\ item' \in [Attempts -> ItemStatus]
         /\ \A a \in Attempts : Moves(a)
         /\ kicking' \in BOOLEAN
  <1> DEFINE batch == {NextOf(s) : s \in {t \in S : \A u \in S : CanInsert(u)}}
  <1>1. \A a \in batch : item[a] = "absent"
    BY DEF MayGrow, NextOf, IsNext
  <1>2. /\ item' = [a \in Attempts |-> IF a \in batch THEN "pending_launch" ELSE item[a]]
        /\ kicking' = (batch # {})
    BY DEF Inserted
  <1> HIDE DEF batch
  <1> QED BY <1>1, <1>2 DEF Shapes, Moves, ItemStatus, Ended, Started

-----------------------------------------------------------------------------
(* The terminal commit. *)

Outcomes == {"outcome", "contract"}

\* What an action may do to receipts: a new one comes with its ended item and
\* its event.
Receives ==
  /\ receipt' \in [Attempts -> TerminalState]
  /\ known \subseteq known'
  /\ \A a \in Attempts : receipt'[a] # receipt[a] =>
        item'[a] \in Ended /\ \E id \in Outcomes : <<id, a>> \in known'

\* An action that leaves receipts alone and forgets no event.
LEMMA NothingReceived ==
  ASSUME Shapes, receipt' = receipt, known \subseteq known'
  PROVE  Receives
  BY DEF Shapes, Receives

LEMMA LandedSteps ==
  ASSUME Shapes, NEW a \in Attempts, item[a] \notin {"absent", "pending_launch"},
         NEW state \in TerminalState, NEW next, NEW id \in Outcomes, NEW says, NEW more,
         Landed(a, state, next, id, says, more)
  PROVE  /\ item' \in [Attempts -> ItemStatus]
         /\ \A b \in Attempts : Moves(b)
         /\ Receives
         /\ item'[a] \in Ended
  <1>1. item' = [item EXCEPT ![a] = Terminal(item[a])]
    BY DEF Landed
  <1>2. receipt' = [receipt EXCEPT ![a] = IF PauseWon(a) THEN "task_paused" ELSE state]
    BY DEF Landed
  <1>3. known \subseteq known' /\ <<id, a>> \in known'
    BY DEF Landed
  <1>4. Terminal(item[a]) \in Ended \cap ItemStatus
        /\ (item[a] \in {"cancelling", "cancelled"} => Terminal(item[a]) = "cancelled")
    BY StatusSteps DEF Shapes
  <1>5. item' \in [Attempts -> ItemStatus] /\ item'[a] = Terminal(item[a])
        /\ \A b \in Attempts \ {a} : item'[b] = item[b]
    BY <1>1, <1>4 DEF Shapes
  <1>6. \A b \in Attempts : Moves(b)
    <2> TAKE b \in Attempts
    <2>1. CASE b = a
      BY <2>1, <1>4, <1>5 DEF Moves, Started, Ended
    <2>2. CASE b # a
      BY <2>2, <1>5 DEF Moves, Started, Shapes
    <2> QED BY <2>1, <2>2
  <1>7. Receives
    BY <1>2, <1>3, <1>4, <1>5 DEF Receives, Shapes, TerminalState, Outcomes
  <1> QED BY <1>4, <1>5, <1>6, <1>7
-----------------------------------------------------------------------------
(* Turns of the event loop while the process lives. *)

\* Every action that waits for the event loop to be free keeps the invariant
\* if it treats items, receipts, promises and claims as these say.
LEMMA FreeTurn ==
  ASSUME IInv, Free, phase' = phase,
         item' \in [Attempts -> ItemStatus], \A a \in Attempts : Moves(a),
         Receives,
         pc' \in [Attempts -> Stations],
         \A a \in Attempts : pc'[a] # pc[a] =>
            pc[a] \notin {"none", "launching"} /\ pc'[a] # "launching",
         claimed' \subseteq Attempts,
         \A a \in claimed' : a \in claimed \/ pc[a] \notin {"none", "launching"},
         cleanup' \subseteq cleanup,
         kicking' \in BOOLEAN
  PROVE  Kept
  <1>1. phase = "live" /\ ~kicking /\ \A a \in Attempts : pc[a] # "launching"
    BY DEF Free, IInv, KickIsOneTurn
  <1>2. Shapes'
    BY DEF IInv, Shapes, Receives
  <1>3. OutcomeIsAtomic'
    BY DEF IInv, OutcomeIsAtomic, Receives, Moves, Outcomes
  <1>4. KickIsOneTurn'
    BY <1>1 DEF KickIsOneTurn
  <1>5. OwnersHaveStarted'
    <2>1. \A a \in Attempts : (pc'[a] \notin {"none", "launching"} \/ a \in claimed') => Started(a)
      BY DEF IInv, OwnersHaveStarted
    <2> QED BY <2>1 DEF OwnersHaveStarted, Moves
  <1>6. PromisesDieWithTheProcess'
    BY <1>1 DEF PromisesDieWithTheProcess
  <1>7. CleanupIsCancelling'
    BY DEF IInv, Shapes, CleanupIsCancelling, Moves
  <1> QED BY <1>2, <1>3, <1>4, <1>5, <1>6, <1>7 DEF IInv, Kept, Moves

\* No item moves at all.
LEMMA ItemsStand ==
  ASSUME Shapes, item' = item
  PROVE  item' \in [Attempts -> ItemStatus] /\ \A a \in Attempts : Moves(a)
  BY DEF Shapes, Moves, Started

\* An attempt lands from run() and closes.
LEMMA RunLandsTurn ==
  ASSUME IInv, Free, NEW a \in Attempts, pc[a] \notin {"none", "launching"},
         NEW state \in TerminalState, NEW next, NEW id \in Outcomes, NEW says,
         RunLands(a, state, next, id, says),
         phase' = phase, kicking' = kicking, cleanup' = cleanup
  PROVE  Kept
  <1>1. item[a] \notin {"absent", "pending_launch"}
    BY DEF IInv, OwnersHaveStarted, Started
  <1>2. /\ item' \in [Attempts -> ItemStatus]
        /\ \A b \in Attempts : Moves(b)
        /\ Receives
    <2>1. CASE LandThrows(a)
      BY <2>1, ItemsStand, NothingReceived DEF RunLands, IInv
    <2>2. CASE ~LandThrows(a)
      <3>1. Landed(a, state, next, id, says, <<>>)
        BY <2>2 DEF RunLands
      <3> QED BY <1>1, <3>1, LandedSteps DEF IInv
    <2> QED BY <2>1, <2>2
  <1>3. /\ pc' \in [Attempts -> Stations]
        /\ \A b \in Attempts : pc'[b] # pc[b] =>
              pc[b] \notin {"none", "launching"} /\ pc'[b] # "launching"
    BY DEF RunLands, IInv, Shapes, Stations
  <1>4. claimed' \subseteq claimed
    BY DEF RunLands
  <1> QED BY <1>2, <1>3, <1>4, FreeTurn DEF IInv, Shapes

\* A turn that leaves receipts and promises alone.
LEMMA QuietTurn ==
  ASSUME IInv, Free, phase' = phase,
         item' \in [Attempts -> ItemStatus], \A a \in Attempts : Moves(a),
         receipt' = receipt, known \subseteq known', pc' = pc,
         claimed' \subseteq claimed, cleanup' \subseteq cleanup, kicking' \in BOOLEAN
  PROVE  Kept
  <1>1. Receives
    BY NothingReceived DEF IInv
  <1> QED BY <1>1, FreeTurn DEF IInv, Shapes

\* One attempt moves on from one await to the next.
LEMMA AttemptTurn ==
  ASSUME IInv, Free, phase' = phase, NEW a \in Attempts,
         NEW p \in Stations \ {"launching"}, pc[a] \notin {"none", "launching"},
         pc' = [pc EXCEPT ![a] = p],
         item' \in [Attempts -> ItemStatus], \A b \in Attempts : Moves(b),
         receipt' = receipt, known \subseteq known',
         claimed' \subseteq claimed \cup {a}, cleanup' \subseteq cleanup, kicking' \in BOOLEAN
  PROVE  Kept
  <1>1. Receives
    BY NothingReceived DEF IInv
  <1>2. /\ pc' \in [Attempts -> Stations]
        /\ \A b \in Attempts : pc'[b] # pc[b] =>
              pc[b] \notin {"none", "launching"} /\ pc'[b] # "launching"
    BY DEF IInv, Shapes
  <1> QED BY <1>1, <1>2, FreeTurn DEF IInv, Shapes

LEMMA AttemptActions ==
  ASSUME IInv, NEW a \in Attempts, ~KickLaunch(a), ~StartRun(a), ~Submit(a), Runs(a)
  PROVE  Kept
  <1>0. item \in [Attempts -> ItemStatus] /\ kicking \in BOOLEAN /\ Shapes
    BY DEF IInv, Shapes
  <1> USE DEF events, resources, promises, cleaning, work, bounds
  <1>1. CASE ClaimFails(a)
    <2>1. pc' = [pc EXCEPT ![a] = "closing"] /\ item' = item
      BY <1>1 DEF ClaimFails
    <2> QED BY <1>0, <1>1, <2>1, ItemsStand, AttemptTurn DEF ClaimFails, Stations
  <1>2. CASE LeaseConflicts(a)
    <2>1. pc' = [pc EXCEPT ![a] = "closing"] /\ item' = item
      BY <1>2 DEF LeaseConflicts
    <2> QED BY <1>0, <1>2, <2>1, ItemsStand, AttemptTurn DEF LeaseConflicts, Stations
  <1>3. CASE ClaimUnit(a)
    <2>1. pc' = [pc EXCEPT ![a] = "preparing"] /\ item' = item
      BY <1>3 DEF ClaimUnit
    <2> QED BY <1>0, <1>3, <2>1, ItemsStand, AttemptTurn DEF ClaimUnit, Stations
  <1>4. CASE Execute(a)
    <2>1. item[a] # "launching"
      BY <1>4 DEF Execute, IInv, OwnersHaveStarted, Started
    <2>2. item' = item
      BY <1>0, <1>4, <2>1 DEF Execute
    <2> QED BY <1>0, <1>4, <2>2, ItemsStand, AttemptTurn DEF Execute, Stations
  <1>5. CASE SandboxExits(a)
    <2>1. pc' = [pc EXCEPT ![a] = "collecting"] /\ item' = item
      BY <1>5 DEF SandboxExits
    <2> QED BY <1>0, <1>5, <2>1, ItemsStand, AttemptTurn DEF SandboxExits, Stations
  <1>6. CASE PreparationFails(a)
    BY <1>6, RunLandsTurn DEF PreparationFails, TerminalState, Outcomes
  <1>7. CASE AbandonSandbox(a)
    BY <1>7, RunLandsTurn DEF AbandonSandbox, TerminalState, Outcomes
  <1>8. CASE ExecutorFails(a)
    <2>1. PICK says \in Occurs \cap {"retryable", "domain", "stale"} :
             RunLands(a, "failed", "awaiting_decision", "outcome", says)
      BY <1>8 DEF ExecutorFails
    <2> QED BY <1>8, <2>1, RunLandsTurn DEF ExecutorFails, TerminalState, Outcomes
  <1>9. CASE BreaksContract(a)
    BY <1>9, RunLandsTurn DEF BreaksContract, TerminalState, Outcomes
  <1>10. CASE ExecutorSucceeds(a)
    <2>1. CASE RunLands(a, "failed", "awaiting_decision", "outcome", "stale")
      BY <1>10, <2>1, RunLandsTurn DEF ExecutorSucceeds, TerminalState, Outcomes
    <2>2. CASE ~RunLands(a, "failed", "awaiting_decision", "outcome", "stale")
      <3>1. /\ pc' = [pc EXCEPT ![a] = "promoting"]
            /\ UNCHANGED <<receipt, subtask, candidates, item, inbox, known, result, claimed>>
        BY <1>10, <2>2 DEF ExecutorSucceeds
      <3> QED BY <1>0, <1>10, <3>1, ItemsStand, AttemptTurn DEF ExecutorSucceeds, Stations
    <2> QED BY <2>1, <2>2
  <1>11. CASE LandSuccess(a)
    BY <1>11, RunLandsTurn DEF LandSuccess, TerminalState, Outcomes
  <1>12. CASE Close(a)
    <2>1. item[a] \notin {"absent", "pending_launch", "launching"} /\ item[a] \in ItemStatus
      BY <1>0, <1>12 DEF Close, IInv, OwnersHaveStarted, Started
    <2>2. PICK status \in {Uncertain(item[a]), Terminal(item[a])} :
             item' = [item EXCEPT ![a] = status]
      BY <1>0, <1>12 DEF Close
    <2>3. item' \in [Attempts -> ItemStatus] /\ \A b \in Attempts : Moves(b)
      BY <1>0, <2>1, <2>2, StatusSteps DEF Moves, Started, Ended, ItemStatus
    <2>4. pc' = [pc EXCEPT ![a] = "marked"] /\ claimed' \subseteq claimed
      BY <1>12 DEF Close
    <2> QED BY <1>0, <1>12, <2>3, <2>4, AttemptTurn DEF Close, Stations
  <1>13. CASE Settle(a)
    <2>1. pc' = [pc EXCEPT ![a] = "none"] /\ item' = item
      BY <1>13 DEF Settle
    <2> QED BY <1>0, <1>13, <2>1, ItemsStand, AttemptTurn DEF Settle, Stations
  <1> QED BY <1>1, <1>2, <1>3, <1>4, <1>5, <1>6, <1>7, <1>8, <1>9, <1>10, <1>11, <1>12, <1>13
          DEF Runs, Ends
-----------------------------------------------------------------------------
(* Turns that do not wait: the kick, and submit() of a marked attempt. *)

LEMMA KickLaunchStep ==
  ASSUME IInv, NEW a \in Attempts, KickLaunch(a)
  PROVE  Kept
  <1> USE DEF events, resources, promises, cleaning, work, bounds
  <1>1. /\ kicking /\ kicking' = kicking /\ phase' = phase /\ phase = "live"
        /\ receipt' = receipt /\ known' = known /\ claimed' = claimed /\ cleanup' = cleanup
        /\ item[a] = "pending_launch"
        /\ item' = [item EXCEPT ![a] = "launching"] /\ pc' = [pc EXCEPT ![a] = "launching"]
    BY DEF KickLaunch, Launchable, IInv, PromisesDieWithTheProcess
  <1>2. Shapes'
    BY <1>1 DEF IInv, Shapes, ItemStatus, Stations
  <1>3. OutcomeIsAtomic' /\ KickIsOneTurn'
    BY <1>1 DEF IInv, Shapes, OutcomeIsAtomic, KickIsOneTurn, Ended
  <1>4. OwnersHaveStarted'
    BY <1>1 DEF IInv, Shapes, OwnersHaveStarted, Started
  <1>5. PromisesDieWithTheProcess' /\ CleanupIsCancelling'
    BY <1>1 DEF IInv, Shapes, PromisesDieWithTheProcess, CleanupIsCancelling
  <1>6. \A b \in Attempts : Started(b) => Started(b)'
    BY <1>1 DEF IInv, Shapes, Started
  <1> QED BY <1>2, <1>3, <1>4, <1>5, <1>6 DEF IInv, Kept

LEMMA StartRunStep ==
  ASSUME IInv, NEW a \in Attempts, StartRun(a)
  PROVE  Kept
  <1> USE DEF events, resources, promises, cleaning, work, bounds
  <1>1. /\ kicking' = kicking /\ phase' = phase /\ phase = "live"
        /\ receipt' = receipt /\ known' = known /\ claimed' = claimed /\ cleanup' = cleanup
        /\ pc[a] = "launching" /\ item[a] = "launching" /\ kicking
        /\ item' = [item EXCEPT ![a] = "running"]
    BY DEF StartRun, IInv, KickIsOneTurn, PromisesDieWithTheProcess
  <1>2. PICK p \in {"claiming", "closing"} : pc' = [pc EXCEPT ![a] = p]
    BY DEF StartRun
  <1>3. Shapes'
    BY <1>1, <1>2 DEF IInv, Shapes, ItemStatus, Stations
  <1>4. OutcomeIsAtomic' /\ KickIsOneTurn'
    BY <1>1, <1>2 DEF IInv, Shapes, OutcomeIsAtomic, KickIsOneTurn, Ended
  <1>5. OwnersHaveStarted'
    BY <1>1, <1>2 DEF IInv, Shapes, OwnersHaveStarted, Started
  <1>6. PromisesDieWithTheProcess' /\ CleanupIsCancelling'
    BY <1>1 DEF IInv, Shapes, PromisesDieWithTheProcess, CleanupIsCancelling
  <1>7. \A b \in Attempts : Started(b) => Started(b)'
    BY <1>1 DEF IInv, Shapes, Started
  <1> QED BY <1>3, <1>4, <1>5, <1>6, <1>7 DEF IInv, Kept

LEMMA SubmitStep ==
  ASSUME IInv, NEW a \in Attempts, Submit(a)
  PROVE  Kept
  <1> USE DEF events, resources, promises, cleaning, work, bounds
  <1>1. /\ UNCHANGED <<item, receipt, claimed, cleanup, kicking, phase>>
        /\ pc[a] = "marked" /\ pc' = [pc EXCEPT ![a] = "submitting"]
    BY DEF Submit
  <1>2. known \subseteq known'
    <2>1. CASE result[a] = "landed"
      BY <2>1 DEF Submit
    <2>2. CASE result[a] = "thrown"
      BY <2>2 DEF Submit, Enqueued
    <2>3. CASE result[a] = "stale"
      BY <2>3 DEF Submit, Enqueued
    <2>4. CASE result[a] \notin {"landed", "thrown", "stale"}
      BY <2>4 DEF Submit, Enqueued
    <2> QED BY <2>1, <2>2, <2>3, <2>4
  <1>3. Shapes'
    BY <1>1 DEF IInv, Shapes, Stations
  <1>4. OutcomeIsAtomic' /\ KickIsOneTurn'
    BY <1>1, <1>2 DEF IInv, Shapes, OutcomeIsAtomic, KickIsOneTurn
  <1>5. OwnersHaveStarted'
    BY <1>1 DEF IInv, Shapes, OwnersHaveStarted, Started
  <1>6. PromisesDieWithTheProcess' /\ CleanupIsCancelling'
    BY <1>1 DEF IInv, Shapes, PromisesDieWithTheProcess, CleanupIsCancelling
  <1>7. \A b \in Attempts : Started(b) => Started(b)'
    BY <1>1 DEF IInv, Shapes, Started
  <1> QED BY <1>3, <1>4, <1>5, <1>6, <1>7 DEF IInv, Kept

LEMMA KickDoneStep ==
  ASSUME IInv, KickDone
  PROVE  Kept
  <1> USE DEF events, resources, promises, cleaning, work, bounds
  <1>1. /\ UNCHANGED <<item, receipt, pc, known, claimed, cleanup, phase>>
        /\ kicking' = FALSE /\ \A a \in Attempts : pc[a] # "launching"
    BY DEF KickDone
  <1> QED BY <1>1 DEF IInv, Shapes, OutcomeIsAtomic, KickIsOneTurn, OwnersHaveStarted, Started,
                      PromisesDieWithTheProcess, CleanupIsCancelling, Kept
-----------------------------------------------------------------------------
(* What the kernel decides. *)

LEMMA DecidesTurn ==
  ASSUME IInv, NEW e, Decides(e)
  PROVE  Kept
  <1>0. Shapes /\ kicking \in BOOLEAN
    BY DEF IInv, Shapes
  <1> USE DEF events, resources, promises, cleaning, work, bounds, Reads
  <1>1. CASE NoOp(e)
    BY <1>0, <1>1, ItemsStand, QuietTurn DEF NoOp
  <1>2. CASE BlockWork(e)
    BY <1>0, <1>2, ItemsStand, QuietTurn DEF BlockWork
  <1>3. CASE WaitForRetry(e)
    BY <1>0, <1>3, ItemsStand, QuietTurn DEF WaitForRetry
  <1>4. CASE ParkForReplan(e)
    BY <1>0, <1>4, ItemsStand, QuietTurn DEF ParkForReplan
  <1>5. CASE WaitForResources(e)
    BY <1>0, <1>5, ItemsStand, QuietTurn DEF WaitForResources
  <1>6. CASE RecoverWorkspace(e)
    BY <1>0, <1>6, ItemsStand, QuietTurn DEF RecoverWorkspace
  <1>7. ASSUME NEW k, Reads(e), Ordered(e, k) PROVE Kept
    <2>1. \A s \in {Of(e.of)} : MayGrow(s)
      BY <1>7 DEF Ordered
    <2>2. Inserted({Of(e.of)}, k)
      BY <1>7 DEF Ordered
    <2>3. /\ item' \in [Attempts -> ItemStatus]
          /\ \A a \in Attempts : Moves(a)
          /\ kicking' \in BOOLEAN
      BY <1>0, <2>1, <2>2, InsertedSteps
    <2> QED BY <1>7, <2>3, QuietTurn DEF Ordered
  <1>8. CASE FallBack(e)
    BY <1>7, <1>8 DEF FallBack
  <1>9. CASE CorrectContract(e)
    BY <1>7, <1>9 DEF CorrectContract
  <1>10. CASE Redispatch(e)
    BY <1>7, <1>10 DEF Redispatch
  <1>11. CASE Advance(e)
    <2>1. /\ item' \in [Attempts -> ItemStatus]
          /\ \A a \in Attempts : Moves(a)
          /\ kicking' \in BOOLEAN
      <3>1. CASE UNCHANGED <<item, kind, kicking>>
        BY <1>0, <3>1, ItemsStand
      <3>2. CASE ~UNCHANGED <<item, kind, kicking>>
        <4>1. PICK S \in SUBSET Dispatchable :
                 (\A s \in S : MayGrow(s)) /\ Inserted(S, "primary")
          BY <1>11, <3>2 DEF Advance, DispatchFrontier
        <4> QED BY <1>0, <4>1, InsertedSteps
      <3> QED BY <3>1, <3>2
    <2> QED BY <1>11, <2>1, QuietTurn DEF Advance
  <1> QED BY <1>1, <1>2, <1>3, <1>4, <1>5, <1>6, <1>8, <1>9, <1>10, <1>11 DEF Decides

LEMMA FireTimerTurn ==
  ASSUME IInv, NEW e, FireTimer(e)
  PROVE  Kept
  <1>0. Shapes
    BY DEF IInv
  <1> USE DEF events, resources, promises, cleaning, work, bounds
  <1>1. /\ item' \in [Attempts -> ItemStatus]
        /\ \A a \in Attempts : Moves(a)
        /\ kicking' \in BOOLEAN
    <2>1. CASE UNCHANGED <<item, kind, kicking>>
      BY <1>0, <2>1, ItemsStand DEF Shapes
    <2>2. CASE ~UNCHANGED <<item, kind, kicking>>
      <3>1. (\A s \in {Of(e.of)} : MayGrow(s)) /\ Inserted({Of(e.of)}, "continuation")
        BY <2>2 DEF FireTimer
      <3> QED BY <1>0, <3>1, InsertedSteps
    <2> QED BY <2>1, <2>2
  <1> QED BY <1>1, QuietTurn DEF FireTimer
-----------------------------------------------------------------------------
(* The user, the cleanup of cancellations and the sweep. *)

LEMMA CancelTurn ==
  ASSUME IInv, NEW S, NEW t, Cancel(S, t)
  PROVE  Kept
  <1> USE DEF events, resources, promises, cleaning, work, bounds
  <1>1. item' \in [Attempts -> ItemStatus] /\ \A a \in Attempts : Moves(a)
    <2>1. item' = CancellationRequested(S)
      BY DEF Cancel
    <2>2. ASSUME NEW a \in Attempts
          PROVE  \/ item'[a] = item[a]
                 \/ item[a] = "pending_launch" /\ item'[a] = "cancelled"
                 \/ item[a] \in {"launching", "running", "uncertain"} /\ item'[a] = "cancelling"
      BY <2>1, Zenon DEF CancellationRequested
    <2>3. item' \in [Attempts -> ItemStatus]
      <3>1. DOMAIN item' = Attempts /\ item' = [a \in Attempts |-> item'[a]]
        BY <2>1 DEF CancellationRequested
      <3> QED BY <2>2, <3>1 DEF IInv, Shapes, ItemStatus
    <2> QED BY <2>2, <2>3 DEF Moves, Started, Ended, IInv, Shapes
  <1> QED BY <1>1, QuietTurn DEF Cancel, IInv, Shapes

LEMMA ReconcilePauseTurn ==
  ASSUME IInv, NEW a \in Attempts, ReconcilePause(a)
  PROVE  Kept
  <1> USE DEF events, resources, promises, cleaning, work, bounds
  <1>1. item[a] \notin {"absent", "pending_launch"}
    BY DEF ReconcilePause, Interrupted
  <1>2. Landed(a, "failed", "ready", "outcome", "paused", <<>>)
    BY DEF ReconcilePause
  <1>3. /\ item' \in [Attempts -> ItemStatus]
        /\ \A b \in Attempts : Moves(b)
        /\ Receives
    BY <1>1, <1>2, LandedSteps DEF IInv, TerminalState, Outcomes
  <1> QED BY <1>3, FreeTurn DEF ReconcilePause, IInv, Shapes

LEMMA SweepTurn ==
  ASSUME IInv, NEW a \in Attempts, Sweep(a)
  PROVE  Kept
  <1> USE DEF events, resources, promises, cleaning, work, bounds
  <1> DEFINE beat == Event("heartbeat", a, "retryable")
  <1>1. /\ item' \in [Attempts -> ItemStatus]
        /\ \A b \in Attempts : Moves(b)
        /\ Receives
    <2>1. CASE Landed(a, "heartbeat_lost", "awaiting_decision", "outcome", "retryable", <<beat>>)
      <3>1. item[a] \notin {"absent", "pending_launch"}
        BY DEF Sweep, IInv, OwnersHaveStarted, Started
      <3> QED BY <2>1, <3>1, LandedSteps DEF IInv, TerminalState, Outcomes
    <2>2. CASE Enqueued(beat) /\ UNCHANGED <<receipt, subtask, candidates, item>>
      BY <2>2, ItemsStand, NothingReceived DEF IInv, Enqueued
    <2>3. CASE UNCHANGED <<receipt, subtask, candidates, item, inbox, known>>
      BY <2>3, ItemsStand, NothingReceived DEF IInv
    <2> QED BY <2>1, <2>2, <2>3 DEF Sweep
  <1> QED BY <1>1, FreeTurn DEF Sweep, IInv, Shapes

LEMMA CleanupStartsStep ==
  ASSUME IInv, CleanupStarts
  PROVE  Kept
  <1> USE DEF events, resources, promises, cleaning, work, bounds
  <1>1. /\ UNCHANGED <<item, receipt, pc, known, claimed, kicking, phase>>
        /\ cleanup' = {a \in Attempts : item[a] = "cancelling"}
    BY DEF CleanupStarts
  <1> QED BY <1>1 DEF IInv, Shapes, OutcomeIsAtomic, KickIsOneTurn, OwnersHaveStarted, Started,
                      PromisesDieWithTheProcess, CleanupIsCancelling, Kept

LEMMA CleanUpTurn ==
  ASSUME IInv, NEW a \in Attempts, CleanUp(a)
  PROVE  Kept
  <1> USE DEF events, resources, promises, cleaning, work, bounds
  <1>1. item' = [item EXCEPT ![a] = IF item[a] = "cancelling" THEN "cancelled" ELSE item[a]]
    BY DEF CleanUp, CancellationSettled
  <1>2. item' \in [Attempts -> ItemStatus] /\ \A b \in Attempts : Moves(b)
    BY <1>1 DEF IInv, Shapes, ItemStatus, Moves, Started, Ended
  <1> QED BY <1>2, QuietTurn DEF CleanUp, IInv, Shapes

LEMMA UserActions ==
  ASSUME IInv, Request \/ ServeRequest \/ SubmitRequest \/ Pause
  PROVE  Kept
  <1>0. Shapes /\ kicking \in BOOLEAN
    BY DEF IInv, Shapes
  <1> USE DEF events, resources, promises, cleaning, work, bounds
  <1>1. CASE Request
    BY <1>0, <1>1, ItemsStand, QuietTurn DEF Request
  <1>2. CASE ServeRequest
    <2>1. \A a \in Attempts : item[a] = "launching" => a \notin claimed /\ pc[a] = "none"
      BY <1>2 DEF ServeRequest, Free, IInv, KickIsOneTurn, OwnersHaveStarted, Started
    <2>2. item' = [a \in Attempts |-> Relaunchable(item[a])]
      BY <1>2 DEF ServeRequest
    <2>3. item' \in [Attempts -> ItemStatus] /\ \A a \in Attempts : Moves(a)
      BY <1>0, <2>2, StatusSteps DEF Shapes, Moves, Started, Ended
    <2> QED BY <1>2, <2>3, QuietTurn DEF ServeRequest
  <1>3. CASE SubmitRequest
    BY <1>0, <1>3, ItemsStand, QuietTurn DEF SubmitRequest
  <1>4. CASE Pause
    BY <1>0, <1>4, ItemsStand, QuietTurn DEF Pause
  <1> QED BY <1>1, <1>2, <1>3, <1>4

LEMMA CleanupActions ==
  ASSUME IInv, CleanupEnds \/ \E a \in Attempts : StopFails(a)
  PROVE  Kept
  <1>0. Shapes /\ kicking \in BOOLEAN
    BY DEF IInv, Shapes
  <1> USE DEF events, resources, promises, cleaning, work, bounds
  <1>1. CASE CleanupEnds
    BY <1>0, <1>1, ItemsStand, QuietTurn DEF CleanupEnds
  <1>2. CASE \E a \in Attempts : StopFails(a)
    BY <1>0, <1>2, ItemsStand, QuietTurn DEF StopFails
  <1> QED BY <1>1, <1>2
-----------------------------------------------------------------------------
(* Crash and startup. *)

\* While the process is down, or starting, there are no promises: only items,
\* receipts, claims and events move.
LEMMA Restarting ==
  ASSUME IInv, \A a \in Attempts : pc'[a] = "none", pc' \in [Attempts -> Stations],
         item' \in [Attempts -> ItemStatus],
         \A a \in Attempts : Moves(a) \/ (item[a] = "launching" /\ item'[a] = "pending_launch"),
         Receives,
         claimed' \subseteq claimed, cleanup' \subseteq cleanup,
         kicking' \in BOOLEAN, kicking' => phase' = "live"
  PROVE  Kept
  <1>1. Shapes'
    BY DEF IInv, Shapes, Receives
  <1>2. OutcomeIsAtomic'
    BY DEF IInv, OutcomeIsAtomic, Receives, Moves, Outcomes, Ended
  <1>3. KickIsOneTurn'
    BY DEF KickIsOneTurn
  <1>4. OwnersHaveStarted'
    <2>1. \A a \in Attempts : (pc'[a] \notin {"none", "launching"} \/ a \in claimed') => Started(a)
      BY DEF IInv, OwnersHaveStarted
    <2>2. \A a \in Attempts : (pc'[a] \notin {"none", "launching"} \/ a \in claimed') => Started(a)'
      BY <2>1 DEF Moves, Started
    <2> QED BY <2>2 DEF OwnersHaveStarted, Started
  <1>5. PromisesDieWithTheProcess'
    BY DEF PromisesDieWithTheProcess
  <1>6. CleanupIsCancelling'
    BY DEF IInv, Shapes, CleanupIsCancelling, Moves
  <1>7. \A a \in Attempts : Started(a) => Started(a)'
    BY DEF Moves, Started
  <1> QED BY <1>1, <1>2, <1>3, <1>4, <1>5, <1>6, <1>7 DEF IInv, Kept

LEMMA CrashStep ==
  ASSUME IInv, Crash
  PROVE  Kept
  <1>0. Shapes
    BY DEF IInv
  <1> USE DEF events, resources, promises, cleaning, work, bounds
  <1>1. pc' = [a \in Attempts |-> "none"] /\ item' = item /\ receipt' = receipt /\ known' = known
        /\ claimed' = claimed /\ cleanup' = {} /\ kicking' = FALSE
    BY DEF Crash
  <1> QED BY <1>0, <1>1, ItemsStand, NothingReceived, Restarting DEF Stations

LEMMA StartupStep ==
  ASSUME IInv, Startup
  PROVE  Kept
  <1>0. Shapes
    BY DEF IInv
  <1> USE DEF events, resources, promises, cleaning, work, bounds
  <1>1. CASE ReconcileSandboxes
    <2>1. PICK mine \in SUBSET Attempts :
             /\ mine = {a \in Survived : item[a] \notin {"cancelling", "cancelled"}}
             /\ item' = [a \in Attempts |-> IF a \in mine THEN Uncertain(item[a]) ELSE item[a]]
             /\ known \subseteq known'
      BY <1>1 DEF ReconcileSandboxes, Survived
    <2>2. item' \in [Attempts -> ItemStatus] /\ \A a \in Attempts : Moves(a)
      BY <1>0, <2>1, StatusSteps DEF Shapes, Moves, Started, Ended, ItemStatus
    <2>3. UNCHANGED <<pc, receipt, claimed, cleanup, kicking>>
          /\ ~kicking /\ \A a \in Attempts : pc[a] = "none"
      BY <1>1 DEF ReconcileSandboxes, IInv, PromisesDieWithTheProcess
    <2> QED BY <1>0, <2>1, <2>2, <2>3, NothingReceived, Restarting DEF Shapes
  <1>2. CASE RecoverCancellations
    <2> DEFINE mine == {a \in Attempts : item[a] = "cancelling" /\ Removable(a)}
    <2>1. item' = [a \in Attempts |-> IF a \in mine THEN "cancelled" ELSE item[a]]
          /\ \A a \in mine : item[a] = "cancelling"
      BY <1>2 DEF RecoverCancellations
    <2> HIDE DEF mine
    <2>2. item' \in [Attempts -> ItemStatus] /\ \A a \in Attempts : Moves(a)
      BY <1>0, <2>1 DEF Shapes, Moves, Started, Ended, ItemStatus
    <2>3. UNCHANGED <<pc, receipt, known, claimed, cleanup, kicking>>
          /\ ~kicking /\ \A a \in Attempts : pc[a] = "none"
      BY <1>2 DEF RecoverCancellations, IInv, PromisesDieWithTheProcess
    <2> QED BY <1>0, <2>2, <2>3, NothingReceived, Restarting DEF Shapes
  <1>3. CASE ReportMissing
    <2>1. UNCHANGED <<item, pc, receipt, claimed, cleanup, kicking>> /\ known \subseteq known'
          /\ ~kicking /\ \A a \in Attempts : pc[a] = "none"
      BY <1>3 DEF ReportMissing, Enqueued, IInv, PromisesDieWithTheProcess
    <2> QED BY <1>0, <2>1, ItemsStand, NothingReceived, Restarting DEF Shapes
  <1>4. CASE RecoverDue
    <2>1. UNCHANGED <<pc, receipt, known, claimed, cleanup>> /\ phase' = "live"
          /\ ~kicking /\ \A a \in Attempts : pc[a] = "none"
      BY <1>4 DEF RecoverDue, IInv, PromisesDieWithTheProcess
    <2>2. /\ item' \in [Attempts -> ItemStatus] /\ kicking' \in BOOLEAN
          /\ \A a \in Attempts :
                Moves(a) \/ (item[a] = "launching" /\ item'[a] = "pending_launch")
      <3>1. CASE task \in {"running", "blocked"}
        <4>1. item' = [a \in Attempts |-> Relaunchable(item[a])] /\ kicking' = TRUE
          BY <1>4, <3>1 DEF RecoverDue
        <4>2. \A a \in Attempts : item[a] = "launching" => Relaunchable(item[a]) = "pending_launch"
          BY DEF Relaunchable
        <4> QED BY <1>0, <4>1, <4>2, StatusSteps DEF Shapes, Moves, Started, Ended
      <3>2. CASE task \notin {"running", "blocked"}
        BY <1>0, <1>4, <3>2, ItemsStand DEF RecoverDue, Shapes
      <3> QED BY <3>1, <3>2
    <2> QED BY <1>0, <2>1, <2>2, NothingReceived, Restarting DEF Shapes
  <1>5. ASSUME NEW a \in Attempts, SealOrphan(a) PROVE Kept
    <2>1. /\ UNCHANGED <<pc, cleanup, kicking>> /\ claimed' \subseteq claimed
          /\ ~kicking /\ \A b \in Attempts : pc[b] = "none"
      BY <1>5 DEF SealOrphan, IInv, PromisesDieWithTheProcess
    <2>2. /\ item' \in [Attempts -> ItemStatus]
          /\ \A b \in Attempts : Moves(b)
          /\ Receives
      <3>1. PICK report :
               \/ Landed(a, "heartbeat_lost", "awaiting_decision", "outcome", "retryable", report)
               \/ UNCHANGED <<receipt, subtask, candidates, item>> /\ known \subseteq known'
        BY <1>5 DEF SealOrphan
      <3>2. item[a] \notin {"absent", "pending_launch"}
        BY <1>5 DEF SealOrphan, IInv, OwnersHaveStarted, Started
      <3>3. CASE Landed(a, "heartbeat_lost", "awaiting_decision", "outcome", "retryable", report)
        BY <1>0, <3>2, <3>3, LandedSteps DEF TerminalState, Outcomes
      <3>4. CASE UNCHANGED <<receipt, subtask, candidates, item>> /\ known \subseteq known'
        BY <1>0, <3>4, ItemsStand, NothingReceived
      <3> QED BY <3>1, <3>3, <3>4
    <2> QED BY <1>0, <2>1, <2>2, Restarting DEF Shapes
  <1>6. ASSUME NEW a \in Attempts, BlockStartup(a) PROVE Kept
    <2>1. UNCHANGED <<item, pc, receipt, known, claimed, cleanup, kicking>>
          /\ ~kicking /\ \A b \in Attempts : pc[b] = "none"
      BY <1>6 DEF BlockStartup, IInv, PromisesDieWithTheProcess
    <2> QED BY <1>0, <2>1, ItemsStand, NothingReceived, Restarting DEF Shapes
  <1> QED BY <1>1, <1>2, <1>3, <1>4, <1>5, <1>6 DEF Startup
-----------------------------------------------------------------------------
(* The inductive invariant and what follows from it. *)

LEMMA InitIInv == Init => IInv
  <1> SUFFICES ASSUME Init PROVE IInv
    OBVIOUS
  <1>1. /\ item = [a \in Attempts |-> "absent"] /\ receipt = [a \in Attempts |-> "none"]
        /\ pc = [a \in Attempts |-> "none"]
        /\ claimed = {} /\ cleanup = {} /\ kicking = FALSE /\ phase = "live"
    BY DEF Init
  <1>2. Shapes
    BY <1>1 DEF Shapes, ItemStatus, TerminalState, Stations
  <1>3. OutcomeIsAtomic /\ KickIsOneTurn /\ OwnersHaveStarted
    BY <1>1 DEF OutcomeIsAtomic, KickIsOneTurn, OwnersHaveStarted
  <1>4. PromisesDieWithTheProcess /\ CleanupIsCancelling
    BY <1>1 DEF PromisesDieWithTheProcess, CleanupIsCancelling
  <1> QED BY <1>2, <1>3, <1>4 DEF IInv

LEMMA NextIInv ==
  ASSUME IInv, [Next]_vars
  PROVE  Kept
  <1>1. ASSUME NEW a \in Attempts, Runs(a) PROVE Kept
    BY <1>1, AttemptActions, KickLaunchStep, StartRunStep, SubmitStep
  <1>2. ASSUME NEW a \in Attempts, ReconcilePause(a) \/ CleanUp(a) \/ Sweep(a) PROVE Kept
    BY <1>2, ReconcilePauseTurn, CleanUpTurn, SweepTurn
  <1>3. CASE CleanupEnds \/ \E a \in Attempts : StopFails(a)
    BY <1>3, CleanupActions
  <1>4. ASSUME NEW e, Decides(e) \/ FireTimer(e) PROVE Kept
    BY <1>4, DecidesTurn, FireTimerTurn
  <1>5. CASE KickDone \/ CleanupStarts \/ Crash \/ Startup
    BY <1>5, KickDoneStep, CleanupStartsStep, CrashStep, StartupStep
  <1>6. CASE Request \/ ServeRequest \/ SubmitRequest \/ Pause
    BY <1>6, UserActions
  <1>7. CASE CancelTask \/ \E S \in SUBSET Subtasks : CancelSubtasks(S)
    BY <1>7, CancelTurn DEF CancelTask, CancelSubtasks
  <1>8. CASE UNCHANGED vars
    BY <1>8 DEF vars, work, events, resources, promises, cleaning, IInv, Shapes, OutcomeIsAtomic,
                KickIsOneTurn, OwnersHaveStarted, Started, PromisesDieWithTheProcess,
                CleanupIsCancelling, Kept
  <1> QED BY <1>1, <1>2, <1>3, <1>4, <1>5, <1>6, <1>7, <1>8 DEF Next

\* Receipts, items, promises and claims stay consistent across every step of the
\* runtime, crashes included.
THEOREM Inductive == Spec => []IInv
  <1>1. IInv /\ [Next]_vars => IInv'
    BY NextIInv DEF Kept
  <1> QED BY <1>1, InitIInv, PTL DEF Spec

\* AttemptTerminalService.land: a receipt never exists without the ended
\* dispatch item and the outcome event of its transaction.
THEOREM OutcomesAreAtomic == Spec => []OutcomeIsAtomic
  <1>1. IInv => OutcomeIsAtomic
    BY DEF IInv
  <1> QED BY <1>1, Inductive, PTL
-----------------------------------------------------------------------------
(* Leases. *)

SealedReleases == \A a \in leased \ leased' : item'[a] \in Ended

LEMMA CloseReleases ==
  ASSUME IInv, NEW a \in Attempts, Close(a)
  PROVE  SealedReleases
  <1>1. \A b \in leased \ leased' : b = a /\ item[a] \in Ended
    BY DEF Close, Sealed
  <1>2. item' \in [Attempts -> ItemStatus] /\ (item[a] \in Ended => item'[a] \in Ended)
    BY StatusSteps DEF Close, IInv, Shapes, Ended, ItemStatus, Terminal, Uncertain
  <1> QED BY <1>1, <1>2 DEF SealedReleases

LEMMA CleanUpReleases ==
  ASSUME IInv, NEW a \in Attempts, CleanUp(a)
  PROVE  SealedReleases
  <1>1. \A b \in leased \ leased' : b = a
    BY DEF CleanUp, CancellationSettled
  <1>2. item'[a] \in Ended
    BY DEF CleanUp, CancellationSettled, IInv, Shapes, CleanupIsCancelling, Ended
  <1> QED BY <1>1, <1>2 DEF SealedReleases

LEMMA RecoverReleases ==
  ASSUME IInv, RecoverCancellations
  PROVE  SealedReleases
  BY DEF RecoverCancellations, SealedReleases, Ended

LEMMA LandedReleases ==
  ASSUME IInv, NEW a \in Attempts, SealOrphan(a) \/ ReconcilePause(a)
  PROVE  SealedReleases
  <1>1. \A b \in leased \ leased' : b = a
    BY DEF SealOrphan, ReconcilePause
  <1>2. item'[a] \in Ended
    <2>1. ASSUME NEW next, NEW says, NEW more, NEW state \in {"failed", "heartbeat_lost"},
                 Landed(a, state, next, "outcome", says, more)
          PROVE  item'[a] \in Ended
      <3>1. item[a] \notin {"absent", "pending_launch"}
        BY DEF SealOrphan, ReconcilePause, Interrupted, IInv, OwnersHaveStarted, Started
      <3> QED BY <2>1, <3>1, LandedSteps DEF IInv, TerminalState, Outcomes
    <2>2. CASE ReconcilePause(a)
      BY <2>1, <2>2 DEF ReconcilePause
    <2>3. CASE SealOrphan(a)
      <3>1. CASE \E report : Landed(a, "heartbeat_lost", "awaiting_decision", "outcome",
                                    "retryable", report)
        BY <2>1, <3>1
      <3>2. CASE receipt[a] # "none" /\ item' = item
        BY <3>2 DEF IInv, OutcomeIsAtomic
      <3> QED BY <2>3, <3>1, <3>2 DEF SealOrphan
    <2> QED BY <2>2, <2>3
  <1> QED BY <1>1, <1>2 DEF SealedReleases

\* No other action takes a lease away.
LEMMA OthersKeepLeases ==
  ASSUME [Next]_vars,
         ~(\E a \in Attempts : Close(a) \/ CleanUp(a) \/ SealOrphan(a) \/ ReconcilePause(a)),
         ~RecoverCancellations
  PROVE  leased \subseteq leased'
  <1> USE DEF vars, events, resources, promises, cleaning, work, bounds
  <1>1. ASSUME NEW a \in Attempts, Runs(a), ~Close(a) PROVE leased \subseteq leased'
    BY <1>1 DEF Runs, Ends, KickLaunch, StartRun, ClaimFails, LeaseConflicts, ClaimUnit, Execute,
                SandboxExits, PreparationFails, AbandonSandbox, ExecutorFails, BreaksContract,
                ExecutorSucceeds, LandSuccess, Submit, Settle
  <1>2. ASSUME NEW a \in Attempts, StopFails(a) \/ Sweep(a) PROVE leased \subseteq leased'
    BY <1>2 DEF StopFails, Sweep
  <1>3. ASSUME NEW e, Decides(e) \/ FireTimer(e) PROVE leased \subseteq leased'
    BY <1>3 DEF Decides, NoOp, BlockWork, WaitForRetry, FallBack, ParkForReplan, CorrectContract,
                Redispatch, WaitForResources, Advance, RecoverWorkspace, Ordered, FireTimer
  <1>4. CASE KickDone \/ Request \/ ServeRequest \/ SubmitRequest \/ Pause
    BY <1>4 DEF KickDone, Request, ServeRequest, SubmitRequest, Pause
  <1>5. CASE CancelTask \/ \E S \in SUBSET Subtasks : CancelSubtasks(S)
    BY <1>5 DEF CancelTask, CancelSubtasks, Cancel
  <1>6. CASE CleanupStarts \/ CleanupEnds \/ Crash
    BY <1>6 DEF CleanupStarts, CleanupEnds, Crash
  <1>7. CASE ReconcileSandboxes \/ ReportMissing \/ RecoverDue \/ \E a \in Attempts : BlockStartup(a)
    BY <1>7 DEF ReconcileSandboxes, ReportMissing, RecoverDue, BlockStartup
  <1>8. CASE UNCHANGED vars
    BY <1>8
  <1> QED BY <1>1, <1>2, <1>3, <1>4, <1>5, <1>6, <1>7, <1>8 DEF Next, Startup

\* The finally block of run(), the cleanup, startup and the resume of a paused
\* Task release leases only with the ended dispatch item.
THEOREM ReleasesAreSealed == Spec => ReleaseIsSealed
  <1>1. ASSUME IInv, [Next]_vars PROVE SealedReleases
    <2>1. CASE \E a \in Attempts : Close(a) \/ CleanUp(a) \/ SealOrphan(a) \/ ReconcilePause(a)
      BY <1>1, <2>1, CloseReleases, CleanUpReleases, LandedReleases
    <2>2. CASE RecoverCancellations
      BY <1>1, <2>2, RecoverReleases
    <2> QED BY <1>1, <2>1, <2>2, OthersKeepLeases DEF SealedReleases
  <1>2. ASSUME SealedReleases PROVE [\A a \in leased \ leased' : item'[a] \in Ended]_vars
    BY <1>2 DEF SealedReleases
  <1> QED BY <1>1, <1>2, Inductive, PTL DEF Spec, ReleaseIsSealed
-------------------------------------------------------------------------------
(***************************************************************************)
(* While a sandbox runs, its attempt owns its WorkUnit and its leases, and *)
(* so no two sandboxes of one Subtask run together.  Proved for executors  *)
(* whose sandboxes can be stopped: an executor that abandons one           *)
(* (AbandonSandbox) gives its ownership back and refutes both.             *)
(***************************************************************************)
\* The WorkUnits and leases of an attempt.
Owns(a) == a \in claimed /\ a \in leased

SandboxShape == sandbox \in [Attempts -> {"absent", "running", "exited"}]

\* From its claim to the exit of its sandbox an attempt owns its resources.
WorkersOwn == \A a \in Attempts : pc[a] \in {"preparing", "executing"} => Owns(a)

\* Before an attempt executes it has no sandbox.
NoEarlySandbox ==
  \A a \in Attempts : ~Started(a) \/ pc[a] \in {"launching", "claiming", "preparing"}
                      => sandbox[a] = "absent"

\* A sandbox runs with its promise, or without one until startup stops it.
RunningIsOwned ==
  \A a \in Attempts : sandbox[a] = "running" =>
     Owns(a) /\ (pc[a] = "executing" \/ phase = "down")

ExecutingRuns == \A a \in Attempts : pc[a] = "executing" => sandbox[a] = "running"

\* What the cleanup visits has no promise any more.
CleanupIsIdle == \A a \in cleanup : pc[a] = "none"

\* The unique index on active claims of a Subtask.
OneClaim == \A a, b \in claimed : Of(a) = Of(b) => a = b

Owned ==
  /\ SandboxShape
  /\ WorkersOwn
  /\ NoEarlySandbox
  /\ RunningIsOwned
  /\ ExecutingRuns
  /\ CleanupIsIdle
  /\ OneClaim

-----------------------------------------------------------------------------
\* Promises and sandboxes stand still, and only what nobody works with is
\* given back.
LEMMA OwnedQuiet ==
  ASSUME IInv, Owned, Kept, UNCHANGED <<pc, sandbox>>, phase = "down" => phase' = "down",
         claimed' \subseteq claimed, leased' \subseteq leased, cleanup' \subseteq cleanup,
         \A a \in (claimed \ claimed') \cup (leased \ leased') :
            pc[a] \notin {"preparing", "executing"} /\ sandbox[a] # "running"
  PROVE  Owned'
  <1>1. SandboxShape' /\ ExecutingRuns' /\ CleanupIsIdle' /\ OneClaim'
    BY DEF Owned, SandboxShape, ExecutingRuns, CleanupIsIdle, OneClaim
  <1>2. WorkersOwn'
    BY DEF Owned, WorkersOwn, Owns
  <1>3. NoEarlySandbox'
    <2>1. \A a \in Attempts : Started(a) => Started(a)'
      BY DEF Kept
    <2> QED BY <2>1 DEF Owned, NoEarlySandbox
  <1>4. RunningIsOwned'
    BY DEF Owned, RunningIsOwned, Owns
  <1> QED BY <1>1, <1>2, <1>3, <1>4 DEF Owned

\* The usual case: nothing is given back at all.
LEMMA OwnedStill ==
  ASSUME IInv, Owned, Kept, UNCHANGED <<pc, sandbox, claimed, leased>>,
         phase = "down" => phase' = "down", cleanup' \subseteq cleanup
  PROVE  Owned'
  BY OwnedQuiet

\* An attempt that is past its sandbox moves on.
LEMMA OwnedPast ==
  ASSUME IInv, Owned, Kept, NEW a \in Attempts,
         NEW p \in Stations \ {"launching", "claiming", "preparing", "executing"},
         pc[a] \notin {"none", "executing"}, pc' = [pc EXCEPT ![a] = p],
         UNCHANGED <<sandbox, cleanup, phase>>,
         claimed' \subseteq claimed, claimed \ claimed' \subseteq {a},
         leased' \subseteq leased, leased \ leased' \subseteq {a}
  PROVE  Owned'
  <1>1. /\ \A b \in Attempts \ {a} : pc'[b] = pc[b]
        /\ pc'[a] = p /\ pc[a] # "none"
        /\ p \notin {"launching", "claiming", "preparing", "executing"}
    BY DEF IInv, Shapes
  <1>2. phase = "live"
    BY <1>1 DEF IInv, PromisesDieWithTheProcess
  <1>3. SandboxShape' /\ CleanupIsIdle' /\ OneClaim'
    BY <1>1 DEF Owned, SandboxShape, CleanupIsIdle, OneClaim, IInv, Shapes
  <1>4. WorkersOwn' /\ ExecutingRuns'
    BY <1>1 DEF Owned, WorkersOwn, ExecutingRuns, Owns
  <1>5. NoEarlySandbox'
    <2>1. \A b \in Attempts : Started(b) => Started(b)'
      BY DEF Kept
    <2> QED BY <1>1, <2>1 DEF Owned, NoEarlySandbox
  <1>6. RunningIsOwned'
    BY <1>1, <1>2 DEF Owned, RunningIsOwned, Owns
  <1> QED BY <1>3, <1>4, <1>5, <1>6 DEF Owned
-----------------------------------------------------------------------------
LEMMA OwnedLaunch ==
  ASSUME IInv, Owned, Kept, NEW a \in Attempts, KickLaunch(a) \/ StartRun(a)
  PROVE  Owned'
  <1> USE DEF events, resources, promises, cleaning, work, bounds
  <1>1. /\ UNCHANGED <<sandbox, claimed, leased, cleanup, phase>> /\ phase = "live"
    BY DEF KickLaunch, StartRun, IInv, KickIsOneTurn, PromisesDieWithTheProcess
  <1>2. PICK p \in {"launching", "claiming", "closing"} : pc' = [pc EXCEPT ![a] = p]
    BY DEF KickLaunch, StartRun
  <1>3. \A b \in Attempts : pc'[b] = IF b = a THEN p ELSE pc[b]
    BY <1>2 DEF IInv, Shapes
  <1>4. sandbox[a] = "absent" /\ a \notin cleanup
    BY DEF KickLaunch, StartRun, Launchable, Started, IInv, CleanupIsCancelling, Shapes,
           KickIsOneTurn, Owned, NoEarlySandbox
  <1>5. SandboxShape' /\ CleanupIsIdle' /\ OneClaim'
    BY <1>1, <1>3, <1>4 DEF Owned, SandboxShape, CleanupIsIdle, OneClaim, IInv, Shapes
  <1>6. WorkersOwn' /\ ExecutingRuns' /\ RunningIsOwned'
    BY <1>1, <1>3, <1>4 DEF Owned, WorkersOwn, ExecutingRuns, RunningIsOwned, Owns
  <1>7. NoEarlySandbox'
    <2>1. \A b \in Attempts : Started(b) => Started(b)'
      BY DEF Kept
    <2> QED BY <1>1, <1>3, <1>4, <2>1 DEF Owned, NoEarlySandbox
  <1> QED BY <1>5, <1>6, <1>7 DEF Owned

LEMMA OwnedClaim ==
  ASSUME IInv, Owned, Kept, NEW a \in Attempts, ClaimUnit(a)
  PROVE  Owned'
  <1> USE DEF events, resources, promises, cleaning, work, bounds
  <1>1. /\ UNCHANGED <<sandbox, cleanup, phase>> /\ phase = "live"
        /\ pc[a] = "claiming" /\ pc' = [pc EXCEPT ![a] = "preparing"]
        /\ claimed' = claimed \cup {a} /\ leased' = leased \cup {a}
        /\ ~Rival(a, claimed)
    BY DEF ClaimUnit, Free
  <1>2. \A b \in Attempts : pc'[b] = IF b = a THEN "preparing" ELSE pc[b]
    BY <1>1 DEF IInv, Shapes
  <1>3. SandboxShape' /\ CleanupIsIdle' /\ OneClaim'
    BY <1>1, <1>2 DEF Owned, SandboxShape, CleanupIsIdle, OneClaim, IInv, Shapes, Rival
  <1>4. WorkersOwn' /\ ExecutingRuns' /\ RunningIsOwned'
    BY <1>1, <1>2 DEF Owned, WorkersOwn, ExecutingRuns, RunningIsOwned, Owns
  <1>5. NoEarlySandbox'
    <2>1. \A b \in Attempts : Started(b) => Started(b)'
      BY DEF Kept
    <2> QED BY <1>1, <1>2, <2>1 DEF Owned, NoEarlySandbox
  <1> QED BY <1>3, <1>4, <1>5 DEF Owned

LEMMA OwnedExecute ==
  ASSUME IInv, Owned, Kept, NEW a \in Attempts, Execute(a) \/ SandboxExits(a)
  PROVE  Owned'
  <1> USE DEF events, resources, promises, cleaning, work, bounds
  <1>1. UNCHANGED <<claimed, leased, cleanup, phase>> /\ phase = "live"
        /\ pc[a] \in {"preparing", "executing"}
    BY DEF Execute, SandboxExits, Free
  <1>2. PICK step \in {<<"executing", "running">>, <<"collecting", "exited">>} :
           pc' = [pc EXCEPT ![a] = step[1]] /\ sandbox' = [sandbox EXCEPT ![a] = step[2]]
    BY DEF Execute, SandboxExits
  <1>3. \A b \in Attempts : /\ pc'[b] = IF b = a THEN step[1] ELSE pc[b]
                            /\ sandbox'[b] = IF b = a THEN step[2] ELSE sandbox[b]
    BY <1>2 DEF IInv, Shapes, Owned, SandboxShape
  <1>4. Owns(a) /\ Started(a) /\ a \notin cleanup
    BY <1>1 DEF Owned, WorkersOwn, IInv, OwnersHaveStarted, CleanupIsIdle
  <1>5. SandboxShape'
    BY <1>2 DEF Owned, SandboxShape
  <1>6. CleanupIsIdle' /\ OneClaim'
    BY <1>1, <1>3, <1>4 DEF Owned, CleanupIsIdle, OneClaim, IInv, Shapes
  <1>7. WorkersOwn' /\ ExecutingRuns' /\ RunningIsOwned'
    BY <1>1, <1>3, <1>4 DEF Owned, WorkersOwn, ExecutingRuns, RunningIsOwned, Owns
  <1>8. NoEarlySandbox'
    <2>1. \A b \in Attempts : Started(b) => Started(b)'
      BY DEF Kept
    <2> QED BY <1>1, <1>3, <1>4, <2>1 DEF Owned, NoEarlySandbox
  <1> QED BY <1>5, <1>6, <1>7, <1>8 DEF Owned
-----------------------------------------------------------------------------
\* What an attempt does without touching a sandbox: it does not get its claim,
\* fails, lands, closes, submits or settles.
LEMMA OwnedLands ==
  ASSUME IInv, Owned, Kept, NEW a \in Attempts,
         NEW state, NEW next, NEW id, NEW says, RunLands(a, state, next, id, says),
         pc[a] \notin {"none", "executing"}, UNCHANGED <<sandbox, leased, cleanup, phase>>
  PROVE  Owned'
  <1>1. pc' = [pc EXCEPT ![a] = "closing"] /\ claimed' \in {claimed, claimed \ {a}}
    BY DEF RunLands
  <1>2. "closing" \in Stations \ {"launching", "claiming", "preparing", "executing"}
    BY DEF Stations
  <1> QED BY <1>1, <1>2, OwnedPast

LEMMA OwnedRuns ==
  ASSUME IInv, Owned, Kept, "unstoppable" \notin Occurs, NEW a \in Attempts, Runs(a)
  PROVE  Owned'
  <1> USE DEF events, resources, promises, cleaning, work, bounds
  <1> DEFINE Past == Stations \ {"launching", "claiming", "preparing", "executing"}
  <1>0. {"closing", "promoting", "marked", "submitting", "none"} \subseteq Past
    BY DEF Stations
  <1> HIDE DEF Past
  <1>1. ASSUME NEW p \in Past, pc[a] \notin {"none", "executing"},
               pc' = [pc EXCEPT ![a] = p], UNCHANGED <<sandbox, cleanup, phase>>,
               claimed' \subseteq claimed, claimed \ claimed' \subseteq {a},
               leased' \subseteq leased, leased \ leased' \subseteq {a}
        PROVE  Owned'
    BY <1>1, OwnedPast DEF Past
  <1>2. CASE KickLaunch(a) \/ StartRun(a)
    BY <1>2, OwnedLaunch
  <1>3. CASE ClaimUnit(a)
    BY <1>3, OwnedClaim
  <1>4. CASE Execute(a) \/ SandboxExits(a)
    BY <1>4, OwnedExecute
  <1>5. CASE ClaimFails(a) \/ LeaseConflicts(a)
    BY <1>0, <1>1, <1>5 DEF ClaimFails, LeaseConflicts
  <1>6. CASE PreparationFails(a) \/ BreaksContract(a) \/ LandSuccess(a)
    BY <1>6, OwnedLands DEF PreparationFails, BreaksContract, LandSuccess
  <1>7. CASE AbandonSandbox(a)
    BY <1>7 DEF AbandonSandbox
  <1>8. CASE ExecutorFails(a)
    <2>1. PICK says : RunLands(a, "failed", "awaiting_decision", "outcome", says)
      BY <1>8 DEF ExecutorFails
    <2> QED BY <1>8, <2>1, OwnedLands DEF ExecutorFails
  <1>9. CASE ExecutorSucceeds(a)
    <2>1. CASE RunLands(a, "failed", "awaiting_decision", "outcome", "stale")
      BY <1>9, <2>1, OwnedLands DEF ExecutorSucceeds
    <2>2. CASE ~RunLands(a, "failed", "awaiting_decision", "outcome", "stale")
      BY <1>0, <1>1, <1>9, <2>2 DEF ExecutorSucceeds
    <2> QED BY <2>1, <2>2
  <1>10. CASE Close(a)
    BY <1>0, <1>1, <1>10 DEF Close
  <1>11. CASE Submit(a) \/ Settle(a)
    BY <1>0, <1>1, <1>11 DEF Submit, Settle
  <1> QED BY <1>2, <1>3, <1>4, <1>5, <1>6, <1>7, <1>8, <1>9, <1>10, <1>11 DEF Runs, Ends
-----------------------------------------------------------------------------
\* The kernel's decisions, the kick and most of the user's commands move no
\* promise and no resource.
LEMMA OwnedDecides ==
  ASSUME IInv, Owned, Kept, NEW e, Decides(e) \/ FireTimer(e)
  PROVE  Owned'
  <1>1. UNCHANGED <<pc, sandbox, claimed, leased, cleanup, phase>>
    BY DEF resources, promises, cleaning, Decides, NoOp, BlockWork, WaitForRetry, FallBack,
           ParkForReplan, CorrectContract, Redispatch, WaitForResources, Advance,
           RecoverWorkspace, Ordered, FireTimer
  <1> QED BY <1>1, OwnedStill

LEMMA OwnedUser ==
  ASSUME IInv, Owned, Kept,
         \/ KickDone \/ Request \/ ServeRequest \/ SubmitRequest \/ Pause \/ CancelTask
         \/ \E S \in SUBSET Subtasks : CancelSubtasks(S)
         \/ CleanupEnds \/ \E a \in Attempts : StopFails(a)
  PROVE  Owned'
  <1>1. UNCHANGED <<pc, sandbox, claimed, leased, phase>> /\ cleanup' \subseteq cleanup
    BY DEF resources, promises, cleaning, KickDone, Request, ServeRequest, SubmitRequest, Pause,
           CancelTask, CancelSubtasks, Cancel, CleanupEnds, StopFails
  <1> QED BY <1>1, OwnedStill

LEMMA OwnedReconcilePause ==
  ASSUME IInv, Owned, Kept, NEW a \in Attempts, ReconcilePause(a)
  PROVE  Owned'
  <1>1. /\ UNCHANGED <<pc, sandbox, cleanup, phase>> /\ sandbox[a] = "exited"
        /\ claimed' = claimed \ {a} /\ leased' = leased \ {a}
    BY DEF promises, cleaning, ReconcilePause, Interrupted
  <1>2. pc[a] \notin {"preparing", "executing"}
    BY <1>1 DEF Owned, NoEarlySandbox, ExecutingRuns
  <1> QED BY <1>1, <1>2, OwnedQuiet

LEMMA OwnedSweep ==
  ASSUME IInv, Owned, Kept, NEW a \in Attempts, Sweep(a)
  PROVE  Owned'
  <1>1. /\ UNCHANGED <<pc, sandbox, leased, cleanup, phase>> /\ phase = "live"
        /\ claimed' = claimed \ {a} /\ pc[a] \in {"none", "submitting"}
    BY DEF promises, cleaning, Sweep, Free, Expired
  <1>2. sandbox[a] # "running"
    BY <1>1 DEF Owned, RunningIsOwned
  <1> QED BY <1>1, <1>2, OwnedQuiet

\* What the cleanup visits is idle, so its sandbox does not run any more.
LEMMA OwnedCleanUp ==
  ASSUME IInv, Owned, Kept, NEW a \in Attempts, CleanUp(a)
  PROVE  Owned'
  <1>1. phase = "live" /\ a \in cleanup /\ pc[a] = "none"
    BY DEF CleanUp, Free, Owned, CleanupIsIdle
  <1>2. sandbox[a] # "running"
    BY <1>1 DEF Owned, RunningIsOwned
  <1>3. UNCHANGED <<pc, claimed, phase>> /\ cleanup' \subseteq cleanup
        /\ leased' \subseteq leased /\ leased \ leased' \subseteq {a}
    BY DEF promises, CleanUp, CancellationSettled
  <1>4. sandbox' = sandbox
    BY <1>2 DEF CleanUp, CancellationSettled, Owned, SandboxShape
  <1> QED BY <1>1, <1>2, <1>3, <1>4, OwnedQuiet

LEMMA OwnedCleanupStarts ==
  ASSUME IInv, Owned, Kept, CleanupStarts
  PROVE  Owned'
  <1>1. UNCHANGED <<pc, sandbox, claimed, leased, phase>> /\ cleanup' \subseteq Attempts
        /\ \A a \in Attempts : pc[a] = "none"
    BY DEF resources, promises, CleanupStarts, Active
  <1>2. \A a \in Attempts : Started(a) => Started(a)'
    BY DEF Kept
  <1> QED BY <1>1, <1>2 DEF Owned, SandboxShape, WorkersOwn, NoEarlySandbox, RunningIsOwned, Owns,
                            ExecutingRuns, CleanupIsIdle, OneClaim
-----------------------------------------------------------------------------
\* A crash takes the promises and leaves sandboxes running; startup stops them
\* before it releases anything.
LEMMA OwnedCrash ==
  ASSUME IInv, Owned, Kept, Crash
  PROVE  Owned'
  <1>1. UNCHANGED <<sandbox, claimed, leased, item>> /\ phase' = "down" /\ cleanup' = {}
        /\ \A a \in Attempts : pc'[a] = "none"
    BY DEF resources, work, Crash
  <1>2. \A a \in Attempts : Started(a) => Started(a)'
    BY DEF Kept
  <1> QED BY <1>1, <1>2 DEF Owned, SandboxShape, WorkersOwn, NoEarlySandbox, RunningIsOwned, Owns,
                            ExecutingRuns, CleanupIsIdle, OneClaim

LEMMA OwnedReconcileSandboxes ==
  ASSUME IInv, Owned, Kept, ReconcileSandboxes
  PROVE  Owned'
  <1>1. /\ UNCHANGED <<pc, claimed, leased, cleanup>>
        /\ sandbox' = [a \in Attempts |-> IF a \in Survived THEN "exited" ELSE sandbox[a]]
        /\ \A a \in Attempts : pc[a] = "none"
    BY DEF promises, ReconcileSandboxes, IInv, PromisesDieWithTheProcess
  <1>2. \A a \in Attempts : Started(a) => Started(a)'
    BY DEF Kept
  <1>3. SandboxShape' /\ \A a \in Attempts : sandbox'[a] # "running"
                        /\ (sandbox[a] = "absent" => sandbox'[a] = "absent")
    BY <1>1 DEF Owned, SandboxShape, Survived
  <1>4. NoEarlySandbox'
    BY <1>1, <1>2, <1>3 DEF Owned, NoEarlySandbox
  <1> QED BY <1>1, <1>3, <1>4 DEF Owned, WorkersOwn, RunningIsOwned, ExecutingRuns,
                                  CleanupIsIdle, OneClaim

LEMMA OwnedStartup ==
  ASSUME IInv, Owned, Kept, Startup
  PROVE  Owned'
  <1> USE DEF events, resources, promises, cleaning, work, bounds
  <1>1. CASE ReconcileSandboxes
    BY <1>1, OwnedReconcileSandboxes
  <1>2. CASE ~ReconcileSandboxes
    <2>1. phase \notin {"live", "down"}
      BY <1>2 DEF Startup, RecoverCancellations, ReportMissing, RecoverDue, SealOrphan,
                  BlockStartup
    <2>2. \A a \in Attempts : pc[a] = "none" /\ sandbox[a] # "running"
      BY <2>1 DEF IInv, PromisesDieWithTheProcess, Owned, RunningIsOwned
    <2>3. UNCHANGED <<pc, sandbox, cleanup>> /\ claimed' \subseteq claimed
          /\ leased' \subseteq leased /\ leased \ leased' \subseteq Attempts
      BY <1>2 DEF Startup, RecoverCancellations, ReportMissing, RecoverDue, SealOrphan,
                  BlockStartup
    <2>4. \A a \in (claimed \ claimed') \cup (leased \ leased') : a \in Attempts
      BY <2>3 DEF IInv, Shapes
    <2> QED BY <2>1, <2>2, <2>3, <2>4, OwnedQuiet
  <1> QED BY <1>1, <1>2
-----------------------------------------------------------------------------
LEMMA InitOwned == Init => Owned
  <1> SUFFICES ASSUME Init PROVE Owned
    OBVIOUS
  <1>1. /\ sandbox = [a \in Attempts |-> "absent"] /\ pc = [a \in Attempts |-> "none"]
        /\ claimed = {} /\ cleanup = {}
    BY DEF Init
  <1> QED BY <1>1 DEF Owned, SandboxShape, WorkersOwn, NoEarlySandbox, RunningIsOwned,
                      ExecutingRuns, CleanupIsIdle, OneClaim

LEMMA NextOwned ==
  ASSUME "unstoppable" \notin Occurs, IInv, Owned, [Next]_vars
  PROVE  Owned'
  <1>0. Kept
    BY NextIInv
  <1>1. ASSUME NEW a \in Attempts, Runs(a) PROVE Owned'
    BY <1>0, <1>1, OwnedRuns
  <1>2. ASSUME NEW a \in Attempts, ReconcilePause(a) \/ CleanUp(a) \/ Sweep(a) PROVE Owned'
    BY <1>0, <1>2, OwnedReconcilePause, OwnedCleanUp, OwnedSweep
  <1>3. ASSUME NEW e, Decides(e) \/ FireTimer(e) PROVE Owned'
    BY <1>0, <1>3, OwnedDecides
  <1>4. CASE \/ KickDone \/ Request \/ ServeRequest \/ SubmitRequest \/ Pause \/ CancelTask
             \/ \E S \in SUBSET Subtasks : CancelSubtasks(S)
             \/ CleanupEnds \/ \E a \in Attempts : StopFails(a)
    BY <1>0, <1>4, OwnedUser
  <1>5. CASE CleanupStarts \/ Crash \/ Startup
    BY <1>0, <1>5, OwnedCleanupStarts, OwnedCrash, OwnedStartup
  <1>6. CASE UNCHANGED vars
    <2>1. UNCHANGED <<pc, sandbox, claimed, leased, phase, cleanup>>
      BY <1>6 DEF vars, resources, promises, cleaning
    <2> QED BY <1>0, <2>1, OwnedStill
  <1> QED BY <1>1, <1>2, <1>3, <1>4, <1>5, <1>6 DEF Next

\* Everything a running sandbox depends on, as one invariant.
THEOREM SandboxesAreOwned ==
  ASSUME "unstoppable" \notin Occurs
  PROVE  Spec => []Owned
  <1>1. IInv /\ Owned /\ [Next]_vars => Owned'
    BY NextOwned
  <1> QED BY <1>1, InitOwned, Inductive, PTL DEF Spec

\* docs/adr/0026, "no unproven claim or lease is released": while the sandbox of
\* an attempt runs, its leases are held, across every crash and cancellation.
THEOREM OwnershipIsHeld ==
  ASSUME "unstoppable" \notin Occurs
  PROVE  Spec => []OwnershipHeld
  <1>1. Owned => OwnershipHeld
    BY DEF Owned, RunningIsOwned, Owns, OwnershipHeld
  <1> QED BY <1>1, SandboxesAreOwned, PTL

\* Two sandboxes of one Subtask never run together: both attempts would hold a
\* claim, which the unique index on active claims forbids.
THEOREM SandboxesAreAlone ==
  ASSUME "unstoppable" \notin Occurs
  PROVE  Spec => []OneSandbox
  <1>1. Owned => OneSandbox
    BY DEF Owned, RunningIsOwned, Owns, OneClaim, OneSandbox
  <1> QED BY <1>1, SandboxesAreOwned, PTL
-----------------------------------------------------------------------------
(***************************************************************************)
(* The type invariant of AttemptExecution, and what it gives about the     *)
(* fences of a cancellation.  Items, receipts, promises and claims are     *)
(* typed above (Shapes); here is the rest.                                 *)
(***************************************************************************)
AnyEvents == EventRecords \cup {DispatchRequested}

WorkTyped == /\ task \in TaskStatus /\ subtask \in [Subtasks -> SubtaskStatus]
             /\ kind \in [Attempts -> Kinds] /\ candidates \subseteq Attempts
InboxTyped == inbox \in Seq(AnyEvents) /\ known \subseteq Ids \X Attempts
TimersTyped == timers \subseteq EventRecords /\ retryWait \in BOOLEAN
ResourcesTyped == /\ leased \subseteq Attempts /\ revoked \subseteq leased
                  /\ sandbox \in [Attempts -> {"absent", "running", "exited"}]

\* A promise that closes knows what it returns.
ResultTyped ==
  /\ result \in [Attempts -> {"none", "landed", "thrown", "stale", "capacity", "partition"}]
  /\ \A a \in Attempts : pc[a] \in {"closing", "marked"} => result[a] # "none"
CleaningTyped == tail \in {"off", "waiting", "cleaning"} /\ lost \subseteq Attempts
UserTyped == /\ phase \in {"live", "down", "reconciled", "cleaned", "recovering"}
             /\ asked \in {"no", "requested", "recovered", "served"}
             /\ pauses \in 0..MaxPauses /\ cancels \in 0..MaxCancels /\ crashes \in 0..MaxCrashes

Typed == /\ WorkTyped /\ InboxTyped /\ TimersTyped /\ ResourcesTyped /\ ResultTyped
         /\ CleaningTyped /\ UserTyped

USE DEF TaskStatus, SubtaskStatus, Kinds
-----------------------------------------------------------------------------
(* The inbox as a sequence. *)

LEMMA EventTypes ==
  /\ \A id \in Ids, a \in Attempts, says \in Reports : Event(id, a, says) \in EventRecords
  /\ DispatchRequested \in AnyEvents /\ EventRecords \subseteq AnyEvents
  /\ \A e \in AnyEvents : e.says # "dispatch" => e \in EventRecords
  BY DEF Event, EventRecords, AnyEvents, DispatchRequested

LEMMA SomeEventTypes ==
  ASSUME NEW a \in Attempts
  PROVE  /\ \A id \in {"outcome", "contract"}, says \in {"completed", "retryable", "domain", "stale", "paused", "contract"} :
               Event(id, a, says) \in EventRecords
         /\ Event("heartbeat", a, "retryable") \in EventRecords
         /\ Event("orphan", a, "orphan") \in EventRecords
         /\ Event("missing", a, "orphan") \in EventRecords
         /\ Event("capacity", a, "capacity") \in EventRecords
         /\ Event("partition", a, "partition") \in EventRecords
         /\ Event("sandbox_lost", a, "sandbox_lost") \in EventRecords
  BY EventTypes DEF Ids, Reports

LEMMA AppendedTyped ==
  ASSUME InboxTyped, NEW e \in AnyEvents
  PROVE  Appended(inbox, e) \in Seq(AnyEvents)
  BY DEF InboxTyped, Appended

LEMMA EnqueuedTyped ==
  ASSUME InboxTyped, NEW e \in EventRecords, Enqueued(e)
  PROVE  InboxTyped'
  <1>1. e \in AnyEvents /\ <<e.id, e.of>> \in Ids \X Attempts
    BY DEF AnyEvents, EventRecords
  <1>2. inbox' \in Seq(AnyEvents)
    BY <1>1, AppendedTyped DEF Enqueued
  <1>3. known' \subseteq Ids \X Attempts
    BY <1>1 DEF Enqueued, InboxTyped
  <1> QED BY <1>2, <1>3 DEF InboxTyped

LEMMA ReadableTyped ==
  ASSUME InboxTyped, NEW e \in Readable
  PROVE  e \in AnyEvents
  BY DEF InboxTyped, Readable

LEMMA MinIsIn ==
  ASSUME NEW I \in SUBSET Nat, I # {}
  PROVE  Min(I) \in I
  <1> DEFINE R == {p \in Nat \X Nat : p[1] < p[2]}
  <1>1. IsWellFoundedOn(R, Nat)
    BY NatLessThanWellFounded DEF OpToRel
  <1> HIDE DEF R
  <1>2. PICK x \in I : \A y \in I : <<y, x>> \notin R
    BY <1>1, WFMin
  <1>3. ASSUME NEW y \in I PROVE x <= y
    <2>1. x \in Nat /\ y \in Nat
      OBVIOUS
    <2>2. <<y, x>> \in Nat \X Nat /\ <<y, x>>[1] = y /\ <<y, x>>[2] = x
      BY <2>1
    <2> QED BY <1>2, <2>1, <2>2 DEF R
  <1> QED BY <1>3 DEF Min

LEMMA RemovedTyped ==
  ASSUME NEW S, NEW q \in Seq(S), NEW e
  PROVE  RemoveFirst(q, e) \in Seq(S)
  <1>1. ASSUME NEW i \in 1..Len(q) PROVE RemoveAt(q, i) \in Seq(S)
    <2>1. SubSeq(q, 1, i-1) \in Seq(S) /\ SubSeq(q, i+1, Len(q)) \in Seq(S)
      OBVIOUS
    <2> QED BY <2>1 DEF RemoveAt
  <1>2. CASE \E i \in 1..Len(q) : q[i] = e
    <2> DEFINE I == {i \in 1..Len(q) : q[i] = e}
    <2>1. RemoveFirst(q, e) = RemoveAt(q, IF I # {} THEN Min(I) ELSE 0)
      BY <1>2 DEF RemoveFirst, SelectInSeq
    <2>2. I # {} /\ I \in SUBSET Nat
      BY <1>2
    <2>3. Min(I) \in 1..Len(q)
      <3> HIDE DEF I
      <3>1. Min(I) \in I
        BY <2>2, MinIsIn
      <3> QED BY <3>1 DEF I
    <2>4. RemoveFirst(q, e) = RemoveAt(q, Min(I))
      BY <2>1, <2>2
    <2> HIDE DEF I
    <2> QED BY <1>1, <2>3, <2>4
  <1> QED BY <1>2 DEF RemoveFirst

LEMMA ReadsTyped ==
  ASSUME InboxTyped, NEW e, Reads(e)
  PROVE  InboxTyped'
  BY RemovedTyped DEF InboxTyped, Reads, Without
-----------------------------------------------------------------------------
(* The terminal commit. *)

LEMMA LandedTyped ==
  ASSUME WorkTyped, InboxTyped, NEW a \in Attempts,
         NEW state, NEW next \in SubtaskStatus, NEW id \in Outcomes,
         NEW says \in {"completed", "retryable", "domain", "stale", "paused", "contract"},
         NEW more \in Seq(EventRecords), Landed(a, state, next, id, says, more),
         UNCHANGED <<task, kind>>
  PROVE  WorkTyped' /\ InboxTyped'
  <1>1. Event(id, a, Reported(a, says)) \in EventRecords
    BY SomeEventTypes DEF Outcomes, Reported
  <1>2. Appended(inbox, Event(id, a, Reported(a, says))) \in Seq(AnyEvents)
    BY <1>1, AppendedTyped, EventTypes
  <1>3. more \in Seq(AnyEvents)
    BY EventTypes
  <1>4. inbox' \in Seq(AnyEvents)
    BY <1>2, <1>3 DEF Landed
  <1>5. \A i \in DOMAIN more : <<more[i].id, more[i].of>> \in Ids \X Attempts
    <2>1. \A i \in DOMAIN more : more[i] \in EventRecords
      OBVIOUS
    <2>2. \A e \in EventRecords : <<e.id, e.of>> \in Ids \X Attempts
      BY DEF EventRecords
    <2> QED BY <2>1, <2>2
  <1>6. known' \subseteq Ids \X Attempts
    <2>1. <<id, a>> \in Ids \X Attempts
      BY DEF Ids, Outcomes
    <2>2. {<<more[i].id, more[i].of>> : i \in DOMAIN more} \subseteq Ids \X Attempts
      BY <1>5
    <2>3. known \subseteq Ids \X Attempts
      BY DEF InboxTyped
    <2> QED BY <2>1, <2>2, <2>3 DEF Landed
  <1>7. subtask' \in [Subtasks -> SubtaskStatus] /\ candidates' \subseteq Attempts
    BY DEF Landed, WorkTyped
  <1> QED BY <1>4, <1>6, <1>7 DEF WorkTyped, InboxTyped

LEMMA RunLandsTyped ==
  ASSUME IInv, WorkTyped, InboxTyped, ResultTyped, NEW a \in Attempts,
         NEW state, NEW next \in SubtaskStatus, NEW id \in Outcomes,
         NEW says \in {"completed", "retryable", "domain", "stale", "paused", "contract"},
         RunLands(a, state, next, id, says), UNCHANGED <<task, kind>>
  PROVE  WorkTyped' /\ InboxTyped' /\ ResultTyped'
  <1>1. WorkTyped' /\ InboxTyped'
    <2>1. CASE LandThrows(a)
      BY <2>1 DEF RunLands, WorkTyped, InboxTyped
    <2>2. CASE ~LandThrows(a)
      <3>1. Landed(a, state, next, id, says, <<>>)
        BY <2>2 DEF RunLands
      <3>2. <<>> \in Seq(EventRecords)
        OBVIOUS
      <3> QED BY <3>1, <3>2, LandedTyped
    <2> QED BY <2>1, <2>2
  <1>2. PICK r \in {"thrown", "landed"} : result' = [result EXCEPT ![a] = r]
    BY DEF RunLands
  <1>3. pc' = [pc EXCEPT ![a] = "closing"]
    BY DEF RunLands
  <1>4. ResultTyped'
    BY <1>2, <1>3 DEF ResultTyped, IInv, Shapes
  <1> QED BY <1>1, <1>4
-----------------------------------------------------------------------------
(* One attempt. *)

LEMMA LaunchTyped ==
  ASSUME IInv, Typed, NEW a \in Attempts, KickLaunch(a) \/ StartRun(a)
  PROVE  Typed'
  <1> USE DEF events, resources, promises, cleaning, work, bounds, Typed
  <1>1. UNCHANGED <<subtask, kind, candidates, inbox, known, timers, leased, revoked, sandbox,
                    tail, lost, phase, asked, pauses, cancels, crashes>>
        /\ task' \in TaskStatus /\ retryWait' \in BOOLEAN
    BY DEF KickLaunch, StartRun, WorkTyped, TimersTyped
  <1>2. WorkTyped' /\ InboxTyped' /\ TimersTyped' /\ ResourcesTyped' /\ CleaningTyped' /\ UserTyped'
    BY <1>1 DEF WorkTyped, InboxTyped, TimersTyped, ResourcesTyped, CleaningTyped, UserTyped
  <1>3. ResultTyped'
    BY DEF KickLaunch, StartRun, ResultTyped, IInv, Shapes
  <1> QED BY <1>2, <1>3

LEMMA WorksTyped ==
  ASSUME IInv, Typed, NEW a \in Attempts,
         ClaimFails(a) \/ LeaseConflicts(a) \/ ClaimUnit(a) \/ Execute(a) \/ SandboxExits(a)
  PROVE  Typed'
  <1> USE DEF events, resources, promises, cleaning, work, bounds, Typed
  <1>1. UNCHANGED <<task, kind, candidates, inbox, known, timers, retryWait, revoked, tail, lost,
                    phase, asked, pauses, cancels, crashes>>
    BY DEF ClaimFails, LeaseConflicts, ClaimUnit, Execute, SandboxExits
  <1>2. InboxTyped' /\ TimersTyped' /\ CleaningTyped' /\ UserTyped'
    BY <1>1 DEF InboxTyped, TimersTyped, CleaningTyped, UserTyped
  <1>3. WorkTyped'
    BY <1>1 DEF ClaimFails, LeaseConflicts, ClaimUnit, Execute, SandboxExits, WorkTyped
  <1>4. ResourcesTyped'
    BY <1>1 DEF ClaimFails, LeaseConflicts, ClaimUnit, Execute, SandboxExits, ResourcesTyped
  <1>5. ResultTyped'
    BY DEF ClaimFails, LeaseConflicts, ClaimUnit, Execute, SandboxExits, ResultTyped, IInv, Shapes
  <1> QED BY <1>2, <1>3, <1>4, <1>5

LEMMA EndsTyped ==
  ASSUME IInv, Typed, NEW a \in Attempts, Ends(a) \/ LandSuccess(a)
  PROVE  Typed'
  <1> USE DEF events, resources, promises, cleaning, work, bounds, Typed
  <1>1. UNCHANGED <<task, kind, timers, retryWait, leased, revoked, sandbox, tail, lost, phase,
                    asked, pauses, cancels, crashes>>
    BY DEF Ends, PreparationFails, AbandonSandbox, ExecutorFails, BreaksContract,
           ExecutorSucceeds, LandSuccess
  <1>2. TimersTyped' /\ ResourcesTyped' /\ CleaningTyped' /\ UserTyped'
    BY <1>1 DEF TimersTyped, ResourcesTyped, CleaningTyped, UserTyped
  <1>3. WorkTyped' /\ InboxTyped' /\ ResultTyped'
    <2>1. CASE \E state, says, next, id :
                 /\ says \in {"completed", "retryable", "domain", "stale", "paused", "contract"}
                 /\ next \in SubtaskStatus /\ id \in Outcomes
                 /\ RunLands(a, state, next, id, says)
      BY <1>1, <2>1, RunLandsTyped
    <2>2. CASE pc' = [pc EXCEPT ![a] = "promoting"]
               /\ UNCHANGED <<receipt, subtask, candidates, item, inbox, known, result, claimed>>
      BY <1>1, <2>2 DEF WorkTyped, InboxTyped, ResultTyped, IInv, Shapes
    <2> QED BY <2>1, <2>2 DEF Ends, PreparationFails, AbandonSandbox, ExecutorFails,
                              BreaksContract, ExecutorSucceeds, LandSuccess, Outcomes
  <1> QED BY <1>2, <1>3

LEMMA LeavesTyped ==
  ASSUME IInv, Typed, NEW a \in Attempts, Close(a) \/ Settle(a)
  PROVE  Typed'
  <1> USE DEF events, resources, promises, cleaning, work, bounds, Typed
  <1>1. UNCHANGED <<task, subtask, kind, candidates, inbox, known, timers, retryWait, sandbox,
                    result, tail, lost, phase, asked, pauses, cancels, crashes>>
    BY DEF Close, Settle
  <1>2. WorkTyped' /\ InboxTyped' /\ TimersTyped' /\ CleaningTyped' /\ UserTyped'
    BY <1>1 DEF WorkTyped, InboxTyped, TimersTyped, CleaningTyped, UserTyped
  <1>3. ResourcesTyped'
    BY <1>1 DEF Close, Settle, ResourcesTyped
  <1>4. ResultTyped'
    BY <1>1 DEF Close, Settle, ResultTyped, IInv, Shapes
  <1> QED BY <1>2, <1>3, <1>4

LEMMA SubmitTyped ==
  ASSUME IInv, Typed, NEW a \in Attempts, Submit(a)
  PROVE  Typed'
  <1> USE DEF events, resources, promises, cleaning, work, bounds, Typed
  <1>1. UNCHANGED <<task, subtask, kind, candidates, timers, retryWait, leased, revoked, sandbox,
                    tail, lost, phase, asked, pauses, cancels, crashes>>
        /\ pc[a] = "marked" /\ result' = [result EXCEPT ![a] = "none"]
        /\ pc' = [pc EXCEPT ![a] = "submitting"]
    BY DEF Submit
  <1>2. InboxTyped'
    <2>1. result[a] \in {"landed", "thrown", "stale", "capacity", "partition"}
      BY <1>1 DEF ResultTyped
    <2>2. CASE result[a] = "landed"
      BY <2>2 DEF Submit, InboxTyped
    <2>3. CASE result[a] = "thrown"
      <3>1. Enqueued(Event("outcome", a, "retryable"))
        BY <2>3 DEF Submit
      <3> QED BY <3>1, SomeEventTypes, EnqueuedTyped
    <2>4. CASE result[a] = "stale"
      <3>1. Enqueued(Event("outcome", a, "stale"))
        BY <2>4 DEF Submit
      <3> QED BY <3>1, SomeEventTypes, EnqueuedTyped
    <2>5. CASE result[a] \in {"capacity", "partition"}
      <3>1. Enqueued(Event(result[a], a, result[a]))
        BY <2>5 DEF Submit
      <3>2. Event(result[a], a, result[a]) \in EventRecords
        BY <2>5, SomeEventTypes
      <3> QED BY <3>1, <3>2, EnqueuedTyped
    <2> QED BY <2>1, <2>2, <2>3, <2>4, <2>5
  <1>3. WorkTyped' /\ TimersTyped' /\ ResourcesTyped' /\ CleaningTyped' /\ UserTyped'
    BY <1>1 DEF WorkTyped, TimersTyped, ResourcesTyped, CleaningTyped, UserTyped
  <1>4. ResultTyped'
    BY <1>1 DEF ResultTyped, IInv, Shapes
  <1> QED BY <1>2, <1>3, <1>4
-----------------------------------------------------------------------------
(* What the kernel decides. *)

LEMMA DecidesTyped ==
  ASSUME IInv, Typed, NEW e \in Readable, Decides(e)
  PROVE  Typed'
  <1> USE DEF events, resources, promises, cleaning, work, bounds, Typed
  <1>1. UNCHANGED <<candidates, leased, revoked, sandbox, pc, result, tail, lost, phase, asked,
                    pauses, cancels, crashes>>
    BY DEF Decides, NoOp, BlockWork, WaitForRetry, FallBack, ParkForReplan, CorrectContract,
           Redispatch, WaitForResources, Advance, RecoverWorkspace, Ordered
  <1>2. kind' = kind \/ \E k \in Kinds : \E S : Inserted(S, k)
    BY Zenon DEF Decides, NoOp, BlockWork, WaitForRetry, FallBack, ParkForReplan, CorrectContract,
           Redispatch, WaitForResources, Advance, DispatchFrontier, RecoverWorkspace, Ordered
  <1>3. kind' \in [Attempts -> Kinds]
    BY <1>2 DEF Inserted, WorkTyped
  <1>4. task' \in TaskStatus
    BY DEF Decides, NoOp, BlockWork, WaitForRetry, FallBack, ParkForReplan, CorrectContract,
           Redispatch, WaitForResources, Advance, DispatchFrontier, RecoverWorkspace, Ordered,
           WorkTyped, Blocked
  <1>5. subtask' \in [Subtasks -> SubtaskStatus]
    BY DEF Decides, NoOp, BlockWork, WaitForRetry, FallBack, ParkForReplan, CorrectContract,
           Redispatch, WaitForResources, Advance, RecoverWorkspace, Ordered, WorkTyped
  <1>6. InboxTyped'
    <2>1. CASE Reads(e)
      BY <2>1, ReadsTyped
    <2>2. CASE RecoverWorkspace(e)
      <3>1. Without(e) \in Seq(AnyEvents)
        BY RemovedTyped DEF InboxTyped, Without
      <3> QED BY <2>2, <3>1, EventTypes DEF RecoverWorkspace, InboxTyped
    <2> QED BY <2>1, <2>2
            DEF Decides, NoOp, BlockWork, WaitForRetry, FallBack, ParkForReplan, CorrectContract,
                Redispatch, WaitForResources, Advance
  <1>7. TimersTyped'
    <2>1. CASE WaitForRetry(e)
      <3>1. e \in AnyEvents /\ e.says \in Failures
        BY <2>1, ReadableTyped DEF WaitForRetry, Judged
      <3>2. e \in EventRecords
        BY <3>1, EventTypes DEF Failures
      <3> QED BY <2>1, <3>2 DEF WaitForRetry, TimersTyped
    <2>2. CASE ~WaitForRetry(e)
      BY <2>2 DEF Decides, NoOp, BlockWork, FallBack, ParkForReplan, CorrectContract,
                  Redispatch, WaitForResources, Advance, RecoverWorkspace, Ordered, TimersTyped
    <2> QED BY <2>1, <2>2
  <1>8. ResourcesTyped' /\ ResultTyped' /\ CleaningTyped' /\ UserTyped'
    BY <1>1 DEF ResourcesTyped, ResultTyped, CleaningTyped, UserTyped
  <1> QED BY <1>1, <1>3, <1>4, <1>5, <1>6, <1>7, <1>8 DEF WorkTyped

LEMMA FireTimerTyped ==
  ASSUME IInv, Typed, NEW e, FireTimer(e)
  PROVE  Typed'
  <1> USE DEF events, resources, promises, cleaning, work, bounds, Typed
  <1>1. /\ UNCHANGED <<task, subtask, candidates, inbox, known, retryWait, leased, revoked,
                       sandbox, pc, result, tail, lost, phase, asked, pauses, cancels, crashes>>
        /\ timers' \subseteq timers
        /\ kind' = kind \/ \E S : Inserted(S, "continuation")
    BY DEF FireTimer
  <1>2. kind' \in [Attempts -> Kinds]
    BY <1>1 DEF Inserted, WorkTyped
  <1> QED BY <1>1, <1>2 DEF WorkTyped, InboxTyped, TimersTyped, ResourcesTyped, ResultTyped,
                            CleaningTyped, UserTyped
-----------------------------------------------------------------------------
(* The user, the cleanup of cancellations and the sweep. *)

LEMMA UserTypedSteps ==
  ASSUME IInv, Typed, KickDone \/ Request \/ ServeRequest \/ SubmitRequest \/ Pause
  PROVE  Typed'
  <1> USE BoundsAssumption
  <1> USE DEF events, resources, promises, cleaning, work, bounds, Typed
  <1>1. UNCHANGED <<kind, candidates, known, timers, leased, revoked, sandbox, pc, result, tail,
                    lost, phase, cancels, crashes>>
    BY DEF KickDone, Request, ServeRequest, SubmitRequest, Pause
  <1>2. ResourcesTyped' /\ ResultTyped' /\ CleaningTyped'
    BY <1>1 DEF ResourcesTyped, ResultTyped, CleaningTyped
  <1>3. WorkTyped' /\ TimersTyped'
    BY <1>1 DEF KickDone, Request, ServeRequest, SubmitRequest, Pause, WorkTyped, TimersTyped
  <1>4. InboxTyped'
    BY <1>1, EventTypes DEF KickDone, Request, ServeRequest, SubmitRequest, Pause, InboxTyped
  <1>5. UserTyped'
    BY <1>1 DEF KickDone, Request, ServeRequest, SubmitRequest, Pause, UserTyped
  <1> QED BY <1>2, <1>3, <1>4, <1>5

LEMMA CancelTyped ==
  ASSUME IInv, Typed, NEW S, NEW t \in TaskStatus, Cancel(S, t)
  PROVE  Typed'
  <1> USE BoundsAssumption
  <1> USE DEF events, resources, promises, cleaning, work, bounds, Typed
  <1>1. UNCHANGED <<kind, candidates, inbox, known, timers, retryWait, leased, sandbox, pc,
                    result, lost, phase, asked, pauses, crashes>>
        /\ cancels' = cancels + 1 /\ cancels < MaxCancels
        /\ revoked' = revoked \cup {a \in leased : Of(a) \in S}
    BY DEF Cancel
  <1>2. task' \in TaskStatus /\ subtask' \in [Subtasks -> SubtaskStatus]
        /\ tail' \in {"off", "waiting", "cleaning"}
    BY DEF Cancel, WorkTyped, CleaningTyped
  <1>3. WorkTyped' /\ InboxTyped' /\ TimersTyped' /\ ResultTyped'
    BY <1>1, <1>2 DEF WorkTyped, InboxTyped, TimersTyped, ResultTyped
  <1> QED BY <1>1, <1>2, <1>3 DEF ResourcesTyped, CleaningTyped, UserTyped

LEMMA CleanupTyped ==
  ASSUME IInv, Typed,
         CleanupStarts \/ CleanupEnds \/ \E a \in Attempts : CleanUp(a) \/ StopFails(a)
  PROVE  Typed'
  <1> USE DEF events, resources, promises, cleaning, work, bounds, Typed
  <1>1. UNCHANGED <<subtask, kind, candidates, inbox, known, timers, retryWait, pc, result, lost,
                    phase, asked, pauses, cancels, crashes>>
        /\ task' \in {task, "blocked"} /\ tail' \in {"off", "waiting", "cleaning"}
    BY DEF CleanupStarts, CleanupEnds, SettledTask, CleanUp, StopFails, CleaningTyped
  <1>2. ResourcesTyped'
    BY DEF CleanupStarts, CleanupEnds, CleanUp, CancellationSettled, StopFails, ResourcesTyped
  <1> QED BY <1>1, <1>2 DEF WorkTyped, InboxTyped, TimersTyped, ResultTyped, CleaningTyped,
                            UserTyped

LEMMA ReconcilePauseTyped ==
  ASSUME IInv, Typed, NEW a \in Attempts, ReconcilePause(a)
  PROVE  Typed'
  <1> USE DEF events, resources, promises, cleaning, work, bounds, Typed
  <1>1. UNCHANGED <<task, kind, timers, retryWait, sandbox, pc, result, tail, lost, phase, asked,
                    pauses, cancels, crashes>>
        /\ Landed(a, "failed", "ready", "outcome", "paused", <<>>)
        /\ leased' = leased \ {a} /\ revoked' = revoked \ {a}
    BY DEF ReconcilePause
  <1>2. <<>> \in Seq(EventRecords)
    OBVIOUS
  <1>3. WorkTyped' /\ InboxTyped'
    BY <1>1, <1>2, LandedTyped DEF Outcomes
  <1> QED BY <1>1, <1>3 DEF TimersTyped, ResourcesTyped, ResultTyped, CleaningTyped, UserTyped

LEMMA SweepTyped ==
  ASSUME IInv, Typed, NEW a \in Attempts, Sweep(a)
  PROVE  Typed'
  <1> USE DEF events, resources, promises, cleaning, work, bounds, Typed
  <1> DEFINE beat == Event("heartbeat", a, "retryable")
  <1>1. UNCHANGED <<task, kind, timers, retryWait, leased, revoked, sandbox, pc, result, tail,
                    lost, phase, asked, pauses, cancels, crashes>>
    BY DEF Sweep
  <1>2. beat \in EventRecords
    BY SomeEventTypes
  <1>3. \/ Landed(a, "heartbeat_lost", "awaiting_decision", "outcome", "retryable", <<beat>>)
        \/ Enqueued(beat) /\ UNCHANGED <<subtask, candidates>>
        \/ UNCHANGED <<subtask, candidates, inbox, known>>
    BY DEF Sweep
  <1> HIDE DEF beat
  <1>4. WorkTyped' /\ InboxTyped'
    <2>1. CASE Landed(a, "heartbeat_lost", "awaiting_decision", "outcome", "retryable", <<beat>>)
      <3>1. <<beat>> \in Seq(EventRecords)
        BY <1>2
      <3> QED BY <1>1, <2>1, <3>1, LandedTyped DEF Outcomes
    <2>2. CASE Enqueued(beat) /\ UNCHANGED <<subtask, candidates>>
      BY <1>1, <1>2, <2>2, EnqueuedTyped DEF WorkTyped
    <2>3. CASE UNCHANGED <<subtask, candidates, inbox, known>>
      BY <1>1, <2>3 DEF WorkTyped, InboxTyped
    <2> QED BY <1>3, <2>1, <2>2, <2>3
  <1> QED BY <1>1, <1>4 DEF TimersTyped, ResourcesTyped, ResultTyped, CleaningTyped, UserTyped
-----------------------------------------------------------------------------
(* Crash and startup. *)

LEMMA CrashTyped ==
  ASSUME IInv, Typed, Crash
  PROVE  Typed'
  <1> USE BoundsAssumption
  <1> USE DEF events, resources, promises, cleaning, work, bounds, Typed
  <1>1. UNCHANGED <<task, subtask, kind, candidates, inbox, known, timers, retryWait, leased,
                    revoked, sandbox, pauses, cancels>>
        /\ phase' = "down" /\ tail' = "off" /\ lost' = {} /\ asked' \in {asked, "no"}
        /\ crashes < MaxCrashes /\ crashes' = crashes + 1
        /\ pc' = [a \in Attempts |-> "none"] /\ result' = [a \in Attempts |-> "none"]
    BY DEF Crash
  <1> QED BY <1>1 DEF WorkTyped, InboxTyped, TimersTyped, ResourcesTyped, ResultTyped,
                      CleaningTyped, UserTyped

\* The reports of startup are events, in some order.
LEMMA OrderingsTyped ==
  ASSUME NEW mine \in SUBSET Attempts,
         NEW q \in Orderings({Event("sandbox_lost", a, "sandbox_lost") : a \in mine})
  PROVE  q \in Seq(AnyEvents)
  <1> DEFINE E == {Event("sandbox_lost", a, "sandbox_lost") : a \in mine}
  <1>1. IsFiniteSet(Attempts)
    <2>1. IsFiniteSet(1..MaxAttempts)
      BY BoundsAssumption, FS_Interval
    <2> QED BY <2>1, BoundsAssumption, FS_Product DEF Attempts
  <1>2. IsFiniteSet(E)
    <2>1. IsFiniteSet(mine)
      BY <1>1, FS_Subset
    <2> DEFINE f == [a \in mine |-> Event("sandbox_lost", a, "sandbox_lost")]
    <2>2. f \in Surjection(mine, E)
      BY DEF Surjection
    <2> HIDE DEF f, E
    <2> QED BY <2>1, <2>2, FS_Surjection
  <1>3. E \subseteq AnyEvents
    BY SomeEventTypes, EventTypes
  <1> HIDE DEF E
  <1>4. Cardinality(E) \in Nat
    BY <1>2, FS_CardinalityType
  <1>5. q \in [1..Cardinality(E) -> E]
    BY DEF Orderings, E
  <1> QED BY <1>3, <1>4, <1>5

LEMMA ReconcileSandboxesTyped ==
  ASSUME IInv, Typed, ReconcileSandboxes
  PROVE  Typed'
  <1> USE DEF events, resources, promises, cleaning, work, bounds, Typed
  <1>1. UNCHANGED <<task, subtask, kind, candidates, timers, retryWait, leased, revoked, pc,
                    result, tail, asked, pauses, cancels, crashes>>
        /\ phase' = "reconciled" /\ lost' \subseteq Attempts
        /\ sandbox' = [a \in Attempts |-> IF a \in Survived THEN "exited" ELSE sandbox[a]]
    BY DEF ReconcileSandboxes, Survived
  <1>2. PICK mine \in SUBSET Attempts :
           /\ \E q \in Orderings({Event("sandbox_lost", a, "sandbox_lost") : a \in mine}) :
                 inbox' = inbox \o q
           /\ known' = known \cup {<<"sandbox_lost", a>> : a \in mine}
    BY DEF ReconcileSandboxes, Survived
  <1>3. InboxTyped'
    <2>1. PICK q \in Orderings({Event("sandbox_lost", a, "sandbox_lost") : a \in mine}) :
             inbox' = inbox \o q
      BY <1>2
    <2>2. q \in Seq(AnyEvents)
      BY OrderingsTyped
    <2>3. inbox' \in Seq(AnyEvents)
      BY <2>1, <2>2 DEF InboxTyped
    <2>4. known' \subseteq Ids \X Attempts
      BY <1>2 DEF InboxTyped, Ids
    <2> QED BY <2>3, <2>4 DEF InboxTyped
  <1>4. ResourcesTyped'
    BY <1>1 DEF ResourcesTyped
  <1> QED BY <1>1, <1>3, <1>4 DEF WorkTyped, TimersTyped, ResultTyped, CleaningTyped, UserTyped

LEMMA SealOrphanTyped ==
  ASSUME IInv, Typed, NEW a \in Attempts, SealOrphan(a)
  PROVE  Typed'
  <1> USE DEF events, resources, promises, cleaning, work, bounds, Typed
  <1>1. UNCHANGED <<task, kind, timers, retryWait, sandbox, pc, result, tail, lost, asked, pauses,
                    cancels, crashes>>
        /\ phase' \in {"recovering", "cleaned"}
        /\ leased' = leased \ {a} /\ revoked' = revoked \ {a}
    BY DEF SealOrphan
  <1>2. PICK report \in {<<>>, <<Event("orphan", a, "orphan")>>} :
           \/ Landed(a, "heartbeat_lost", "awaiting_decision", "outcome", "retryable", report)
           \/ /\ inbox' = inbox \o report
              /\ known' = known \cup {<<report[i].id, report[i].of>> : i \in DOMAIN report}
              /\ UNCHANGED <<subtask, candidates>>
    BY DEF SealOrphan
  <1>3. report \in Seq(EventRecords)
    <2>1. Event("orphan", a, "orphan") \in EventRecords
      BY SomeEventTypes
    <2>2. <<>> \in Seq(EventRecords) /\ <<Event("orphan", a, "orphan")>> \in Seq(EventRecords)
      BY <2>1
    <2> QED BY <2>2
  <1>4. WorkTyped' /\ InboxTyped'
    <2>1. CASE Landed(a, "heartbeat_lost", "awaiting_decision", "outcome", "retryable", report)
      BY <1>1, <1>3, <2>1, LandedTyped DEF Outcomes
    <2>2. CASE /\ inbox' = inbox \o report
               /\ known' = known \cup {<<report[i].id, report[i].of>> : i \in DOMAIN report}
               /\ UNCHANGED <<subtask, candidates>>
      <3>1. WorkTyped'
        BY <1>1, <2>2 DEF WorkTyped
      <3>2. inbox' \in Seq(AnyEvents)
        BY <1>3, <2>2, EventTypes DEF InboxTyped
      <3>3. {<<report[i].id, report[i].of>> : i \in DOMAIN report} \subseteq Ids \X Attempts
        <4>1. \A i \in DOMAIN report : report[i] \in EventRecords
          BY <1>3
        <4>2. \A e \in EventRecords : <<e.id, e.of>> \in Ids \X Attempts
          BY DEF EventRecords
        <4> QED BY <4>1, <4>2
      <3> QED BY <2>2, <3>1, <3>2, <3>3 DEF InboxTyped
    <2> QED BY <1>2, <2>1, <2>2
  <1> QED BY <1>1, <1>4 DEF TimersTyped, ResourcesTyped, ResultTyped, CleaningTyped, UserTyped

LEMMA ReportMissingTyped ==
  ASSUME IInv, Typed, ReportMissing
  PROVE  Typed'
  <1> USE DEF events, resources, promises, cleaning, work, bounds, Typed
  <1>1. UNCHANGED <<task, subtask, kind, candidates, timers, retryWait, leased, revoked, sandbox,
                    pc, result, tail, lost, asked, pauses, cancels, crashes>>
        /\ phase' = "recovering"
    BY DEF ReportMissing
  <1>2. InboxTyped'
    <2>1. CASE UNCHANGED <<inbox, known>>
      BY <2>1 DEF InboxTyped
    <2>2. ASSUME NEW s \in Subtasks, Enqueued(Event("missing", <<s, 1>>, "orphan"))
          PROVE  InboxTyped'
      <3>1. <<s, 1>> \in Attempts
        BY BoundsAssumption DEF Attempts
      <3> QED BY <2>2, <3>1, SomeEventTypes, EnqueuedTyped
    <2> QED BY <2>1, <2>2 DEF ReportMissing
  <1> QED BY <1>1, <1>2 DEF WorkTyped, TimersTyped, ResourcesTyped, ResultTyped, CleaningTyped,
                            UserTyped

LEMMA StartupTyped ==
  ASSUME IInv, Typed, Startup
  PROVE  Typed'
  <1> USE DEF events, resources, promises, cleaning, work, bounds
  <1>1. CASE RecoverCancellations
    <2>1. UNCHANGED <<task, subtask, kind, candidates, inbox, known, timers, retryWait, sandbox,
                      pc, result, tail, lost, asked, pauses, cancels, crashes>>
          /\ phase' = "cleaned"
      BY <1>1 DEF RecoverCancellations
    <2>2. ResourcesTyped'
      BY <1>1 DEF RecoverCancellations, Typed, ResourcesTyped
    <2> QED BY <2>1, <2>2 DEF Typed, WorkTyped, InboxTyped, TimersTyped, ResultTyped,
                              CleaningTyped, UserTyped
  <1>2. CASE RecoverDue \/ \E a \in Attempts : BlockStartup(a)
    <2>1. UNCHANGED <<subtask, kind, candidates, inbox, known, timers, retryWait, leased, revoked,
                      sandbox, pc, result, tail, asked, pauses, cancels, crashes>>
          /\ phase' = "live" /\ lost' = {} /\ task' \in {task, "blocked"}
      BY <1>2 DEF RecoverDue, BlockStartup
    <2> QED BY <2>1 DEF Typed, WorkTyped, InboxTyped, TimersTyped, ResourcesTyped, ResultTyped,
                        CleaningTyped, UserTyped
  <1> QED BY <1>1, <1>2, ReconcileSandboxesTyped, SealOrphanTyped, ReportMissingTyped DEF Startup
-----------------------------------------------------------------------------
(* The type invariant. *)

LEMMA InitTyped == Init => Typed
  <1> SUFFICES ASSUME Init PROVE Typed
    OBVIOUS
  <1>1. WorkTyped /\ InboxTyped
    BY DEF Init, WorkTyped, InboxTyped
  <1>2. TimersTyped
    BY DEF Init, TimersTyped
  <1>3. ResourcesTyped /\ ResultTyped /\ CleaningTyped
    BY DEF Init, ResourcesTyped, ResultTyped, CleaningTyped
  <1>4. UserTyped
    BY BoundsAssumption DEF Init, UserTyped
  <1> QED BY <1>1, <1>2, <1>3, <1>4 DEF Typed

LEMMA NextTyped ==
  ASSUME IInv, Typed, [Next]_vars
  PROVE  Typed'
  <1>1. ASSUME NEW a \in Attempts, Runs(a) PROVE Typed'
    BY <1>1, LaunchTyped, WorksTyped, EndsTyped, LeavesTyped, SubmitTyped DEF Runs
  <1>2. ASSUME NEW a \in Attempts, ReconcilePause(a) \/ Sweep(a) PROVE Typed'
    BY <1>2, ReconcilePauseTyped, SweepTyped
  <1>3. CASE CleanupStarts \/ CleanupEnds \/ \E a \in Attempts : CleanUp(a) \/ StopFails(a)
    BY <1>3, CleanupTyped
  <1>4. ASSUME NEW e \in Readable, Decides(e) PROVE Typed'
    BY <1>4, DecidesTyped
  <1>5. ASSUME NEW e, FireTimer(e) PROVE Typed'
    BY <1>5, FireTimerTyped
  <1>6. CASE KickDone \/ Request \/ ServeRequest \/ SubmitRequest \/ Pause
    BY <1>6, UserTypedSteps
  <1>7. CASE CancelTask \/ \E S \in SUBSET Subtasks : CancelSubtasks(S)
    <2>1. task \in TaskStatus
      BY DEF Typed, WorkTyped
    <2> QED BY <1>7, <2>1, CancelTyped DEF CancelTask, CancelSubtasks
  <1>8. CASE Crash \/ Startup
    BY <1>8, CrashTyped, StartupTyped
  <1>9. CASE UNCHANGED vars
    BY <1>9 DEF vars, work, events, resources, promises, cleaning, bounds, Typed, WorkTyped,
                InboxTyped, TimersTyped, ResourcesTyped, ResultTyped, CleaningTyped, UserTyped
  <1> QED BY <1>1, <1>2, <1>3, <1>4, <1>5, <1>6, <1>7, <1>8, <1>9 DEF Next

\* The parts of the type invariant, inductive over the whole specification.
THEOREM TypeInductive == Spec => []Typed
  <1>1. IInv /\ Typed /\ [Next]_vars => Typed'
    BY NextTyped
  <1> QED BY <1>1, InitTyped, Inductive, PTL DEF Spec

\* Every variable keeps the values its column or field can hold.
THEOREM TypeCorrect == Spec => []TypeOK
  <1>1. ASSUME IInv, Typed PROVE TypeOK
    <2>1. \A i \in DOMAIN inbox : inbox[i] \in EventRecords \cup {DispatchRequested}
      BY <1>1 DEF Typed, InboxTyped, AnyEvents
    <2> QED BY <1>1, <2>1 DEF TypeOK, IInv, Shapes, Typed, WorkTyped, InboxTyped, TimersTyped,
                              ResourcesTyped, ResultTyped, CleaningTyped, UserTyped
  <1> QED BY <1>1, TypeInductive, Inductive, PTL
-------------------------------------------------------------------------------
(***************************************************************************)
(* The fences of AttemptTerminalService.land and of the kernel hold at     *)
(* every step: a cancelled Subtask stays cancelled but for the return of   *)
(* an awaited claim(), and no candidate is published after a cancellation  *)
(* or a pause.                                                             *)
(***************************************************************************)
StaysCancelled ==
  \A s \in Subtasks : (subtask[s] = "cancelled" /\ subtask'[s] # "cancelled") =>
     \E a \in Attempts : Of(a) = s /\ pc[a] = "claiming"

NewIsFenced ==
  \A a \in candidates' \ candidates :
     ~Fenced(Of(a)) /\ item[a] \notin {"cancelling", "cancelled"} /\ task # "parked"

Fences == StaysCancelled /\ NewIsFenced

LEMMA Unfenced ==
  ASSUME UNCHANGED <<subtask, candidates>>
  PROVE  Fences
  BY DEF Fences, StaysCancelled, NewIsFenced

LEMMA LandedFences ==
  ASSUME WorkTyped, NEW a \in Attempts, NEW state, NEW next, NEW id, NEW says, NEW more,
         Landed(a, state, next, id, says, more)
  PROVE  Fences
  <1>1. StaysCancelled
    BY DEF Landed, StaysCancelled, CancellationWon, Fenced, WorkTyped
  <1>2. NewIsFenced
    BY DEF Landed, NewIsFenced, CancellationWon, PauseWon
  <1> QED BY <1>1, <1>2 DEF Fences

LEMMA RunLandsFences ==
  ASSUME WorkTyped, NEW a \in Attempts, NEW state, NEW next, NEW id, NEW says,
         RunLands(a, state, next, id, says)
  PROVE  Fences
  BY Unfenced, LandedFences DEF RunLands

LEMMA RunsFences ==
  ASSUME WorkTyped, NEW a \in Attempts, Runs(a)
  PROVE  Fences
  <1> USE DEF events, resources, promises, cleaning, work, bounds
  <1>1. CASE ClaimUnit(a)
    BY <1>1 DEF ClaimUnit, WorkTyped, Fences, StaysCancelled, NewIsFenced
  <1>2. CASE Ends(a) \/ LandSuccess(a)
    <2>1. CASE \E state, next, id, says : RunLands(a, state, next, id, says)
      BY <2>1, RunLandsFences
    <2>2. CASE UNCHANGED <<subtask, candidates>>
      BY <2>2, Unfenced
    <2> QED BY <1>2, <2>1, <2>2 DEF Ends, PreparationFails, AbandonSandbox, ExecutorFails,
                                    BreaksContract, ExecutorSucceeds, LandSuccess
  <1>3. CASE \/ KickLaunch(a) \/ StartRun(a) \/ ClaimFails(a) \/ LeaseConflicts(a) \/ Execute(a)
             \/ SandboxExits(a) \/ Close(a) \/ Submit(a) \/ Settle(a)
    BY <1>3, Unfenced DEF KickLaunch, StartRun, ClaimFails, LeaseConflicts, Execute,
                          SandboxExits, Close, Submit, Settle
  <1> QED BY <1>1, <1>2, <1>3 DEF Runs

LEMMA DecidesFences ==
  ASSUME WorkTyped, NEW e, Decides(e) \/ FireTimer(e)
  PROVE  Fences
  <1> USE DEF events, resources, promises, cleaning, work, bounds
  <1>1. candidates' = candidates
    BY DEF Decides, NoOp, BlockWork, WaitForRetry, FallBack, ParkForReplan, CorrectContract,
           Redispatch, WaitForResources, Advance, RecoverWorkspace, Ordered, FireTimer
  <1>2. CASE BlockWork(e) \/ RecoverWorkspace(e)
    BY <1>1, <1>2 DEF BlockWork, RecoverWorkspace, WorkTyped, Fences, StaysCancelled, NewIsFenced
  <1>3. CASE ~BlockWork(e) /\ ~RecoverWorkspace(e)
    <2>1. subtask' = subtask
      BY <1>3 DEF Decides, NoOp, WaitForRetry, FallBack, ParkForReplan, CorrectContract,
                  Redispatch, WaitForResources, Advance, Ordered, FireTimer
    <2> QED BY <1>1, <2>1, Unfenced
  <1> QED BY <1>2, <1>3

LEMMA OthersFence ==
  ASSUME WorkTyped,
         \/ KickDone \/ Request \/ ServeRequest \/ SubmitRequest \/ Pause \/ CancelTask
         \/ \E S \in SUBSET Subtasks : CancelSubtasks(S)
         \/ CleanupStarts \/ CleanupEnds \/ \E a \in Attempts : CleanUp(a) \/ StopFails(a)
  PROVE  Fences
  <1> USE DEF events, resources, promises, cleaning, work, bounds
  <1>1. candidates' = candidates
    BY DEF KickDone, Request, ServeRequest, SubmitRequest, Pause, CancelTask, CancelSubtasks,
           Cancel, CleanupStarts, CleanupEnds, CleanUp, StopFails
  <1>2. \A s \in Subtasks : subtask[s] = "cancelled" => subtask'[s] = "cancelled"
    BY DEF KickDone, Request, ServeRequest, SubmitRequest, Pause, CancelTask, CancelSubtasks,
           Cancel, CleanupStarts, CleanupEnds, CleanUp, StopFails
  <1> QED BY <1>1, <1>2 DEF Fences, StaysCancelled, NewIsFenced

LEMMA RecoveryFences ==
  ASSUME WorkTyped,
         \/ Crash \/ Startup
         \/ \E a \in Attempts : ReconcilePause(a) \/ Sweep(a)
  PROVE  Fences
  <1> USE DEF events, resources, promises, cleaning, work, bounds
  <1>1. CASE \E a \in Attempts : \E state, next, id, says, more :
                Landed(a, state, next, id, says, more)
    BY <1>1, LandedFences
  <1>2. CASE UNCHANGED <<subtask, candidates>>
    BY <1>2, Unfenced
  <1> QED BY <1>1, <1>2 DEF Crash, Startup, ReconcileSandboxes, RecoverCancellations, SealOrphan,
                            BlockStartup, ReportMissing, RecoverDue, ReconcilePause, Sweep

LEMMA NextFences ==
  ASSUME Typed, [Next]_vars
  PROVE  Fences
  <1>0. WorkTyped
    BY DEF Typed
  <1>1. CASE UNCHANGED vars
    BY <1>1, Unfenced DEF vars, work
  <1> QED BY <1>0, <1>1, RunsFences, DecidesFences, OthersFence, RecoveryFences DEF Next

\* tests/execution/subtask-attempt-runner.test.ts, "does not resurrect a cancelled
\* Subtask": the only step that takes a Subtask out of cancelled is the return of
\* an awaited claim().
THEOREM CancelledSubtasksStay == Spec => CancelledStaysCancelled
  <1>1. ASSUME Typed, [Next]_vars
        PROVE  [\A s \in Subtasks : (subtask[s] = "cancelled" /\ subtask'[s] # "cancelled") =>
                   \E a \in Attempts : Of(a) = s /\ pc[a] = "claiming"]_vars
    BY <1>1, NextFences DEF Fences, StaysCancelled
  <1> QED BY <1>1, TypeInductive, PTL DEF Spec, CancelledStaysCancelled

\* No candidate enters the publication queue for an attempt whose Task or Subtask
\* was cancelled or whose Task was paused while its promotion was awaited.
THEOREM CandidatesAreFenced == Spec => NothingAfterCancellation
  <1>1. ASSUME Typed, [Next]_vars
        PROVE  [\A a \in candidates' \ candidates :
                   ~Fenced(Of(a)) /\ item[a] \notin {"cancelling", "cancelled"}
                   /\ task # "parked"]_vars
    BY <1>1, NextFences DEF Fences, NewIsFenced
  <1> QED BY <1>1, TypeInductive, PTL DEF Spec, NothingAfterCancellation
-------------------------------------------------------------------------------
(***************************************************************************)
(* The store implements AttemptRecord.  What is needed beyond the above:   *)
(* whose sandbox was created has been started; an attempt at work without  *)
(* an outcome is still running, or is being cancelled; and a claim is      *)
(* given back before its item ends without an outcome.                     *)
(***************************************************************************)
Working == {"claiming", "preparing", "executing", "collecting", "promoting", "closing"}

SandboxedHaveStarted == \A a \in Attempts : sandbox[a] # "absent" => Started(a)
WorkIsRunning ==
  \A a \in Attempts : pc[a] \in Working /\ receipt[a] = "none" =>
     item[a] \in {"running", "cancelling", "cancelled"}
ClaimsAreUnended == \A a \in claimed : receipt[a] = "none" => item[a] # "terminal"
ClosingIsAccounted ==
  \A a \in Attempts :
     pc[a] = "claiming" \/ (pc[a] = "closing" /\ receipt[a] = "none" /\ result[a] # "thrown") =>
        a \notin claimed

Recordable == /\ SandboxedHaveStarted /\ WorkIsRunning
              /\ ClaimsAreUnended /\ ClosingIsAccounted

\* All that is known before a step, and of it.
Known == /\ IInv /\ Typed /\ Recordable
         /\ Kept

Recorded == Recordable' /\ [Record!Next]_(Record!record)

\* What a step may do to one attempt.
ItemTurns(a) ==
  \/ item'[a] = item[a]
  \/ ~Started(a) /\ item'[a] # "terminal"
  \/ item'[a] \in {"cancelling", "cancelled"}
  \/ item'[a] = "uncertain" /\ pc'[a] \notin Working
  \/ item'[a] = "terminal" /\ pc'[a] \notin Working /\ a \notin claimed'
OutcomeTurns(a) == receipt'[a] # "none" \/ (receipt[a] = "none" /\ ItemTurns(a))
ClaimTurns(a) ==
  a \in claimed' => a \in claimed \/ (pc[a] \in Working /\ pc'[a] \notin {"claiming", "closing"})
PromiseTurns(a) ==
  /\ pc'[a] \in Working => pc[a] \in Working \/ item'[a] = "running"
  /\ pc'[a] = "claiming" => pc[a] = "claiming" \/ a \notin claimed'
  /\ pc'[a] = "closing" /\ result'[a] # "thrown" /\ receipt'[a] = "none" =>
        \/ pc[a] = "claiming" \/ a \notin claimed'
        \/ pc[a] = "closing" /\ result[a] # "thrown"

LEMMA RecordableTurn ==
  ASSUME Known,
         \A a \in Attempts : sandbox'[a] = "absent" \/ sandbox[a] # "absent" \/ Started(a),
         \A a \in Attempts : OutcomeTurns(a) /\ ClaimTurns(a) /\ PromiseTurns(a)
  PROVE  Recordable'
  <1>0. /\ \A a \in Attempts : Started(a) => Started(a)'
        /\ claimed \subseteq Attempts /\ claimed' \subseteq Attempts
    BY DEF Known, Kept, IInv, Shapes
  <1>1. \A a \in Attempts : pc[a] \in Working \/ a \in claimed => Started(a)
    BY DEF Known, IInv, OwnersHaveStarted, Working
  <1>2. SandboxedHaveStarted'
    BY <1>0 DEF Known, Recordable, SandboxedHaveStarted
  <1>3. WorkIsRunning'
    <2> SUFFICES ASSUME NEW a \in Attempts, pc'[a] \in Working, receipt'[a] = "none"
                 PROVE  item'[a] \in {"running", "cancelling", "cancelled"}
      BY DEF WorkIsRunning
    <2>1. CASE item'[a] = "running"
      BY <2>1
    <2>2. CASE pc[a] \in Working
      <3>1. item[a] \in {"running", "cancelling", "cancelled"} /\ Started(a)
        BY <1>1, <2>2 DEF Known, Recordable, WorkIsRunning, OutcomeTurns
      <3> QED BY <3>1 DEF OutcomeTurns, ItemTurns
    <2> QED BY <2>1, <2>2 DEF PromiseTurns
  <1>4. ClaimsAreUnended'
    <2> SUFFICES ASSUME NEW a \in claimed', receipt'[a] = "none"
                 PROVE  item'[a] # "terminal"
      BY DEF ClaimsAreUnended
    <2>1. a \in Attempts
      BY <1>0
    <2>2. receipt[a] = "none" /\ ItemTurns(a)
      BY <2>1 DEF OutcomeTurns
    <2>3. Started(a) /\ item[a] # "terminal"
      BY <1>1, <2>1, <2>2 DEF ClaimTurns, Known, Recordable, ClaimsAreUnended, WorkIsRunning
    <2> QED BY <2>2, <2>3 DEF ItemTurns
  <1>5. ClosingIsAccounted'
    BY DEF ClosingIsAccounted, ClaimTurns, PromiseTurns, OutcomeTurns, Known, Recordable
  <1> QED BY <1>2, <1>3, <1>4, <1>5 DEF Recordable
-----------------------------------------------------------------------------
(* Steps the record does not show. *)

LEMMA Unrecorded ==
  ASSUME \A a \in Attempts : StageOf(a)' = StageOf(a), UNCHANGED <<receipt, candidates>>
  PROVE  [Record!Next]_(Record!record)
  <1>1. [a \in Attempts |-> StageOf(a)]' = [a \in Attempts |-> StageOf(a)]
    OBVIOUS
  <1> QED BY <1>1 DEF Record!record

\* Only the promise of an attempt, its sandbox and its claim move.
LEMMA WorkTurn ==
  ASSUME Known, UNCHANGED <<item, receipt, candidates>>,
         \A a \in Attempts : sandbox'[a] = "absent" \/ sandbox[a] # "absent" \/ Started(a),
         \A a \in Attempts : ClaimTurns(a) /\ PromiseTurns(a)
  PROVE  Recorded
  <1>1. \A a \in Attempts : OutcomeTurns(a)
    BY DEF OutcomeTurns, ItemTurns
  <1>2. \A a \in Attempts : StageOf(a)' = StageOf(a)
    BY DEF StageOf
  <1> QED BY <1>1, <1>2, RecordableTurn, Unrecorded DEF Recorded

LEMMA RestingTurn ==
  ASSUME Known, UNCHANGED <<item, receipt, candidates, sandbox, pc, result>>, claimed' \subseteq claimed
  PROVE  Recorded
  <1>1. \A a \in Attempts : ClaimTurns(a) /\ PromiseTurns(a)
    BY DEF ClaimTurns, PromiseTurns
  <1> QED BY <1>1, WorkTurn

\* Only items move, and no attempt that was started ends.
LEMMA ItemTurn ==
  ASSUME Known, UNCHANGED <<receipt, candidates, sandbox, pc, result>>, claimed' \subseteq claimed,
         \A a \in Attempts : \/ item'[a] = item[a]
                             \/ ~Started(a) /\ item'[a] # "terminal"
                             \/ item'[a] \in {"cancelling", "cancelled"}
  PROVE  Recordable'
  <1>1. \A a \in Attempts : OutcomeTurns(a) /\ ClaimTurns(a) /\ PromiseTurns(a)
    BY DEF OutcomeTurns, ItemTurns, ClaimTurns, PromiseTurns
  <1> QED BY <1>1, RecordableTurn
-----------------------------------------------------------------------------
(* Orders and withdrawals. *)

LEMMA StageIs ==
  ASSUME Known
  PROVE  /\ \A a \in Attempts : item[a] \in ItemStatus /\ item'[a] \in ItemStatus
         /\ \A a \in Attempts : StageOf(a) \in Record!Stages
  BY DEF Known, Kept, IInv, Shapes, StageOf, ItemStatus, Record!Stages

LEMMA InsertedRecorded ==
  ASSUME Known, NEW S, NEW k, \A s \in S : MayGrow(s), Inserted(S, k),
         UNCHANGED <<receipt, candidates, sandbox, pc, result, claimed>>
  PROVE  Recorded
  <1> DEFINE batch == {NextOf(s) : s \in {t \in S : \A u \in S : CanInsert(u)}}
  <1>1. ASSUME NEW a \in batch
        PROVE  /\ a \in Attempts /\ IsNext(a) /\ CanInsert(Of(a))
    <2>1. PICK s \in S : a = NextOf(s) /\ CanInsert(s)
      OBVIOUS
    <2>2. a \in Attempts /\ Of(a) = s /\ IsNext(a)
      BY <2>1 DEF MayGrow, NextOf
    <2> QED BY <2>1, <2>2
  <1>2. item' = [a \in Attempts |-> IF a \in batch THEN "pending_launch" ELSE item[a]]
    BY DEF Inserted
  <1> HIDE DEF batch
  <1>3. Recordable'
    <2>1. ASSUME NEW a \in Attempts
          PROVE  item'[a] = item[a] \/ (~Started(a) /\ item'[a] # "terminal")
      <3>1. CASE a \in batch
        <4>1. item[a] = "absent"
          BY <1>1, <3>1 DEF IsNext
        <4> QED BY <1>2, <3>1, <4>1 DEF Started
      <3>2. CASE a \notin batch
        BY <1>2, <3>2
      <3> QED BY <3>1, <3>2
    <2> QED BY <2>1, ItemTurn
  <1>4. Record!Order(batch)
    <2>1. ASSUME NEW a \in batch PROVE Record!IsNext(a)
      <3>1. a \in Attempts /\ StageOf(a) = "absent"
        BY <1>1 DEF IsNext, StageOf
      <3>2. ASSUME NEW b \in Attempts, b[1] = a[1]
            PROVE  StageOf(b) \notin Record!Holding /\ (b[2] < a[2] => StageOf(b) # "absent")
        <4>1. item[b] \notin Open /\ (b[2] < a[2] => item[b] # "absent")
          BY <1>1, <3>2 DEF IsNext, CanInsert, Of
        <4> QED BY <4>1 DEF StageOf, Open, Record!Holding
      <3> QED BY <3>1, <3>2 DEF Record!IsNext, Record!Of, Record!Attempts, Attempts
    <2>2. \A a \in Attempts : StageOf(a)' = IF a \in batch THEN "ordered" ELSE StageOf(a)
      BY <1>2 DEF StageOf
    <2> QED BY <2>1, <2>2 DEF Record!Order, Record!Moved, Record!Attempts, Attempts
  <1>5. batch \in SUBSET Record!Attempts
    BY <1>1 DEF Record!Attempts, Attempts
  <1> QED BY <1>3, <1>4, <1>5 DEF Recorded, Record!Next

LEMMA RelaunchRecorded ==
  ASSUME Known, item' = [a \in Attempts |-> Relaunchable(item[a])],
         UNCHANGED <<receipt, candidates, sandbox, pc, result, claimed>>
  PROVE  Recorded
  <1>1. \A a \in Attempts : \/ item'[a] = item[a]
                            \/ item[a] = "launching" /\ item'[a] = "pending_launch"
    <2> TAKE a \in Attempts
    <2>1. item'[a] = Relaunchable(item[a])
      OBVIOUS
    <2> QED BY <2>1 DEF Relaunchable
  <1>2. \A a \in Attempts : StageOf(a)' = StageOf(a)
    BY <1>1 DEF StageOf
  <1>3. Recordable'
    BY <1>1, ItemTurn DEF Started
  <1> QED BY <1>2, <1>3, Unrecorded DEF Recorded

LEMMA CancelRecorded ==
  ASSUME Known, NEW S, NEW t, Cancel(S, t)
  PROVE  Recorded
  <1> USE DEF events, resources, promises, cleaning, work, bounds
  <1> DEFINE A == {a \in Attempts : Of(a) \in S /\ item[a] = "pending_launch"}
             B == {a \in Attempts : Of(a) \in S /\ item[a] \in {"launching", "running", "uncertain"}}
  <1>1. item' = CancellationRequested(S) /\ MayRequest(S)
        /\ UNCHANGED <<receipt, candidates, sandbox, pc, result, claimed>>
    BY DEF Cancel
  <1>2. \A a \in Attempts : /\ a \in A => item'[a] = "cancelled"
                            /\ a \in B => item'[a] = "cancelling"
                            /\ a \notin A \cup B => item'[a] = item[a]
    BY <1>1, Zenon DEF CancellationRequested
  <1>3. Recordable'
    BY <1>1, <1>2, ItemTurn
  <1>4. \A a \in Attempts : /\ a \in A => StageOf(a) = "ordered"
                            /\ a \in B => StageOf(a) \in {"ordered", "started", "doubtful"}
                            /\ StageOf(a)' = IF a \in A THEN "withdrawn"
                                             ELSE IF a \in B THEN "withdrawing" ELSE StageOf(a)
    BY <1>2 DEF StageOf
  <1>5. ASSUME NEW b \in B, NEW a \in Attempts, Of(a) = Of(b), StageOf(a)' \in Record!Holding
        PROVE  a = b
    <2>1. a \notin A
      BY <1>4, <1>5 DEF Record!Holding
    <2>2. item[a] \in Owning
      <3>1. Of(a) \in S /\ item[a] # "pending_launch"
        BY <1>5, <2>1
      <3>2. CASE a \in B
        BY <3>2 DEF Owning
      <3>3. CASE a \notin B
        <4>1. item[a] \in ItemStatus
          BY StageIs
        <4> QED BY <1>4, <1>5, <2>1, <3>1, <3>3, <4>1 DEF StageOf, Record!Holding, ItemStatus, Owning
      <3> QED BY <3>2, <3>3
    <2> QED BY <1>1, <1>5, <2>2 DEF MayRequest, Owning
  <1> HIDE DEF A, B
  <1>6. A \in SUBSET Record!Attempts /\ B \in SUBSET Record!Attempts
    BY DEF A, B, Record!Attempts, Attempts
  <1>7. Record!Withdraw(A, B)
    BY <1>1, <1>4, <1>5, <1>6 DEF Record!Withdraw, Record!Attempts, Attempts, Record!Of, Of
  <1> QED BY <1>3, <1>6, <1>7 DEF Recorded, Record!Next

\* Items that were cancelling are cancelled.
LEMMA CleanedRecorded ==
  ASSUME Known, NEW A \in SUBSET Attempts, \A a \in A : item[a] = "cancelling",
         item' = [a \in Attempts |-> IF a \in A THEN "cancelled" ELSE item[a]],
         UNCHANGED <<receipt, candidates, pc, result, claimed>>,
         \A a \in Attempts : sandbox'[a] = "absent" \/ sandbox[a] # "absent"
  PROVE  Recorded
  <1>1. \A a \in Attempts : item'[a] = item[a] \/ item'[a] = "cancelled"
    OBVIOUS
  <1>2. Recordable'
    BY <1>1, RecordableTurn DEF OutcomeTurns, ItemTurns, ClaimTurns, PromiseTurns
  <1>3. \A a \in Attempts : /\ a \in A => StageOf(a) = "withdrawing"
                            /\ StageOf(a)' = IF a \in A THEN "withdrawn" ELSE StageOf(a)
    BY DEF StageOf
  <1>4. Record!CleanedUp(A)
    BY <1>3 DEF Record!CleanedUp, Record!Moved, Record!Attempts, Attempts
  <1>5. A \in SUBSET Record!Attempts
    BY DEF Record!Attempts, Attempts
  <1> QED BY <1>2, <1>4, <1>5 DEF Recorded, Record!Next
-----------------------------------------------------------------------------
(* Outcomes. *)

LEMMA LandedSeals ==
  ASSUME Known, NEW a \in Attempts, Started(a), receipt[a] = "none", item[a] # "terminal",
         NEW state \in Record!Results, NEW next, NEW id, NEW says, NEW more,
         state = "completed" => item[a] # "uncertain",
         Landed(a, state, next, id, says, more)
  PROVE  /\ [Record!Next]_(Record!record)
         /\ receipt'[a] # "none" /\ \A b \in Attempts \ {a} : receipt'[b] = receipt[b] /\ item'[b] = item[b]
  <1>0. receipt \in [Attempts -> TerminalState] /\ item \in [Attempts -> ItemStatus]
    BY DEF Known, IInv, Shapes
  <1>1. PICK sealed \in Record!Results :
           /\ receipt' = [receipt EXCEPT ![a] = sealed]
           /\ sealed = IF PauseWon(a) THEN "task_paused" ELSE state
    BY DEF Landed, Record!Results
  <1>2. sealed # "none"
    BY DEF Record!Results
  <1>3. item' = [item EXCEPT ![a] = Terminal(item[a])]
    BY DEF Landed
  <1>4. CASE item[a] \in {"running", "uncertain"}
    <2>1. StageOf(a) = (IF item[a] = "running" THEN "started" ELSE "doubtful")
          /\ item'[a] = "terminal"
      BY <1>0, <1>3, <1>4 DEF StageOf, Terminal
    <2>2. \A b \in Attempts : StageOf(b)' = IF b \in {a} THEN "ended" ELSE StageOf(b)
      BY <1>0, <1>3, <2>1 DEF StageOf
    <2>3. \/ candidates' = candidates
          \/ /\ StageOf(a) = "started" /\ sealed = "completed" /\ candidates' = candidates \cup {a}
      BY <1>1, <1>4, <2>1 DEF Landed
    <2>4. Record!Seal(a, sealed)
      <3>1. [b \in Attempts |-> StageOf(b)]'
              = [b \in Attempts |-> IF b \in {a} THEN "ended" ELSE [c \in Attempts |-> StageOf(c)][b]]
        BY <2>2
      <3> QED BY <1>1, <1>2, <2>1, <2>3, <3>1 DEF Record!Seal, Record!Moved, Record!Attempts, Attempts
    <2> QED BY <1>0, <1>1, <1>2, <1>3, <2>4 DEF Record!Next, Record!Attempts, Attempts
  <1>5. CASE item[a] \in {"cancelling", "cancelled"}
    <2>1. StageOf(a) \in {"withdrawing", "withdrawn"} /\ item'[a] = "cancelled"
      BY <1>0, <1>3, <1>5 DEF StageOf, Terminal
    <2>2. \A b \in Attempts : StageOf(b)' = IF b \in {a} THEN "withdrawn" ELSE StageOf(b)
      BY <1>0, <1>3, <2>1 DEF StageOf
    <2>3. candidates' = candidates
      BY <1>5 DEF Landed, CancellationWon
    <2>4. Record!Seal(a, sealed)
      <3>1. [b \in Attempts |-> StageOf(b)]'
              = [b \in Attempts |-> IF b \in {a} THEN "withdrawn" ELSE [c \in Attempts |-> StageOf(c)][b]]
        BY <2>2
      <3> QED BY <1>1, <1>2, <2>1, <2>3, <3>1 DEF Record!Seal, Record!Moved, Record!Attempts, Attempts
    <2> QED BY <1>0, <1>1, <1>2, <1>3, <2>4 DEF Record!Next, Record!Attempts, Attempts
  <1> QED BY <1>0, <1>4, <1>5 DEF Started, ItemStatus

\* A sweep, a resume or a startup lands for an attempt.
LEMMA LandedRecorded ==
  ASSUME Known, NEW a \in Attempts, Started(a), receipt[a] = "none", item[a] # "terminal",
         NEW state \in Record!Results \ {"completed"}, NEW next, NEW id, NEW says, NEW more,
         Landed(a, state, next, id, says, more),
         UNCHANGED <<sandbox, pc, result>>, claimed' \subseteq claimed
  PROVE  Recorded
  <1>1. /\ [Record!Next]_(Record!record)
        /\ receipt'[a] # "none" /\ \A b \in Attempts \ {a} : receipt'[b] = receipt[b] /\ item'[b] = item[b]
    BY LandedSeals
  <1>2. \A b \in Attempts : OutcomeTurns(b) /\ ClaimTurns(b) /\ PromiseTurns(b)
    BY <1>1 DEF OutcomeTurns, ItemTurns, ClaimTurns, PromiseTurns
  <1> QED BY <1>1, <1>2, RecordableTurn DEF Recorded

\* The runner lands, or throws.
LEMMA RunLandsRecorded ==
  ASSUME Known, NEW a \in Attempts, pc[a] \in Working,
         NEW state \in Record!Results, NEW next, NEW id, NEW says,
         RunLands(a, state, next, id, says), UNCHANGED sandbox
  PROVE  Recorded
  <1>0. /\ pc \in [Attempts -> Stations] /\ DOMAIN result = Attempts
        /\ pc' = [pc EXCEPT ![a] = "closing"] /\ claimed' \subseteq claimed
    BY DEF Known, IInv, Shapes, Typed, ResultTyped, RunLands
  <1>1. Started(a)
    BY DEF Known, IInv, OwnersHaveStarted, Working
  <1>2. CASE LandThrows(a)
    <2>1. /\ UNCHANGED <<receipt, candidates, item>>
          /\ result' = [result EXCEPT ![a] = IF receipt[a] = "none" THEN "thrown" ELSE "landed"]
      BY <1>2 DEF RunLands
    <2>2. \A b \in Attempts : ClaimTurns(b) /\ PromiseTurns(b)
      BY <1>0, <2>1 DEF ClaimTurns, PromiseTurns, Working
    <2> QED BY <2>1, <2>2, WorkTurn
  <1>3. CASE ~LandThrows(a)
    <2>1. Landed(a, state, next, id, says, <<>>) /\ receipt[a] = "none"
      BY <1>3 DEF RunLands, LandThrows
    <2>2. item[a] \in {"running", "cancelling", "cancelled"}
      BY <2>1 DEF Known, Recordable, WorkIsRunning
    <2>3. /\ [Record!Next]_(Record!record)
          /\ receipt'[a] # "none"
          /\ \A b \in Attempts \ {a} : receipt'[b] = receipt[b] /\ item'[b] = item[b]
      BY <1>1, <2>1, <2>2, LandedSeals
    <2>4. \A b \in Attempts \ {a} : pc'[b] = pc[b] /\ result'[b] = result[b]
      BY <1>0 DEF RunLands
    <2>5. \A b \in Attempts : OutcomeTurns(b) /\ ClaimTurns(b) /\ PromiseTurns(b)
      BY <1>0, <2>3, <2>4 DEF OutcomeTurns, ItemTurns, ClaimTurns, PromiseTurns, Working
    <2> QED BY <2>3, <2>5, RecordableTurn DEF Recorded
  <1> QED BY <1>2, <1>3
-----------------------------------------------------------------------------
(* One attempt: its launch, its work, its end. *)

LEMMA LaunchRecorded ==
  ASSUME Known, NEW a \in Attempts, KickLaunch(a) \/ StartRun(a)
  PROVE  Recorded
  <1> USE DEF events, resources, promises, cleaning, work, bounds
  <1>0. /\ item \in [Attempts -> ItemStatus] /\ pc \in [Attempts -> Stations]
        /\ DOMAIN result = Attempts
    BY DEF Known, IInv, Shapes, Typed, ResultTyped
  <1>1. CASE KickLaunch(a)
    <2>1. /\ item' = [item EXCEPT ![a] = "launching"] /\ pc' = [pc EXCEPT ![a] = "launching"]
          /\ item[a] = "pending_launch"
          /\ UNCHANGED <<receipt, candidates, claimed, sandbox, result>>
      BY <1>1 DEF KickLaunch, Launchable
    <2>2. \A b \in Attempts : OutcomeTurns(b) /\ ClaimTurns(b) /\ PromiseTurns(b)
      BY <1>0, <2>1 DEF OutcomeTurns, ItemTurns, ClaimTurns, PromiseTurns, Started, Working
    <2>3. \A b \in Attempts : StageOf(b)' = StageOf(b)
      BY <1>0, <2>1 DEF StageOf
    <2> QED BY <2>1, <2>2, <2>3, RecordableTurn, Unrecorded DEF Recorded
  <1>2. CASE StartRun(a)
    <2>1. /\ item' = [item EXCEPT ![a] = "running"]
          /\ UNCHANGED <<receipt, candidates, claimed, sandbox>>
          /\ \/ pc' = [pc EXCEPT ![a] = "claiming"] /\ UNCHANGED result
             \/ pc' = [pc EXCEPT ![a] = "closing"] /\ result' = [result EXCEPT ![a] = "stale"]
      BY <1>2 DEF StartRun
    <2>2. item[a] = "launching" /\ a \notin claimed
      BY <1>2 DEF StartRun, Known, IInv, KickIsOneTurn, OwnersHaveStarted, Started
    <2>3. \A b \in Attempts : OutcomeTurns(b)
      <3>1. receipt[a] = "none"
        BY <2>2 DEF Known, IInv, OutcomeIsAtomic, Ended
      <3> QED BY <1>0, <2>1, <2>2, <3>1 DEF OutcomeTurns, ItemTurns, Started
    <2>4. \A b \in Attempts : ClaimTurns(b) /\ PromiseTurns(b)
      BY <1>0, <2>1, <2>2 DEF ClaimTurns, PromiseTurns, Working
    <2>5. \A b \in Attempts : StageOf(b)' = IF b \in {a} THEN "started" ELSE StageOf(b)
      BY <1>0, <2>1 DEF StageOf
    <2>6. Record!Start(a)
      BY <2>1, <2>2, <2>5 DEF Record!Start, Record!Moved, Record!Attempts, Attempts, StageOf
    <2>7. [Record!Next]_(Record!record)
      BY <2>6 DEF Record!Next, Record!Attempts, Attempts
    <2> QED BY <2>1, <2>3, <2>4, <2>7, RecordableTurn DEF Recorded
  <1> QED BY <1>1, <1>2

LEMMA WorkRecorded ==
  ASSUME Known, NEW a \in Attempts,
         \/ ClaimFails(a) \/ LeaseConflicts(a) \/ ClaimUnit(a) \/ Execute(a) \/ SandboxExits(a)
         \/ Submit(a) \/ Settle(a)
  PROVE  Recorded
  <1> USE DEF events, resources, promises, cleaning, work, bounds
  <1>0. /\ item \in [Attempts -> ItemStatus] /\ pc \in [Attempts -> Stations]
        /\ DOMAIN result = Attempts /\ sandbox \in [Attempts -> {"absent", "running", "exited"}]
        /\ claimed \subseteq Attempts
        /\ (pc[a] \in Working => Started(a))
    BY DEF Known, IInv, Shapes, Typed, ResultTyped, ResourcesTyped, SandboxShape,
           OwnersHaveStarted, Working
  <1>1. /\ UNCHANGED <<item, receipt, candidates>>
        /\ \A b \in Attempts : sandbox'[b] = "absent" \/ sandbox[b] # "absent" \/ Started(b)
    <2>1. CASE ClaimFails(a) \/ LeaseConflicts(a) \/ ClaimUnit(a) \/ Submit(a) \/ Settle(a)
      BY <2>1 DEF ClaimFails, LeaseConflicts, ClaimUnit, Submit, Settle
    <2>2. CASE Execute(a)
      <3>1. item[a] # "launching" /\ Started(a)
        BY <1>0, <2>2 DEF Execute, Started, Working
      <3> QED BY <1>0, <2>2, <3>1 DEF Execute
    <2>3. CASE SandboxExits(a)
      BY <1>0, <2>3 DEF SandboxExits, Working
    <2> QED BY <2>1, <2>2, <2>3
  <1>2. \A b \in Attempts : ClaimTurns(b) /\ PromiseTurns(b)
    <2>1. CASE ClaimFails(a) \/ LeaseConflicts(a)
      BY <1>0, <2>1 DEF ClaimFails, LeaseConflicts, ClaimTurns, PromiseTurns, Working
    <2>2. CASE ClaimUnit(a)
      BY <1>0, <2>2 DEF ClaimUnit, ClaimTurns, PromiseTurns, Working
    <2>3. CASE Execute(a) \/ SandboxExits(a)
      BY <1>0, <2>3 DEF Execute, SandboxExits, ClaimTurns, PromiseTurns, Working
    <2>4. CASE Submit(a)
      BY <1>0, <2>4 DEF Submit, ClaimTurns, PromiseTurns, Working
    <2>5. CASE Settle(a)
      BY <1>0, <2>5 DEF Settle, ClaimTurns, PromiseTurns, Working
    <2> QED BY <2>1, <2>2, <2>3, <2>4, <2>5
  <1> QED BY <1>1, <1>2, WorkTurn

LEMMA EndsRecorded ==
  ASSUME Known, NEW a \in Attempts, Ends(a) \/ LandSuccess(a)
  PROVE  Recorded
  <1> USE DEF Working, Record!Results
  <1>1. CASE PreparationFails(a)
    BY <1>1, RunLandsRecorded DEF PreparationFails
  <1>2. CASE AbandonSandbox(a)
    BY <1>2, RunLandsRecorded DEF AbandonSandbox
  <1>3. CASE ExecutorFails(a)
    <2>1. PICK says : RunLands(a, "failed", "awaiting_decision", "outcome", says)
      BY <1>3 DEF ExecutorFails
    <2> QED BY <1>3, <2>1, RunLandsRecorded DEF ExecutorFails
  <1>4. CASE BreaksContract(a)
    BY <1>4, RunLandsRecorded DEF BreaksContract
  <1>5. CASE ExecutorSucceeds(a)
    <2>1. CASE RunLands(a, "failed", "awaiting_decision", "outcome", "stale")
      BY <1>5, <2>1, RunLandsRecorded DEF ExecutorSucceeds
    <2>2. CASE /\ pc' = [pc EXCEPT ![a] = "promoting"]
               /\ UNCHANGED <<receipt, subtask, candidates, item, inbox, known, result, claimed>>
      <3>1. \A b \in Attempts : ClaimTurns(b) /\ PromiseTurns(b)
        <4>1. pc \in [Attempts -> Stations] /\ pc[a] = "collecting"
          BY <1>5 DEF ExecutorSucceeds, Known, IInv, Shapes
        <4> QED BY <2>2, <4>1 DEF ClaimTurns, PromiseTurns
      <3> QED BY <1>5, <2>2, <3>1, WorkTurn DEF ExecutorSucceeds
    <2> QED BY <1>5, <2>1, <2>2 DEF ExecutorSucceeds
  <1>6. CASE LandSuccess(a)
    BY <1>6, RunLandsRecorded DEF LandSuccess
  <1> QED BY <1>1, <1>2, <1>3, <1>4, <1>5, <1>6 DEF Ends

LEMMA CloseRecorded ==
  ASSUME Known, NEW a \in Attempts, Close(a)
  PROVE  Recorded
  <1>0. /\ item \in [Attempts -> ItemStatus] /\ pc \in [Attempts -> Stations]
        /\ claimed' \subseteq claimed
        /\ pc[a] = "closing" /\ pc' = [pc EXCEPT ![a] = "marked"]
        /\ UNCHANGED <<receipt, candidates, sandbox, result>>
    BY DEF Known, IInv, Shapes, Close
  <1>1. \/ receipt[a] # "none" /\ item[a] \in Ended
        \/ receipt[a] = "none" /\ item[a] \in {"running", "cancelling", "cancelled"}
    BY <1>0 DEF Known, Recordable, WorkIsRunning, Working, IInv, OutcomeIsAtomic
  <1>2. /\ \A b \in Attempts \ {a} : item'[b] = item[b]
        /\ item'[a] = IF result[a] = "thrown"
                      THEN IF item[a] = "running" THEN "uncertain" ELSE item[a]
                      ELSE IF item[a] = "running" THEN "terminal"
                      ELSE IF item[a] = "cancelling" THEN "cancelled" ELSE item[a]
    <2>1. item' = [item EXCEPT ![a] = IF result[a] = "thrown" THEN Uncertain(item[a])
                                      ELSE Terminal(item[a])]
      BY DEF Close
    <2>2. item'[a] = IF result[a] = "thrown" THEN Uncertain(item[a]) ELSE Terminal(item[a])
      BY <1>0, <2>1
    <2>3. /\ Uncertain(item[a]) = IF item[a] = "running" THEN "uncertain" ELSE item[a]
          /\ Terminal(item[a]) = IF item[a] = "running" THEN "terminal"
                                 ELSE IF item[a] = "cancelling" THEN "cancelled" ELSE item[a]
      BY <1>1 DEF Uncertain, Terminal, Ended
    <2> QED BY <1>0, <2>1, <2>2, <2>3
  <1>3. Recordable'
    <2>1. receipt[a] = "none" /\ result[a] # "thrown" => a \notin claimed'
      BY <1>0 DEF Known, Recordable, ClosingIsAccounted
    <2>2. \A b \in Attempts : OutcomeTurns(b) /\ ClaimTurns(b) /\ PromiseTurns(b)
      BY <1>0, <1>1, <1>2, <2>1 DEF OutcomeTurns, ItemTurns, ClaimTurns, PromiseTurns, Working
    <2> QED BY <1>0, <2>2, RecordableTurn
  <1>4. CASE item'[a] = item[a]
    <2>1. \A b \in Attempts : StageOf(b)' = StageOf(b)
      BY <1>2, <1>4 DEF StageOf
    <2> QED BY <1>0, <1>3, <2>1, Unrecorded DEF Recorded
  <1>5. CASE item[a] = "running"
    <2>1. receipt[a] = "none"
      BY <1>1, <1>5 DEF Ended
    <2>2. CASE result[a] = "thrown"
      <3>1. \A b \in Attempts : StageOf(b)' = IF b \in {a} THEN "doubtful" ELSE StageOf(b)
        BY <1>2, <1>5, <2>2 DEF StageOf
      <3>2. Record!Doubt({a})
        BY <1>0, <1>5, <3>1 DEF StageOf, Record!Doubt, Record!Moved, Record!Attempts, Attempts
      <3> QED BY <1>3, <3>2 DEF Recorded, Record!Next, Record!Attempts, Attempts
    <2>3. CASE result[a] # "thrown"
      <3>1. \A b \in Attempts : StageOf(b)' = IF b \in {a} THEN "ended" ELSE StageOf(b)
        BY <1>2, <1>5, <2>3 DEF StageOf
      <3>2. Record!End(a)
        BY <1>0, <1>5, <2>1, <3>1 DEF StageOf, Record!End, Record!Moved, Record!Attempts, Attempts
      <3> QED BY <1>3, <3>2 DEF Recorded, Record!Next, Record!Attempts, Attempts
    <2> QED BY <2>2, <2>3
  <1>6. CASE item[a] = "cancelling" /\ item'[a] = "cancelled"
    <2>1. \A b \in Attempts : StageOf(b)' = IF b \in {a} THEN "withdrawn" ELSE StageOf(b)
      BY <1>2, <1>6 DEF StageOf
    <2>2. Record!CleanedUp({a})
      BY <1>0, <1>6, <2>1 DEF StageOf, Record!CleanedUp, Record!Moved, Record!Attempts, Attempts
    <2> QED BY <1>3, <2>2 DEF Recorded, Record!Next, Record!Attempts, Attempts
  <1> QED BY <1>2, <1>4, <1>5, <1>6
-----------------------------------------------------------------------------
(* Decisions, the user, the cleanup and the sweep. *)

LEMMA RestingRecorded ==
  ASSUME Known,
         \/ KickDone \/ Request \/ SubmitRequest \/ Pause
         \/ CleanupStarts \/ CleanupEnds \/ \E a \in Attempts : StopFails(a)
         \/ ReportMissing \/ \E a \in Attempts : BlockStartup(a)
         \/ UNCHANGED vars
  PROVE  Recorded
  <1> USE DEF events, resources, promises, cleaning, work, bounds
  <1>1. UNCHANGED <<item, receipt, candidates, sandbox, pc, result, claimed>>
    BY DEF KickDone, Request, SubmitRequest, Pause, CleanupStarts, CleanupEnds, StopFails,
           ReportMissing, BlockStartup, vars
  <1> QED BY <1>1, RestingTurn

LEMMA DecidesRecorded ==
  ASSUME Known, NEW e, Decides(e)
  PROVE  Recorded
  <1> USE DEF events, resources, promises, cleaning, work, bounds
  <1>1. CASE \/ NoOp(e) \/ BlockWork(e) \/ WaitForRetry(e) \/ ParkForReplan(e)
             \/ WaitForResources(e) \/ RecoverWorkspace(e)
    <2>1. UNCHANGED <<item, receipt, candidates, sandbox, pc, result, claimed>>
      BY <1>1 DEF NoOp, BlockWork, WaitForRetry, ParkForReplan, WaitForResources,
                  RecoverWorkspace
    <2> QED BY <2>1, RestingTurn
  <1>2. ASSUME NEW k, Ordered(e, k) PROVE Recorded
    <2>1. (\A s \in {Of(e.of)} : MayGrow(s)) /\ Inserted({Of(e.of)}, k)
          /\ UNCHANGED <<receipt, candidates, sandbox, pc, result, claimed>>
      BY <1>2 DEF Ordered
    <2> QED BY <2>1, InsertedRecorded
  <1>3. CASE FallBack(e) \/ CorrectContract(e) \/ Redispatch(e)
    BY <1>2, <1>3 DEF FallBack, CorrectContract, Redispatch
  <1>4. CASE Advance(e)
    <2>1. UNCHANGED <<receipt, candidates, sandbox, pc, result, claimed>>
      BY <1>4 DEF Advance
    <2>2. CASE UNCHANGED <<item, kind, kicking>>
      BY <2>1, <2>2, RestingTurn
    <2>3. CASE ~UNCHANGED <<item, kind, kicking>>
      <3>1. PICK S \in SUBSET Dispatchable :
               (\A s \in S : MayGrow(s)) /\ Inserted(S, "primary")
        BY <1>4, <2>3 DEF Advance, DispatchFrontier
      <3> QED BY <2>1, <3>1, InsertedRecorded
    <2> QED BY <2>2, <2>3
  <1> QED BY <1>1, <1>3, <1>4 DEF Decides

LEMMA FireTimerRecorded ==
  ASSUME Known, NEW e, FireTimer(e)
  PROVE  Recorded
  <1> USE DEF events, resources, promises, cleaning, work, bounds
  <1>1. UNCHANGED <<receipt, candidates, sandbox, pc, result, claimed>>
    BY DEF FireTimer
  <1>2. CASE UNCHANGED <<item, kind, kicking>>
    BY <1>1, <1>2, RestingTurn
  <1>3. CASE ~UNCHANGED <<item, kind, kicking>>
    <2>1. (\A s \in {Of(e.of)} : MayGrow(s)) /\ Inserted({Of(e.of)}, "continuation")
      BY <1>3 DEF FireTimer
    <2> QED BY <1>1, <2>1, InsertedRecorded
  <1> QED BY <1>2, <1>3

LEMMA UserRecorded ==
  ASSUME Known,
         \/ ServeRequest \/ CancelTask \/ \E S \in SUBSET Subtasks : CancelSubtasks(S)
         \/ \E a \in Attempts : ReconcilePause(a)
  PROVE  Recorded
  <1> USE DEF events, resources, promises, cleaning, work, bounds
  <1>1. CASE ServeRequest
    BY <1>1, RelaunchRecorded DEF ServeRequest
  <1>2. CASE CancelTask \/ \E S \in SUBSET Subtasks : CancelSubtasks(S)
    BY <1>2, CancelRecorded DEF CancelTask, CancelSubtasks
  <1>3. ASSUME NEW a \in Attempts, ReconcilePause(a) PROVE Recorded
    <2>1. Started(a) /\ receipt[a] = "none" /\ item[a] # "terminal"
      BY <1>3 DEF ReconcilePause, Interrupted, Known, Recordable, SandboxedHaveStarted
    <2>2. /\ Landed(a, "failed", "ready", "outcome", "paused", <<>>)
          /\ UNCHANGED <<sandbox, pc, result>> /\ claimed' \subseteq claimed
      BY <1>3 DEF ReconcilePause
    <2>3. "failed" \in Record!Results \ {"completed"}
      BY DEF Record!Results
    <2> QED BY <2>1, <2>2, <2>3, LandedRecorded
  <1> QED BY <1>1, <1>2, <1>3

LEMMA CleanUpRecorded ==
  ASSUME Known, NEW a \in Attempts, CleanUp(a)
  PROVE  Recorded
  <1> USE DEF events, resources, promises, cleaning, work, bounds
  <1> DEFINE A == {b \in {a} : item[b] = "cancelling"}
  <1>1. /\ UNCHANGED <<receipt, candidates, pc, result, claimed>>
        /\ sandbox' = [sandbox EXCEPT ![a] = IF @ = "running" THEN "exited" ELSE @]
        /\ item' = [item EXCEPT ![a] = IF @ = "cancelling" THEN "cancelled" ELSE @]
    BY DEF CleanUp, CancellationSettled
  <1>2. item \in [Attempts -> ItemStatus] /\ sandbox \in [Attempts -> {"absent", "running", "exited"}]
    BY DEF Known, IInv, Shapes, Typed, ResourcesTyped, SandboxShape
  <1>3. item' = [b \in Attempts |-> IF b \in A THEN "cancelled" ELSE item[b]]
    BY <1>1, <1>2
  <1>4. \A b \in Attempts : sandbox'[b] = "absent" \/ sandbox[b] # "absent"
    BY <1>1, <1>2
  <1>5. A \in SUBSET Attempts /\ \A b \in A : item[b] = "cancelling"
    OBVIOUS
  <1> HIDE DEF A
  <1> QED BY <1>1, <1>3, <1>4, <1>5, CleanedRecorded

LEMMA SweepRecorded ==
  ASSUME Known, NEW a \in Attempts, Sweep(a)
  PROVE  Recorded
  <1> USE DEF events, resources, promises, cleaning, work, bounds
  <1>1. UNCHANGED <<sandbox, pc, result>> /\ claimed' \subseteq claimed /\ a \in claimed
    BY DEF Sweep
  <1>2. CASE UNCHANGED <<receipt, subtask, candidates, item>>
    BY <1>1, <1>2, RestingTurn
  <1>3. ASSUME NEW more, receipt[a] = "none",
               Landed(a, "heartbeat_lost", "awaiting_decision", "outcome", "retryable", more)
        PROVE  Recorded
    <2>1. Started(a) /\ item[a] # "terminal"
      BY <1>1, <1>3 DEF Known, IInv, OwnersHaveStarted, Recordable, ClaimsAreUnended
    <2>2. "heartbeat_lost" \in Record!Results \ {"completed"}
      BY DEF Record!Results
    <2> QED BY <1>1, <1>3, <2>1, <2>2, LandedRecorded
  <1> QED BY <1>2, <1>3 DEF Sweep
-----------------------------------------------------------------------------
(* Crash and startup. *)

LEMMA CrashRecorded ==
  ASSUME Known, Crash
  PROVE  Recorded
  <1> USE DEF events, resources, promises, cleaning, work, bounds
  <1>1. /\ UNCHANGED <<item, receipt, candidates, sandbox, claimed>>
        /\ \A a \in Attempts : pc'[a] = "none"
    BY DEF Crash
  <1>2. \A a \in Attempts : ClaimTurns(a) /\ PromiseTurns(a)
    BY <1>1 DEF ClaimTurns, PromiseTurns, Working
  <1> QED BY <1>1, <1>2, WorkTurn

LEMMA ReconcileSandboxesRecorded ==
  ASSUME Known, ReconcileSandboxes
  PROVE  Recorded
  <1> USE DEF events, resources, promises, cleaning, work, bounds
  <1>1. PICK mine \in SUBSET Attempts :
           /\ mine = {a \in Survived : item[a] \notin {"cancelling", "cancelled"}}
           /\ item' = [a \in Attempts |-> IF a \in mine THEN Uncertain(item[a]) ELSE item[a]]
    BY DEF ReconcileSandboxes, Survived
  <1>2. /\ UNCHANGED <<receipt, candidates, claimed, pc, result>>
        /\ sandbox' = [a \in Attempts |-> IF a \in Survived THEN "exited" ELSE sandbox[a]]
        /\ \A a \in Attempts : pc[a] = "none"
    BY DEF ReconcileSandboxes, Known, IInv, PromisesDieWithTheProcess
  <1> DEFINE A == {a \in mine : item[a] = "running"}
  <1>3. \A a \in mine : Started(a) /\ a \in Attempts
    BY <1>1 DEF Survived, Known, Recordable, SandboxedHaveStarted
  <1>4. \A a \in Attempts : item'[a] = IF a \in A THEN "uncertain" ELSE item[a]
    <2> TAKE a \in Attempts
    <2>1. item'[a] = IF a \in mine THEN Uncertain(item[a]) ELSE item[a]
      BY <1>1
    <2>2. a \in mine => Uncertain(item[a]) = IF item[a] = "running" THEN "uncertain" ELSE item[a]
      BY <1>3 DEF Uncertain, Started
    <2> QED BY <2>1, <2>2
  <1>5. A \in SUBSET Attempts /\ \A a \in A : item[a] = "running"
    OBVIOUS
  <1> HIDE DEF A
  <1>6. Recordable'
    <2>1. \A a \in Attempts : OutcomeTurns(a) /\ ClaimTurns(a) /\ PromiseTurns(a)
      BY <1>2, <1>4 DEF OutcomeTurns, ItemTurns, ClaimTurns, PromiseTurns, Working
    <2>2. \A a \in Attempts : sandbox'[a] = "absent" \/ sandbox[a] # "absent"
      BY <1>2 DEF Survived
    <2> QED BY <2>1, <2>2, RecordableTurn
  <1>7. \A a \in Attempts : /\ a \in A => StageOf(a) = "started"
                            /\ StageOf(a)' = IF a \in A THEN "doubtful" ELSE StageOf(a)
    BY <1>4, <1>5 DEF StageOf
  <1>8. Record!Doubt(A)
    BY <1>2, <1>5, <1>7 DEF Record!Doubt, Record!Moved, Record!Attempts, Attempts
  <1> QED BY <1>5, <1>6, <1>8 DEF Recorded, Record!Next, Record!Attempts, Attempts

LEMMA StartupRecorded ==
  ASSUME Known, Startup
  PROVE  Recorded
  <1> USE DEF events, resources, promises, cleaning, work, bounds
  <1>1. CASE ReconcileSandboxes
    BY <1>1, ReconcileSandboxesRecorded
  <1>2. CASE RecoverCancellations
    <2> DEFINE A == {a \in Attempts : item[a] = "cancelling" /\ Removable(a)}
    <2>1. /\ item' = [a \in Attempts |-> IF a \in A THEN "cancelled" ELSE item[a]]
          /\ UNCHANGED <<receipt, candidates, pc, result, claimed, sandbox>>
          /\ A \in SUBSET Attempts /\ \A a \in A : item[a] = "cancelling"
      BY <1>2 DEF RecoverCancellations
    <2> HIDE DEF A
    <2> QED BY <2>1, CleanedRecorded
  <1>3. CASE ReportMissing \/ \E a \in Attempts : BlockStartup(a)
    BY <1>3, RestingRecorded
  <1>4. CASE RecoverDue
    <2>1. UNCHANGED <<receipt, candidates, sandbox, pc, result, claimed>>
      BY <1>4 DEF RecoverDue
    <2>2. CASE UNCHANGED item
      BY <2>1, <2>2, RestingTurn
    <2>3. CASE item' = [a \in Attempts |-> Relaunchable(item[a])]
      BY <2>1, <2>3, RelaunchRecorded
    <2> QED BY <1>4, <2>2, <2>3 DEF RecoverDue
  <1>5. ASSUME NEW a \in Attempts, SealOrphan(a) PROVE Recorded
    <2>1. UNCHANGED <<sandbox, pc, result>> /\ claimed' \subseteq claimed /\ a \in claimed
      BY <1>5 DEF SealOrphan
    <2>2. PICK report :
             \/ /\ receipt[a] = "none"
                /\ Landed(a, "heartbeat_lost", "awaiting_decision", "outcome", "retryable", report)
             \/ UNCHANGED <<receipt, subtask, candidates, item>>
      BY <1>5 DEF SealOrphan
    <2>3. CASE UNCHANGED <<receipt, subtask, candidates, item>>
      BY <2>1, <2>3, RestingTurn
    <2>4. CASE /\ receipt[a] = "none"
               /\ Landed(a, "heartbeat_lost", "awaiting_decision", "outcome", "retryable", report)
      <3>1. Started(a) /\ item[a] # "terminal"
        BY <2>1, <2>4 DEF Known, IInv, OwnersHaveStarted, Recordable, ClaimsAreUnended
      <3>2. "heartbeat_lost" \in Record!Results \ {"completed"}
        BY DEF Record!Results
      <3> QED BY <2>1, <2>4, <3>1, <3>2, LandedRecorded
    <2> QED BY <2>2, <2>3, <2>4
  <1> QED BY <1>1, <1>2, <1>3, <1>4, <1>5 DEF Startup
-----------------------------------------------------------------------------
(* The refinement. *)

LEMMA InitRecorded ==
  ASSUME Init
  PROVE  Recordable /\ Record!Init
  <1>1. /\ \A a \in Attempts : /\ item[a] = "absent" /\ receipt[a] = "none"
                               /\ sandbox[a] = "absent" /\ pc[a] = "none"
        /\ receipt = [a \in Attempts |-> "none"] /\ claimed = {} /\ candidates = {}
    BY DEF Init
  <1>2. Recordable
    BY <1>1 DEF Recordable, SandboxedHaveStarted, WorkIsRunning, Working, ClaimsAreUnended,
                ClosingIsAccounted
  <1>3. \A a \in Attempts : StageOf(a) = "absent"
    BY <1>1 DEF StageOf
  <1> QED BY <1>1, <1>2, <1>3 DEF Record!Init, Record!Attempts, Attempts

LEMMA NextRecorded ==
  ASSUME IInv, Typed, Recordable, [Next]_vars
  PROVE  Recorded
  <1>0. Known
    BY NextIInv DEF Known
  <1>1. ASSUME NEW a \in Attempts, Runs(a) PROVE Recorded
    BY <1>0, <1>1, LaunchRecorded, WorkRecorded, EndsRecorded, CloseRecorded DEF Runs
  <1>2. ASSUME NEW a \in Attempts, CleanUp(a) \/ Sweep(a) PROVE Recorded
    BY <1>0, <1>2, CleanUpRecorded, SweepRecorded
  <1>3. ASSUME NEW e, Decides(e) \/ FireTimer(e) PROVE Recorded
    BY <1>0, <1>3, DecidesRecorded, FireTimerRecorded
  <1>4. CASE \/ KickDone \/ Request \/ SubmitRequest \/ Pause \/ CleanupStarts \/ CleanupEnds
             \/ (\E a \in Attempts : StopFails(a)) \/ UNCHANGED vars
    BY <1>0, <1>4, RestingRecorded
  <1>5. CASE \/ ServeRequest \/ CancelTask \/ \E S \in SUBSET Subtasks : CancelSubtasks(S)
             \/ \E a \in Attempts : ReconcilePause(a)
    BY <1>0, <1>5, UserRecorded
  <1>6. CASE Crash \/ Startup
    BY <1>0, <1>6, CrashRecorded, StartupRecorded
  <1> QED BY <1>1, <1>2, <1>3, <1>4, <1>5, <1>6 DEF Next

\* Dispatch items, receipts and candidates implement the abstract record of the
\* attempts: whichever of runner, supervisor, kernel, sweep, coordinator and startup
\* writes, an attempt is ordered in turn, started once, sealed at most once, and
\* published only by the outcome that ends it undoubted and not withdrawn.
THEOREM ExecutionImplementsRecord == Spec => ImplementsRecord
  <1>1. IInv /\ Typed /\ Recordable /\ [Next]_vars
           => Recordable' /\ [Record!Next]_(Record!record)
    BY NextRecorded DEF Recorded
  <1>2. Init => Recordable /\ Record!Init
    BY InitRecorded
  <1> QED BY <1>1, <1>2, Inductive, TypeInductive, PTL DEF Spec, ImplementsRecord, Record!Spec
=============================================================================
