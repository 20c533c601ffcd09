-------------------------- MODULE PublicationProofs --------------------------
(***************************************************************************)
(* Publication, for any number of Subtasks, attempts, commits by others,   *)
(* cancellations and crashes, and whatever git refuses: main reaches only  *)
(* what the user has approved, a Subtask is done only when its candidate   *)
(* is merged, and none is left waiting without a publication.              *)
(***************************************************************************)
EXTENDS Publication, TLAPS

(***************************************************************************)
(* The invariant                                                           *)
(***************************************************************************)

Reach == [tip : Commit \cup {NoCommit}, has : SUBSET Commit, base : Int]
RowTable == [Attempts -> [status : RowStatus, candidate : Reach]]
Outcome == [type : {"integrated"}] \cup [type : {"stale"}, row : Attempts, head : Reach]
Station == [phase : Phases, row : Attempts \cup {<< >>}, outcomes : Seq(Outcome),
            progress : BOOLEAN]
Attempting == [phase : {"none", "executing", "requesting"}, n : Nat]

Typed ==
    /\ task \in {"running", "blocked", "done", "cancelled"}
    /\ subtasks \in [Subtasks -> {"ready", "running", "awaiting_integration", "blocked",
                                  "done", "cancelled"}]
    /\ rows \in RowTable
    /\ attempts \in [Subtasks -> Attempting]
    /\ \A s \in Subtasks : /\ attempts[s].n <= MaxAttempts[s]
                           /\ Running(s) => attempts[s].n >= 1
    /\ main \in [version : Nat, has : SUBSET Commit]
    /\ trees \in [Subtasks -> Reach]
    /\ station \in Station
    /\ station.phase \in Applying => station.row \in Attempts
    /\ startup \in SUBSET Attempts

(* A head reaches its own tip, and no main that does not exist yet. *)
WellFormed(h) == h.tip \in h.has \cup {NoCommit} /\ h.base <= main.version
Heads ==
    /\ \A s \in Subtasks : WellFormed(trees[s])
    /\ \A a \in Attempts : WellFormed(rows[a].candidate)
    /\ \A n \in DOMAIN station.outcomes :
         station.outcomes[n].type = "stale" => WellFormed(station.outcomes[n].head)

(* An attempt that has not landed has no row. *)
Unlanded(a) == a[2] > attempts[a[1]].n \/ (Running(a[1]) /\ a[2] = attempts[a[1]].n)
Fresh == \A a \in Attempts : Unlanded(a) => rows[a].status = "none"

(* A row past its approval carries the candidate that was approved. *)
Covered == {"pending", "applying", "cancelling", "integrated"}
Approved == \A a \in Attempts : rows[a].status \in Covered => rows[a].candidate \in authorized

(* The row the worker publishes stays the one it took, until it is parked or *)
(* integrated; after the merge, main reaches it.                             *)
Taken == {"ensuring", "checking", "merging", "committing"}
InFlight ==
    station.phase \in Taken =>
        /\ rows[Current].status \in {"applying", "cancelling", "cancelled"}
        /\ rows[Current].candidate \in authorized
        /\ station.phase = "committing" => Contains(MainHead, rows[Current].candidate)

(* Before startup has reissued the parked rows nothing else is served. *)
Recovering ==
    /\ startup # {} => station.phase = "idle"
    /\ \A a \in startup : rows[a].status = "parked"

(* A new approval is requested for a stale candidate, the next outcome. *)
Requesting ==
    station.phase = "requesting" =>
        station.outcomes # << >> /\ Head(station.outcomes).type = "stale"

(* The cancellation of the Task leaves nothing that could be published. *)
Closed == {"none", "cancelling", "cancelled", "integrated"}
CancelledIsClosed ==
    task = "cancelled" => /\ \A a \in Attempts : rows[a].status \in Closed
                          /\ \A s \in Subtasks : subtasks[s] # "awaiting_integration"

Inv == /\ Typed /\ Heads /\ Fresh /\ Approved /\ InFlight /\ Recovering
       /\ Requesting /\ CancelledIsClosed /\ OnlyApproved /\ WaitingHasRow /\ DoneIsMerged

(***************************************************************************)
(* What the statements of the repository do to the table                   *)
(***************************************************************************)
Keeps(r, q) ==
    /\ q \in RowTable
    /\ \A a \in Attempts :
         /\ q[a].candidate = r[a].candidate
         /\ q[a].status = "none" <=> r[a].status = "none"
         /\ q[a].status = "integrated" <=> r[a].status = "integrated"
         /\ q[a].status \in Covered => r[a].status \in Covered
         /\ r[a].status \in Closed => q[a].status \in Closed

LEMMA KeepsIsTransitive ==
  ASSUME NEW r, NEW q, NEW p, Keeps(r, q), Keeps(q, p)
  PROVE  Keeps(r, p)
  BY DEF Keeps

LEMMA CancelRequestedKeeps ==
  ASSUME NEW r \in RowTable, NEW S
  PROVE  Keeps(r, CancelRequested(r, S))
  BY DEF CancelRequested, RowTable, RowStatus, Keeps, Covered, Closed

LEMMA RecoveredKeeps ==
  ASSUME NEW r \in RowTable, CancelledIsClosed
  PROVE  Keeps(r, Recovered(r))
  BY DEF Recovered, RowTable, RowStatus, Keeps, Covered, Closed

(* Taking the next row only marks it, and it was open before. *)
LEMMA TakeKeeps ==
  ASSUME NEW r \in RowTable, NEW outcomes \in Seq(Outcome), Take(r, outcomes)
  PROVE  /\ Keeps(r, rows')
         /\ station' \in Station /\ station'.outcomes = outcomes
         /\ \/ station'.phase \in {"closing", "handling"}
            \/ /\ station'.phase = "ensuring" /\ station'.row \in Attempts
               /\ rows'[station'.row].status = "applying"
  <1> DEFINE next == {a \in First(Fenced(r)) : r[a].status = "pending"}
  <1>1. Keeps(r, Fenced(r))
    BY CancelRequestedKeeps DEF Fenced
  <1>2. CASE next = {}
    BY <1>1, <1>2 DEF Take, Idle, Station, Phases, Applying
  <1>3. CASE next # {}
    <2>1. PICK a \in next :
             /\ rows' = [Fenced(r) EXCEPT ![a].status = "applying"]
             /\ station' = [Idle EXCEPT !.phase = "ensuring", !.row = a, !.outcomes = outcomes]
      BY <1>3 DEF Take
    <2>2. /\ a \in Attempts /\ r[a].status = "pending"
          /\ Fenced(r)[a].status \in {"pending", "applying", "cancelling"}
      BY <2>1 DEF First, Open
    <2>3. Keeps(r, rows')
      BY <1>1, <2>1, <2>2 DEF Keeps, RowTable, RowStatus, Covered, Closed
    <2>4. rows'[a].status = "applying"
      BY <1>1, <2>1, <2>2 DEF Keeps, RowTable
    <2> QED BY <2>1, <2>2, <2>3, <2>4 DEF Idle, Station, Phases, Applying
  <1> QED BY <1>2, <1>3

(***************************************************************************)
(* Heads                                                                   *)
(***************************************************************************)
LEMMA MainHeadReach ==
  ASSUME Typed
  PROVE  MainHead \in Reach /\ WellFormed(MainHead)
  BY DEF Typed, MainHead, Reach, WellFormed

LEMMA CommittedForReach ==
  ASSUME Typed, NEW a \in Attempts, NEW h \in Reach
  PROVE  CommittedFor(a, h) \in Reach /\ WellFormed(CommittedFor(a, h))
  BY DEF Typed, CommittedFor, Commit, Reach, WellFormed

LEMMA SynchronizedReach ==
  ASSUME Typed, NEW a \in Attempts, NEW h \in Reach, WellFormed(h)
  PROVE  Synchronized(a, h) \in Reach /\ WellFormed(Synchronized(a, h))
  BY CommittedForReach DEF Synchronized

LEMMA EnsuredReach ==
  ASSUME Typed, \A t \in Subtasks : WellFormed(trees[t]), NEW s \in Subtasks
  PROVE  /\ Ensured(s) \in [Subtasks -> Reach]
         /\ \A t \in Subtasks : WellFormed(Ensured(s)[t])
  <1>1. Ensured(s) = [trees EXCEPT ![s] = IF trees[s] = NoTree THEN MainHead ELSE trees[s]]
    BY DEF Ensured
  <1> QED BY <1>1, MainHeadReach DEF Typed

(* A merge makes main reach the candidate and keeps what it reached. *)
LEMMA PromotedReaches ==
  ASSUME Typed, NEW h \in Reach, WellFormed(h)
  PROVE  /\ Promoted(h) \in [version : Nat, has : SUBSET Commit]
         /\ main.version <= Promoted(h).version
         /\ main.has \subseteq Promoted(h).has
         /\ Promoted(h).has \subseteq main.has \cup h.has
         /\ h.tip \in Promoted(h).has \cup {NoCommit}
  BY DEF Typed, Promoted, WellFormed, Reach

LEMMA AttemptsOf ==
  /\ \A a \in Attempts : SubtaskOf(a) \in Subtasks /\ a[1] \in Subtasks
  /\ \A s \in Subtasks, n \in Nat : n >= 1 /\ n <= MaxAttempts[s] => << s, n >> \in Attempts
  BY PublicationAssumption DEF Attempts, SubtaskOf

(***************************************************************************)
(* Type correctness                                                        *)
(***************************************************************************)
LEMMA AttemptStepTyped ==
  ASSUME Typed, Heads, NEW s \in Subtasks,
         Dispatch(s) \/ Validate(s) \/ Land(s) \/ LandCancelled(s) \/ Fail(s)
  PROVE  Typed'
  <1> USE DEF Set, stores, bounds, Attempting, Running
  <1>0. Running(s) => << s, attempts[s].n >> \in Attempts
    BY AttemptsOf, PublicationAssumption DEF Typed
  <1>1. CASE Dispatch(s)
    <2>1. trees' \in [Subtasks -> Reach]
      BY <1>1, EnsuredReach DEF Dispatch, Heads
    <2>2. attempts[s].n \in Nat /\ MaxAttempts[s] \in Nat
      BY PublicationAssumption DEF Typed
    <2>3. /\ attempts' \in [Subtasks -> Attempting]
          /\ \A t \in Subtasks : /\ attempts'[t].n <= MaxAttempts[t]
                                 /\ attempts'[t].phase # "none" => attempts'[t].n >= 1
      BY <1>1, <2>2 DEF Dispatch, Typed
    <2> QED BY <1>1, <2>1, <2>3 DEF Dispatch, Typed
  <1>2. CASE Validate(s)
    <2>1. trees' \in [Subtasks -> Reach]
      BY <1>0, <1>2, CommittedForReach DEF Validate, Typed
    <2> QED BY <1>2, <2>1 DEF Validate, Typed
  <1>3. CASE Land(s)
    <2>1. rows' \in RowTable
      BY <1>0, <1>3 DEF Land, Typed, RowTable, RowStatus
    <2> QED BY <1>3, <2>1 DEF Land, Typed
  <1>4. CASE LandCancelled(s)
    BY <1>4 DEF LandCancelled, Typed
  <1>5. CASE Fail(s)
    BY <1>5 DEF Fail, Typed
  <1> QED BY <1>1, <1>2, <1>3, <1>4, <1>5

LEMMA UserStepTyped ==
  ASSUME Typed,
         \/ \E a \in Attempts : Approve(a) \/ Deny(a) \/ CancellationEnds(a)
         \/ \E S \in SUBSET Subtasks : Cancel(S)
         \/ Resume \/ OtherCommit
  PROVE  Typed'
  <1> USE DEF Set, stores, bounds, Running
  <1>1. ASSUME NEW a \in Attempts, Approve(a) \/ Deny(a) \/ CancellationEnds(a) PROVE Typed'
    <2>1. rows' \in RowTable
      BY <1>1 DEF Approve, Deny, CancellationEnds, Typed, RowTable, RowStatus
    <2> QED BY <1>1, <2>1, AttemptsOf DEF Approve, Deny, CancellationEnds, Typed
  <1>2. ASSUME NEW S \in SUBSET Subtasks, Cancel(S) PROVE Typed'
    <2>1. rows' \in RowTable
      BY <1>2, CancelRequestedKeeps DEF Cancel, Typed, Keeps
    <2> QED BY <1>2, <2>1 DEF Cancel, Typed
  <1>3. CASE Resume
    BY <1>3 DEF Resume, Typed
  <1>4. CASE OtherCommit
    BY <1>4 DEF OtherCommit, Typed
  <1> QED BY <1>1, <1>2, <1>3, <1>4

LEMMA MarkKeeps ==
  ASSUME NEW r \in RowTable, NEW a \in Attempts, NEW from, NEW to \in {"pending", "parked", "cancelled"},
         from \in {{"applying"}, {"cancelling"}}
  PROVE  Mark(r, a, from, to) \in RowTable /\ (from = {"applying"} /\ to # "cancelled" => Keeps(r, Mark(r, a, from, to)))
  BY DEF Mark, Keeps, RowTable, RowStatus, Covered, Closed

LEMMA OutcomesTyped ==
  ASSUME Typed, Heads
  PROVE  /\ station.phase \in Phases /\ station.row \in Attempts \cup {<< >>}
         /\ station.outcomes \in Seq(Outcome)
         /\ [type |-> "integrated"] \in Outcome
         /\ \A a \in Attempts, h \in Reach : [type |-> "stale", row |-> a, head |-> h] \in Outcome
         /\ station.outcomes # << >> =>
              /\ Tail(station.outcomes) \in Seq(Outcome)
              /\ Head(station.outcomes) \in Outcome
              /\ Head(station.outcomes).type = "stale" =>
                   /\ Head(station.outcomes).row \in Attempts
                   /\ Head(station.outcomes).head \in Reach
                   /\ WellFormed(Head(station.outcomes).head)
  <1>1. station.outcomes \in Seq(Outcome)
    BY DEF Typed, Station
  <1>2. ASSUME station.outcomes # << >>
        PROVE  /\ Tail(station.outcomes) \in Seq(Outcome)
               /\ Head(station.outcomes) \in Outcome
               /\ 1 \in DOMAIN station.outcomes /\ Head(station.outcomes) = station.outcomes[1]
    BY <1>1, <1>2
  <1>3. \A o \in Outcome : o.type = "stale" => o.row \in Attempts /\ o.head \in Reach
    BY DEF Outcome
  <1> QED BY <1>1, <1>2, <1>3 DEF Typed, Heads, Station, Outcome

(* The steps of execute() and of the drain. *)
LEMMA DrainStepTyped ==
  ASSUME Typed, Heads, CancelledIsClosed,
         \/ Begin \/ Drain \/ Ensure \/ EnsureFails \/ PromoteFails \/ CheckMain
         \/ Stale \/ Merge \/ CommitResult \/ CommitRefused \/ RemoveFails \/ HandleIntegrated
         \/ HandleStale \/ HandlingEnds \/ Complete
  PROVE  Typed'
  <1> USE OutcomesTyped DEF stores, bounds, Running, Step, Thrown, Idle, Phases, Applying
  <1>0. Idle \in Station
    BY DEF Station
  <1>1. CASE Begin \/ EnsureFails \/ CommitRefused \/ RemoveFails
    BY <1>0, <1>1 DEF Begin, EnsureFails, CommitRefused, RemoveFails, Station, Typed
  <1>2. CASE Drain
    <2>1. Recovered(rows) \in RowTable /\ << >> \in Seq(Outcome)
      BY RecoveredKeeps DEF Typed, Keeps
    <2>2. rows' \in RowTable /\ station' \in Station
          /\ (station'.phase \in Applying => station'.row \in Attempts)
      BY <1>2, <2>1, TakeKeeps DEF Drain, Keeps
    <2> QED BY <1>2, <2>2 DEF Drain, Typed
  <1>3. CASE Ensure
    <2>0. Current \in Attempts /\ SubtaskOf(Current) \in Subtasks
      BY <1>3, AttemptsOf DEF Ensure, Typed, Current
    <2>1. Ensured(SubtaskOf(Current)) \in [Subtasks -> Reach]
      BY <2>0, EnsuredReach DEF Heads
    <2> QED BY <1>3, <2>1 DEF Ensure, Station, Typed
  <1>4. CASE PromoteFails
    <2>1. Current \in Attempts /\ rows' = Mark(rows, Current, {"applying"}, "pending")
      BY <1>4 DEF PromoteFails, Typed, Current
    <2>2. rows' \in RowTable
      BY <2>1, MarkKeeps DEF Typed
    <2> QED BY <1>0, <1>4, <2>2 DEF PromoteFails, Typed
  <1>5. CASE CheckMain
    BY <1>5 DEF CheckMain, Station, Typed
  <1>6. CASE Stale
    <2>1. Current \in Attempts /\ rows' = Mark(rows, Current, {"applying"}, "parked")
      BY <1>6 DEF Stale, Typed, Current
    <2>2. rows' \in RowTable
      BY <2>1, MarkKeeps DEF Typed
    <2> QED BY <1>6, <2>2 DEF Stale, Set, Station, Typed
  <1>7. CASE Merge
    <2>0. Current \in Attempts
      BY <1>7 DEF Merge, Typed, Current
    <2>1. main' \in [version : Nat, has : SUBSET Commit]
      BY <1>7, <2>0, PromotedReaches DEF Merge, Heads, Typed, RowTable
    <2> QED BY <1>7, <2>1 DEF Merge, Station, Typed
  <1>8. CASE CommitResult
    <2>0. Current \in Attempts
      BY <1>8, OutcomesTyped DEF CommitResult, Typed, RowTable, Current
    <2>1. rows' \in RowTable
      <3>1. rows[Current] \in [status : RowStatus, candidate : Reach]
        BY <2>0 DEF Typed, RowTable
      <3>2. [rows[Current] EXCEPT !.status = "integrated"] \in [status : RowStatus, candidate : Reach]
        BY <3>1 DEF RowStatus
      <3>3. rows' = [rows EXCEPT ![Current] = [rows[Current] EXCEPT !.status = "integrated"]]
        BY <1>8 DEF CommitResult
      <3> QED BY <3>2, <3>3 DEF Typed, RowTable
    <2>2. subtasks' \in [Subtasks -> {"ready", "running", "awaiting_integration", "blocked",
                                     "done", "cancelled"}]
      BY <1>8 DEF CommitResult, Set, Typed
    <2>3. station' \in Station /\ (station'.phase \in Applying => station'.row \in Attempts)
      <3>1. station \in Station /\ station.row \in Attempts /\ station' = [station EXCEPT !.phase = "removing"]
        BY <1>8 DEF CommitResult, Typed, Applying
      <3> QED BY <3>1 DEF Station, Phases, Applying
    <2>4. /\ UNCHANGED << task, attempts, main, trees, startup >>
          /\ \A s \in Subtasks : Running(s)' <=> Running(s)
      BY <1>8 DEF CommitResult, Running
    <2> QED BY <2>1, <2>2, <2>3, <2>4 DEF Typed
  <1>9. CASE HandleIntegrated \/ HandleStale
    <2>1. /\ UNCHANGED << stores, attempts, main, trees, startup >>
          /\ station.phase = "handling" /\ station.outcomes # << >>
      BY <1>9 DEF HandleIntegrated, HandleStale, Handling
    <2>2. \/ station' = [Handled EXCEPT !.progress = TRUE] \/ station' = Handled
          \/ station' = Idle \/ station' = [station EXCEPT !.phase = "requesting"]
      BY <1>9 DEF HandleIntegrated, HandleStale
    <2>3. /\ station \in Station /\ Handled.phase = "handling"
          /\ Handled.row = station.row /\ Handled.progress = station.progress
          /\ Handled.outcomes = Tail(station.outcomes)
          /\ Handled \in Station
      BY <2>1 DEF Handled, Station, Typed
    <2>4. CASE station' = [Handled EXCEPT !.progress = TRUE]
      <3>1. station' \in Station /\ station'.phase = "handling"
        BY <2>3, <2>4 DEF Station
      <3> QED BY <2>1, <3>1 DEF Typed
    <2>5. CASE station' = Handled
      BY <2>1, <2>3, <2>5 DEF Typed
    <2>6. CASE station' = Idle
      BY <1>0, <2>1, <2>6 DEF Typed
    <2>7. CASE station' = [station EXCEPT !.phase = "requesting"]
      <3>1. station' \in Station /\ station'.phase = "requesting"
        BY <2>3, <2>7 DEF Station
      <3> QED BY <2>1, <3>1 DEF Typed
    <2> QED BY <2>2, <2>4, <2>5, <2>6, <2>7
  <1>10. CASE HandlingEnds
    <2>1. Recovered(rows) \in RowTable /\ << >> \in Seq(Outcome)
      BY RecoveredKeeps DEF Typed, Keeps
    <2>2. CASE station.progress
      <3>1. station' = [Idle EXCEPT !.phase = "settling"]
        BY <1>10, <2>2 DEF HandlingEnds
      <3>2. station' \in Station /\ station'.phase = "settling"
        BY <1>0, <3>1 DEF Station
      <3>3. UNCHANGED << stores, attempts, main, trees, startup >>
        BY <1>10, <2>2 DEF HandlingEnds
      <3> QED BY <3>2, <3>3 DEF Typed
    <2>3. CASE ~station.progress
      <3>1. rows' \in RowTable /\ station' \in Station
            /\ (station'.phase \in Applying => station'.row \in Attempts)
        BY <1>10, <2>1, <2>3, TakeKeeps DEF HandlingEnds, Keeps
      <3> QED BY <1>10, <2>3, <3>1 DEF HandlingEnds, Typed
    <2> QED BY <2>2, <2>3
  <1>11. CASE Complete
    BY <1>11 DEF Complete, Typed
  <1> QED BY <1>1, <1>2, <1>3, <1>4, <1>5, <1>6, <1>7, <1>8, <1>9, <1>10, <1>11

LEMMA CurrentTyped ==
  ASSUME Typed, station.phase \in Applying
  PROVE  Current \in Attempts /\ SubtaskOf(Current) \in Subtasks /\ trees[SubtaskOf(Current)] \in Reach
  BY AttemptsOf DEF Typed, Current

(* A row comes to its end with an outcome, and the next one is taken. *)
LEMMA ResultKeeps ==
  ASSUME Typed, Heads, NEW o \in Outcome, Result(o)
  PROVE  /\ Keeps(rows, rows') /\ rows' \in RowTable
         /\ station' \in Station /\ station'.outcomes = Append(station.outcomes, o)
         /\ \/ station'.phase \in {"closing", "handling"}
            \/ /\ station'.phase = "ensuring" /\ station'.row \in Attempts
               /\ rows'[station'.row].status = "applying"
  <1>1. rows \in RowTable /\ Append(station.outcomes, o) \in Seq(Outcome)
    BY OutcomesTyped DEF Typed
  <1>2. Take(rows, Append(station.outcomes, o))
    BY DEF Result
  <1> QED BY <1>1, <1>2, TakeKeeps DEF Keeps

LEMMA OutcomeStepTyped ==
  ASSUME Typed, Heads, Remove \/ Synchronize \/ SynchronizeFails \/ Close \/ Crash
  PROVE  Typed'
  <1> USE DEF stores, bounds, Running
  <1>1. CASE Remove
    <2>1. [type |-> "integrated"] \in Outcome /\ NoTree \in Reach
      BY OutcomesTyped DEF NoTree, Reach
    <2>2. /\ rows' \in RowTable /\ station' \in Station
          /\ station'.phase \in Applying => station'.row \in Attempts
      BY <1>1, <2>1, ResultKeeps DEF Remove, Applying
    <2> QED BY <1>1, <2>1, <2>2 DEF Remove, Typed
  <1>2. CASE Synchronize
    <2> DEFINE h == Synchronized(Current, trees[SubtaskOf(Current)])
    <2>0. Current \in Attempts /\ SubtaskOf(Current) \in Subtasks
      BY <1>2, CurrentTyped DEF Synchronize, Applying
    <2>1. h \in Reach
      BY <2>0, SynchronizedReach DEF Typed, Heads
    <2>2. [type |-> "stale", row |-> Current, head |-> h] \in Outcome
      BY <2>0, <2>1, OutcomesTyped
    <2>3. /\ rows' \in RowTable /\ station' \in Station
          /\ station'.phase \in Applying => station'.row \in Attempts
      BY <1>2, <2>2, ResultKeeps DEF Synchronize, Applying
    <2> HIDE DEF h
    <2>4. trees' = [trees EXCEPT ![SubtaskOf(Current)] = h]
      BY <1>2 DEF Synchronize, h
    <2> QED BY <1>2, <2>1, <2>3, <2>4 DEF Synchronize, Typed
  <1>3. CASE SynchronizeFails
    <2>0. Current \in Attempts /\ NoTree \in Reach
      BY <1>3, CurrentTyped DEF SynchronizeFails, Applying, NoTree, Reach
    <2>1. [type |-> "stale", row |-> Current, head |-> NoTree] \in Outcome
      BY <2>0, OutcomesTyped
    <2>2. /\ rows' \in RowTable /\ station' \in Station
          /\ station'.phase \in Applying => station'.row \in Attempts
      BY <1>3, <2>1, ResultKeeps DEF SynchronizeFails, Applying
    <2> QED BY <1>3, <2>2 DEF SynchronizeFails, Typed
  <1>4. CASE Close
    <2>1. rows' \in RowTable
      BY <1>4 DEF Close, Mark, Typed, RowTable, RowStatus
    <2> QED BY <1>4, <2>1, OutcomesTyped DEF Close, Idle, Station, Phases, Applying, Typed
  <1>5. CASE Crash
    <2>1. attempts' \in [Subtasks -> Attempting]
          /\ \A s \in Subtasks : attempts'[s].n = attempts[s].n /\ attempts'[s].phase = "none"
      BY <1>5 DEF Crash, Typed, Attempting
    <2>2. station' \in Station /\ station'.phase \notin Applying
      BY <1>5 DEF Crash, Idle, Station, Phases, Applying
    <2>3. \A s \in Subtasks : attempts'[s].n <= MaxAttempts[s]
      BY <2>1 DEF Typed
    <2> QED BY <1>5, <2>1, <2>2, <2>3 DEF Crash, Typed
  <1> QED BY <1>1, <1>2, <1>3, <1>4, <1>5

LEMMA ReissuedTyped ==
  ASSUME NEW r \in RowTable, NEW a \in Attempts, NEW h \in Reach
  PROVE  Reissued(r, a, h) \in RowTable
  BY DEF Reissued, RowTable, RowStatus

LEMMA ReissueTyped ==
  ASSUME Typed, Heads, Requesting,
         \/ Reissue
         \/ \E a \in Attempts : RecoverStale(a) \/ RecoverStaleFails(a)
  PROVE  Typed'
  <1> USE DEF stores, bounds, Running, Set
  <1>1. CASE Reissue
    <2> DEFINE stale == Head(station.outcomes)
    <2>0. station.outcomes # << >> /\ stale.type = "stale"
      BY <1>1 DEF Reissue, Requesting
    <2>a. stale.row \in Attempts /\ stale.head \in Reach /\ SubtaskOf(stale.row) \in Subtasks
      BY <2>0, OutcomesTyped, AttemptsOf
    <2>b. Tail(station.outcomes) \in Seq(Outcome) /\ station \in Station
      BY <2>0, OutcomesTyped DEF Typed
    <2>c. Handled \in Station /\ Handled.phase = "handling"
      BY <2>b DEF Handled, Station, Phases
    <2>d. Idle \in Station /\ Idle.phase = "idle"
      BY DEF Idle, Station, Phases
    <2>1. /\ stale.row \in Attempts /\ stale.head \in Reach /\ SubtaskOf(stale.row) \in Subtasks
          /\ Handled \in Station /\ Idle \in Station
          /\ Handled.phase \notin Applying /\ Idle.phase \notin Applying
      BY <2>a, <2>c, <2>d DEF Applying
    <2>2. rows' \in RowTable
      BY <1>1, <2>1, ReissuedTyped DEF Reissue, Typed
    <2>3. station' \in {Handled, Idle}
      BY <1>1 DEF Reissue
    <2> QED BY <1>1, <2>1, <2>2, <2>3 DEF Reissue, Typed
  <1>2. ASSUME NEW a \in Attempts, RecoverStale(a) PROVE Typed'
    <2> DEFINE s == SubtaskOf(a)
    <2> DEFINE h == Synchronized(a, Ensured(s)[s])
    <2>1. s \in Subtasks
      BY AttemptsOf
    <2>2. Ensured(s)[s] \in Reach /\ WellFormed(Ensured(s)[s])
      BY <2>1, EnsuredReach DEF Heads
    <2>3. h \in Reach
      BY <2>2, SynchronizedReach
    <2>4. /\ trees' = [trees EXCEPT ![s] = h] /\ rows' = Reissued(rows, a, h)
          /\ startup' = startup \ {a}
      BY <1>2 DEF RecoverStale
    <2>5. rows' \in RowTable
      BY <2>3, <2>4, ReissuedTyped DEF Typed
    <2>6. /\ UNCHANGED << attempts, main, station >> /\ task' \in {task, "running"}
          /\ subtasks' = [subtasks EXCEPT ![s] = "awaiting_integration"]
      BY <1>2 DEF RecoverStale
    <2> HIDE DEF h, s
    <2> QED BY <2>1, <2>3, <2>4, <2>5, <2>6 DEF Typed
  <1>3. ASSUME NEW a \in Attempts, RecoverStaleFails(a) PROVE Typed'
    <2>1. Ensured(SubtaskOf(a)) \in [Subtasks -> Reach]
      BY AttemptsOf, EnsuredReach DEF Heads
    <2> QED BY <1>3, <2>1 DEF RecoverStaleFails, Typed
  <1> QED BY <1>1, <1>2, <1>3

(* Every step of the specification keeps the types. *)
LEMMA StepTyped ==
  ASSUME Inv, [Next]_vars
  PROVE  Typed'
  <1> USE DEF Inv
  <1>1. CASE Execution
    BY <1>1, DrainStepTyped, OutcomeStepTyped, ReissueTyped DEF Execution
  <1>2. CASE \E s \in Subtasks : Dispatch(s) \/ Validate(s) \/ Land(s) \/ LandCancelled(s) \/ Fail(s)
    BY <1>2, AttemptStepTyped
  <1>3. CASE \E a \in Attempts : \/ Approve(a) \/ Deny(a) \/ CancellationEnds(a)
                                 \/ RecoverStale(a) \/ RecoverStaleFails(a)
    <2>1. CASE \E a \in Attempts : Approve(a) \/ Deny(a) \/ CancellationEnds(a)
      BY <2>1, UserStepTyped
    <2>2. CASE \E a \in Attempts : RecoverStale(a) \/ RecoverStaleFails(a)
      BY <2>2, ReissueTyped
    <2> QED BY <1>3, <2>1, <2>2
  <1>4. CASE (\E S \in SUBSET Subtasks : Cancel(S)) \/ Resume \/ OtherCommit
    BY <1>4, UserStepTyped
  <1>5. CASE Crash
    BY <1>5, OutcomeStepTyped
  <1>6. CASE UNCHANGED vars
    BY <1>6 DEF vars, stores, bounds, Typed, Running
  <1> QED BY <1>1, <1>2, <1>3, <1>4, <1>5, <1>6 DEF Next

(***************************************************************************)
(* What a step does to the table, to main and to the approvals             *)
(***************************************************************************)

(* Nothing is unapproved, and main is never rewritten. *)
LEMMA MainGrows ==
  ASSUME Inv, [Next]_vars
  PROVE  /\ authorized \subseteq authorized'
         /\ main.version <= main'.version /\ main.has \subseteq main'.has
         /\ \A h \in Reach : WellFormed(h) => WellFormed(h)'
         /\ \A h \in Reach : Contains(MainHead, h) => Contains(MainHead, h)'
  <1> USE DEF Inv
  <1>1. authorized \subseteq authorized'
    BY DEF Next, Execution, Begin, Drain, Ensure, EnsureFails, PromoteFails, CheckMain, Stale, Merge,
           CommitResult, CommitRefused, Remove, RemoveFails, Synchronize, SynchronizeFails,
           HandleIntegrated, HandleStale, Reissue, HandlingEnds, Complete, Close, Dispatch, Validate,
           Land, LandCancelled, Fail, Approve, Deny, CancellationEnds, RecoverStale,
           RecoverStaleFails, Cancel, Resume, OtherCommit, Crash, vars, stores
  <1>2. main' = main \/ Merge \/ OtherCommit
    BY DEF Next, Execution, Begin, Drain, Ensure, EnsureFails, PromoteFails, CheckMain, Stale,
           CommitResult, CommitRefused, Remove, RemoveFails, Synchronize, SynchronizeFails,
           HandleIntegrated, HandleStale, Reissue, HandlingEnds, Complete, Close, Dispatch, Validate,
           Land, LandCancelled, Fail, Approve, Deny, CancellationEnds, RecoverStale,
           RecoverStaleFails, Cancel, Resume, Crash, vars
  <1>3. main.version <= main'.version /\ main.has \subseteq main'.has
    <2>1. CASE Merge
      <3>1. Current \in Attempts
        BY <2>1, CurrentTyped DEF Merge, Step, Applying
      <3>2. rows[Current].candidate \in Reach /\ WellFormed(rows[Current].candidate)
        BY <3>1 DEF Typed, RowTable, Heads
      <3> QED BY <2>1, <3>2, PromotedReaches DEF Merge
    <2>2. CASE OtherCommit
      BY <2>2 DEF OtherCommit, Typed
    <2> QED BY <1>2, <2>1, <2>2 DEF Typed
  <1>4. Typed'
    BY StepTyped
  <1>5. \A h \in Reach : WellFormed(h) => WellFormed(h)'
    BY <1>3, <1>4 DEF WellFormed, Reach, Typed
  <1>6. \A h \in Reach : Contains(MainHead, h) => Contains(MainHead, h)'
    BY <1>3, <1>4 DEF Contains, MainHead, Reach, Typed
  <1> QED BY <1>1, <1>3, <1>5, <1>6

(* The candidate of a parked row is replaced, and its approval asked for again. *)
ReissueOf(a, h) ==
    /\ WellFormed(h) /\ rows[a].status = "parked"
    /\ rows' = Reissued(rows, a, h)
    /\ subtasks' = [subtasks EXCEPT ![SubtaskOf(a)] = "awaiting_integration"]

LEMMA ReissuesAre ==
  ASSUME Inv, Reissue \/ \E a \in Attempts : RecoverStale(a)
  PROVE  rows' = rows \/ \E a \in Attempts, h \in Reach : ReissueOf(a, h)
  <1> USE DEF Inv
  <1>1. CASE Reissue
    <2> DEFINE stale == Head(station.outcomes)
    <2>1. station.outcomes # << >> /\ stale.type = "stale"
      BY <1>1 DEF Reissue, Requesting
    <2>2. stale.row \in Attempts /\ stale.head \in Reach /\ WellFormed(stale.head)
      BY <2>1, OutcomesTyped
    <2>3. CASE rows[stale.row].status = "parked"
      <3>1. ReissueOf(stale.row, stale.head)
        BY <1>1, <2>2, <2>3 DEF Reissue, ReissueOf, Set
      <3> QED BY <2>2, <3>1
    <2>4. CASE rows[stale.row].status # "parked"
      BY <1>1, <2>4 DEF Reissue
    <2> QED BY <2>3, <2>4
  <1>2. ASSUME NEW a \in Attempts, RecoverStale(a)
        PROVE  \E h \in Reach : ReissueOf(a, h)
    <2> DEFINE h == Synchronized(a, Ensured(SubtaskOf(a))[SubtaskOf(a)])
    <2>1. Ensured(SubtaskOf(a))[SubtaskOf(a)] \in Reach /\ WellFormed(Ensured(SubtaskOf(a))[SubtaskOf(a)])
      BY AttemptsOf, EnsuredReach DEF Heads
    <2>2. h \in Reach /\ WellFormed(h)
      BY <2>1, SynchronizedReach
    <2>3. rows[a].status = "parked" /\ rows' = Reissued(rows, a, h)
      BY <1>2 DEF RecoverStale, Recovering
    <2>4. subtasks' = [subtasks EXCEPT ![SubtaskOf(a)] = "awaiting_integration"]
      BY <1>2 DEF RecoverStale, Set
    <2> HIDE DEF h
    <2> QED BY <2>2, <2>3, <2>4 DEF ReissueOf
  <1> QED BY <1>1, <1>2

(* Every other step only marks rows, lands a new one, approves one, or records *)
(* an integration.                                                             *)
LEMMA RowsStep ==
  ASSUME Inv, [Next]_vars
  PROVE  \/ Keeps(rows, rows')
         \/ \E s \in Subtasks : Land(s)
         \/ \E a \in Attempts : Approve(a)
         \/ CommitResult
         \/ \E a \in Attempts, h \in Reach : ReissueOf(a, h)
  <1> USE DEF Inv
  <1>0. rows \in RowTable /\ Keeps(rows, rows) /\ << >> \in Seq(Outcome)
    BY DEF Typed, Keeps
  <1>1. CASE Drain \/ HandlingEnds
    <2>1. rows' = rows \/ Take(Recovered(rows), << >>)
      BY <1>1 DEF Drain, HandlingEnds
    <2>2. Keeps(rows, Recovered(rows)) /\ Recovered(rows) \in RowTable
      BY <1>0, RecoveredKeeps DEF Keeps
    <2>3. Take(Recovered(rows), << >>) => Keeps(rows, rows')
      BY <1>0, <2>2, TakeKeeps, KeepsIsTransitive
    <2> QED BY <1>0, <2>1, <2>3
  <1>2. CASE PromoteFails \/ Stale
    <2>1. Current \in Attempts
      BY <1>2, CurrentTyped DEF PromoteFails, Stale, Step, Applying
    <2>2. \E to \in {"pending", "parked"} : rows' = Mark(rows, Current, {"applying"}, to)
      BY <1>2 DEF PromoteFails, Stale
    <2> QED BY <1>0, <2>1, <2>2, MarkKeeps
  <1>3. CASE Remove \/ Synchronize \/ SynchronizeFails
    <2> DEFINE h == Synchronized(Current, trees[SubtaskOf(Current)])
    <2>1. Current \in Attempts /\ SubtaskOf(Current) \in Subtasks
      BY <1>3, CurrentTyped DEF Remove, Synchronize, SynchronizeFails, Applying
    <2>2. h \in Reach /\ NoTree \in Reach
      BY <2>1, SynchronizedReach DEF Typed, Heads, NoTree, Reach
    <2> HIDE DEF h
    <2>3. \E o \in Outcome : Result(o)
      <3>1. CASE Remove
        BY <3>1, OutcomesTyped DEF Remove
      <3>2. CASE Synchronize
        BY <3>2, <2>1, <2>2, OutcomesTyped DEF Synchronize, h
      <3>3. CASE SynchronizeFails
        BY <3>3, <2>1, <2>2, OutcomesTyped DEF SynchronizeFails
      <3> QED BY <1>3, <3>1, <3>2, <3>3
    <2> QED BY <2>3, ResultKeeps
  <1>4. CASE Close
    <2>1. rows' \in RowTable
      BY <1>4, StepTyped DEF Typed, Next, Execution
    <2> QED BY <1>0, <1>4, <2>1 DEF Close, Mark, Keeps, Covered, Closed, RowTable
  <1>5. CASE \E S \in SUBSET Subtasks : Cancel(S)
    BY <1>0, <1>5, CancelRequestedKeeps DEF Cancel
  <1>6. CASE \E a \in Attempts : Deny(a) \/ CancellationEnds(a)
    <2>1. rows' \in RowTable
      BY <1>6, UserStepTyped DEF Typed
    <2> QED BY <1>0, <1>6, <2>1 DEF Deny, CancellationEnds, Keeps, Covered, Closed, RowTable
  <1>7. CASE Reissue \/ \E a \in Attempts : RecoverStale(a)
    BY <1>0, <1>7, ReissuesAre
  <1>8. CASE rows' = rows
    BY <1>0, <1>8
  <1>9. \/ Drain \/ HandlingEnds \/ PromoteFails \/ Stale \/ Remove \/ Synchronize \/ SynchronizeFails
        \/ Close \/ Reissue \/ CommitResult
        \/ \E S \in SUBSET Subtasks : Cancel(S)
        \/ \E a \in Attempts : Deny(a) \/ CancellationEnds(a) \/ Approve(a) \/ RecoverStale(a)
        \/ \E s \in Subtasks : Land(s)
        \/ rows' = rows
    BY DEF Next, Execution, Begin, Ensure, EnsureFails, CheckMain, Merge, CommitRefused, RemoveFails,
           HandleIntegrated, HandleStale, Complete, Dispatch, Validate, LandCancelled, Fail,
           RecoverStaleFails, Resume, OtherCommit, Crash, vars, stores
  <1> QED BY <1>1, <1>2, <1>3, <1>4, <1>5, <1>6, <1>7, <1>8, <1>9

(***************************************************************************)
(* The parts of the invariant that follow from what happens to the table   *)
(***************************************************************************)

(* The attempt that lands has no row yet. *)
LEMMA LandsFresh ==
  ASSUME Inv, NEW s \in Subtasks, Land(s)
  PROVE  /\ << s, attempts[s].n >> \in Attempts
         /\ rows[<< s, attempts[s].n >>].status = "none"
         /\ rows' = [rows EXCEPT ![<< s, attempts[s].n >>] =
                        [status |-> "awaiting_approval", candidate |-> trees[s]]]
         /\ trees[s] \in Reach /\ WellFormed(trees[s])
  <1>1. Running(s) /\ attempts[s].n \in Nat
    BY DEF Land, Running, Inv, Typed, Attempting
  <1>2. << s, attempts[s].n >> \in Attempts
    BY <1>1, AttemptsOf DEF Inv, Typed
  <1>3. Unlanded(<< s, attempts[s].n >>)
    BY <1>1 DEF Unlanded
  <1> QED BY <1>2, <1>3 DEF Inv, Fresh, Typed, Heads, Land

LEMMA ApprovedStep ==
  ASSUME Inv, [Next]_vars
  PROVE  Approved'
  <1> USE DEF Inv, Approved
  <1>0. rows \in RowTable /\ authorized \subseteq authorized'
    BY MainGrows DEF Typed
  <1>1. CASE Keeps(rows, rows')
    BY <1>0, <1>1 DEF Keeps
  <1>2. ASSUME NEW s \in Subtasks, Land(s) PROVE Approved'
    <2> DEFINE landed == << s, attempts[s].n >>
    <2>1. /\ landed \in Attempts
          /\ rows' = [rows EXCEPT ![landed] = [status |-> "awaiting_approval", candidate |-> trees[s]]]
      BY <1>2, LandsFresh
    <2> HIDE DEF landed
    <2>2. rows'[landed].status \notin Covered /\ \A a \in Attempts : a # landed => rows'[a] = rows[a]
      BY <1>0, <2>1 DEF RowTable, Covered
    <2> QED BY <1>0, <2>2
  <1>3. ASSUME NEW a \in Attempts, Approve(a) PROVE Approved'
    BY <1>0, <1>3 DEF Approve, RowTable, Covered
  <1>4. CASE CommitResult
    BY <1>0, <1>4 DEF CommitResult, RowTable, Covered
  <1>5. ASSUME NEW a \in Attempts, NEW h \in Reach, ReissueOf(a, h) PROVE Approved'
    BY <1>0, <1>5 DEF ReissueOf, Reissued, RowTable, Covered
  <1> QED BY <1>1, <1>2, <1>3, <1>4, <1>5, RowsStep

LEMMA OnlyApprovedStep ==
  ASSUME Inv, [Next]_vars
  PROVE  OnlyApproved'
  <1> USE DEF Inv
  <1>1. main'.has = main.has \/ Merge
    BY DEF Next, Execution, Begin, Drain, Ensure, EnsureFails, PromoteFails, CheckMain, Stale,
           CommitResult, CommitRefused, Remove, RemoveFails, Synchronize, SynchronizeFails,
           HandleIntegrated, HandleStale, Reissue, HandlingEnds, Complete, Close, Dispatch, Validate,
           Land, LandCancelled, Fail, Approve, Deny, CancellationEnds, RecoverStale,
           RecoverStaleFails, Cancel, Resume, OtherCommit, Crash, vars, Typed
  <1>2. CASE main'.has = main.has
    BY <1>2, MainGrows DEF OnlyApproved
  <1>3. CASE Merge
    <2>1. Current \in Attempts /\ rows[Current].candidate \in authorized
      BY <1>3, CurrentTyped DEF Merge, Step, Applying, InFlight, Taken
    <2>2. main'.has \subseteq main.has \cup rows[Current].candidate.has
      <3>1. rows[Current].candidate \in Reach /\ WellFormed(rows[Current].candidate)
        BY <2>1 DEF Typed, RowTable, Heads
      <3> QED BY <1>3, <3>1, PromotedReaches DEF Merge
    <2> QED BY <2>1, <2>2, MainGrows DEF OnlyApproved
  <1> QED BY <1>1, <1>2, <1>3

LEMMA DoneIsMergedStep ==
  ASSUME Inv, [Next]_vars
  PROVE  DoneIsMerged'
  <1> USE DEF Inv
  <1>0. /\ rows \in RowTable /\ rows' \in RowTable
        /\ \A h \in Reach : Contains(MainHead, h) => Contains(MainHead, h)'
    BY MainGrows, StepTyped DEF Typed
  <1>1. \A a \in Attempts : rows[a].status = "integrated" => rows'[a] = rows[a]
    <2>1. CASE Keeps(rows, rows')
      BY <1>0, <2>1 DEF Keeps, RowTable
    <2>2. ASSUME NEW s \in Subtasks, Land(s)
          PROVE  \A a \in Attempts : rows[a].status = "integrated" => rows'[a] = rows[a]
      BY <1>0, <2>2, LandsFresh DEF RowTable
    <2>3. ASSUME NEW b \in Attempts, Approve(b)
          PROVE  \A a \in Attempts : rows[a].status = "integrated" => rows'[a] = rows[a]
      BY <1>0, <2>3 DEF Approve, RowTable
    <2>4. CASE CommitResult
      BY <1>0, <2>4 DEF CommitResult, RowTable
    <2>5. ASSUME NEW b \in Attempts, NEW h \in Reach, ReissueOf(b, h)
          PROVE  \A a \in Attempts : rows[a].status = "integrated" => rows'[a] = rows[a]
      BY <1>0, <2>5 DEF ReissueOf, Reissued, RowTable
    <2> QED BY <2>1, <2>2, <2>3, <2>4, <2>5, RowsStep
  <1>2. CASE ~CommitResult
    <2>1. \A s \in Subtasks : subtasks'[s] = "done" => subtasks[s] = "done"
      BY <1>2 DEF Next, Execution, Begin, Drain, Ensure, EnsureFails, PromoteFails, CheckMain, Stale,
           Merge, CommitRefused, Remove, RemoveFails, Synchronize, SynchronizeFails,
           HandleIntegrated, HandleStale, Reissue, HandlingEnds, Complete, Close, Dispatch, Validate,
           Land, LandCancelled, Fail, Approve, Deny, CancellationEnds, RecoverStale,
           RecoverStaleFails, Cancel, Resume, OtherCommit, Crash, vars, stores, Set, Typed
    <2> QED BY <1>0, <1>1, <2>1 DEF DoneIsMerged, RowTable
  <1>3. CASE CommitResult
    <2>1. PICK a \in Attempts : a = Current
      BY <1>3, CurrentTyped DEF CommitResult, Applying
    <2>2. SubtaskOf(a) \in Subtasks /\ rows[a].candidate \in Reach
      BY AttemptsOf DEF Typed, RowTable
    <2>3. Contains(MainHead, rows[a].candidate)
      BY <1>3, <2>1 DEF CommitResult, InFlight, Taken
    <2>4. rows' = [rows EXCEPT ![a].status = "integrated"]
      BY <1>3, <2>1 DEF CommitResult
    <2>5. rows'[a].status = "integrated" /\ rows'[a].candidate = rows[a].candidate
      BY <1>0, <2>4 DEF RowTable
    <2>6. Contains(MainHead, rows[a].candidate)'
      <3> SUFFICES ASSUME NEW h, h = rows'[a].candidate PROVE Contains(MainHead, h)'
        OBVIOUS
      <3> QED BY <1>0, <2>2, <2>3, <2>5
    <2>7. \A s \in Subtasks : subtasks'[s] = "done" => subtasks[s] = "done" \/ s = SubtaskOf(a)
      BY <1>3, <2>1 DEF CommitResult, Set, Typed
    <2> QED BY <1>0, <1>1, <2>2, <2>5, <2>6, <2>7 DEF DoneIsMerged, RowTable
  <1> QED BY <1>2, <1>3

(* Whatever a row, a worktree or an outcome holds was a head of its time. *)
LEMMA HeadsStep ==
  ASSUME Inv, [Next]_vars
  PROVE  Heads'
  <1> USE DEF Inv
  <1>0. /\ rows \in RowTable /\ rows' \in RowTable /\ Typed'
        /\ trees \in [Subtasks -> Reach] /\ trees' \in [Subtasks -> Reach]
        /\ \A h \in Reach : WellFormed(h) => WellFormed(h)'
    BY MainGrows, StepTyped DEF Typed
  <1>1. \A a \in Attempts : rows'[a].candidate = rows[a].candidate
                            \/ \E h \in Reach : rows'[a].candidate = h /\ WellFormed(h)
    <2>1. CASE Keeps(rows, rows')
      BY <2>1 DEF Keeps
    <2>2. ASSUME NEW s \in Subtasks, Land(s)
          PROVE  \A a \in Attempts : rows'[a].candidate = rows[a].candidate
                                     \/ \E h \in Reach : rows'[a].candidate = h /\ WellFormed(h)
      <3> DEFINE landed == << s, attempts[s].n >>
      <3>1. /\ landed \in Attempts /\ trees[s] \in Reach /\ WellFormed(trees[s])
            /\ rows' = [rows EXCEPT ![landed] = [status |-> "awaiting_approval", candidate |-> trees[s]]]
        BY <2>2, LandsFresh
      <3> HIDE DEF landed
      <3> QED BY <1>0, <3>1 DEF RowTable
    <2>3. ASSUME NEW b \in Attempts, Approve(b)
          PROVE  \A a \in Attempts : rows'[a].candidate = rows[a].candidate
      BY <1>0, <2>3 DEF Approve, RowTable
    <2>4. CASE CommitResult
      BY <1>0, <2>4 DEF CommitResult, RowTable
    <2>5. ASSUME NEW b \in Attempts, NEW h \in Reach, ReissueOf(b, h)
          PROVE  \A a \in Attempts : rows'[a].candidate = rows[a].candidate
                                     \/ \E g \in Reach : rows'[a].candidate = g /\ WellFormed(g)
      BY <1>0, <2>5 DEF ReissueOf, Reissued, RowTable
    <2> QED BY <2>1, <2>2, <2>3, <2>4, <2>5, RowsStep
  <1>2. \A s \in Subtasks : trees'[s] = trees[s]
                            \/ \E h \in Reach : trees'[s] = h /\ (WellFormed(h) \/ WellFormed(h)')
    <2> DEFINE Ok == \A s \in Subtasks : trees'[s] = trees[s]
                            \/ \E h \in Reach : trees'[s] = h /\ (WellFormed(h) \/ WellFormed(h)')
    <2>1. ASSUME NEW s \in Subtasks, trees' = Ensured(s) PROVE Ok
      BY <2>1, EnsuredReach DEF Heads
    <2>2. ASSUME NEW s \in Subtasks, NEW h \in Reach, WellFormed(h), trees' = [trees EXCEPT ![s] = h]
          PROVE  Ok
      BY <1>0, <2>2
    <2> HIDE DEF Ok
    <2>3. ASSUME NEW s \in Subtasks, Dispatch(s) \/ Validate(s) PROVE Ok
      <3>1. CASE Dispatch(s)
        BY <3>1, <2>1 DEF Dispatch
      <3>2. CASE Validate(s)
        <4>1. << s, attempts[s].n >> \in Attempts
          BY <3>2, AttemptsOf DEF Validate, Running, Typed, Attempting
        <4>2. /\ CommittedFor(<< s, attempts[s].n >>, trees[s]) \in Reach
              /\ WellFormed(CommittedFor(<< s, attempts[s].n >>, trees[s]))
          BY <1>0, <4>1, CommittedForReach
        <4> QED BY <3>2, <4>2, <2>2 DEF Validate
      <3> QED BY <2>3, <3>1, <3>2
    <2>4. CASE Ensure
      <3>1. PICK s \in Subtasks : s = SubtaskOf(Current)
        BY <2>4, CurrentTyped DEF Ensure, Step, Applying
      <3>2. trees' = Ensured(s)
        BY <2>4, <3>1 DEF Ensure
      <3> QED BY <3>2, EnsuredReach DEF Heads, Ok
    <2>5. CASE Remove
      <3>1. NoTree \in Reach /\ WellFormed(NoTree)
        BY DEF NoTree, Reach, WellFormed, Typed
      <3> QED BY <2>5, <2>2, <3>1, CurrentTyped DEF Remove, Applying
    <2>6. CASE Synchronize
      <3>1. Current \in Attempts /\ SubtaskOf(Current) \in Subtasks
        BY <2>6, CurrentTyped DEF Synchronize, Applying
      <3>2. /\ Synchronized(Current, trees[SubtaskOf(Current)]) \in Reach
            /\ WellFormed(Synchronized(Current, trees[SubtaskOf(Current)]))
        BY <1>0, <3>1, SynchronizedReach DEF Heads
      <3> QED BY <2>6, <2>2, <3>1, <3>2 DEF Synchronize
    <2>7. ASSUME NEW a \in Attempts, RecoverStale(a) \/ RecoverStaleFails(a) PROVE Ok
      <3>1. SubtaskOf(a) \in Subtasks
        BY AttemptsOf
      <3>2. CASE RecoverStale(a)
        <4>1. /\ Ensured(SubtaskOf(a))[SubtaskOf(a)] \in Reach
              /\ WellFormed(Ensured(SubtaskOf(a))[SubtaskOf(a)])
          BY <3>1, EnsuredReach DEF Heads
        <4>2. /\ Synchronized(a, Ensured(SubtaskOf(a))[SubtaskOf(a)]) \in Reach
              /\ WellFormed(Synchronized(a, Ensured(SubtaskOf(a))[SubtaskOf(a)]))
          BY <4>1, SynchronizedReach
        <4> QED BY <3>2, <2>2, <3>1, <4>2 DEF RecoverStale
      <3>3. CASE RecoverStaleFails(a)
        BY <3>1, <3>3, <2>1 DEF RecoverStaleFails
      <3> QED BY <2>7, <3>2, <3>3
    <2>8. CASE trees' = trees
      BY <2>8 DEF Ok
    <2>9. \/ Ensure \/ Remove \/ Synchronize \/ trees' = trees
          \/ \E s \in Subtasks : Dispatch(s) \/ Validate(s)
          \/ \E a \in Attempts : RecoverStale(a) \/ RecoverStaleFails(a)
      BY DEF Next, Execution, Begin, Drain, EnsureFails, PromoteFails, CheckMain, Stale, Merge,
             CommitResult, CommitRefused, RemoveFails, SynchronizeFails, HandleIntegrated,
             HandleStale, Reissue, HandlingEnds, Complete, Close, Land, LandCancelled, Fail, Approve,
             Deny, CancellationEnds, Cancel, Resume, OtherCommit, Crash, vars
    <2> QED BY <2>3, <2>4, <2>5, <2>6, <2>7, <2>8, <2>9 DEF Ok
  <1>3. \A s \in Subtasks : WellFormed(trees[s])'
    BY <1>0, <1>2 DEF Heads, WellFormed
  <1>4. \A a \in Attempts : WellFormed(rows[a].candidate)'
    BY <1>0, <1>1 DEF Heads, WellFormed, RowTable
  <1>5. \/ station'.outcomes \in {station.outcomes, << >>}
        \/ station.outcomes # << >> /\ station'.outcomes = Tail(station.outcomes)
        \/ \E o \in Outcome : /\ station'.outcomes = Append(station.outcomes, o)
                              /\ o.type = "stale" => \E h \in Reach : o.head = h /\ WellFormed(h)
    <2>0. station \in Station /\ << >> \in Seq(Outcome)
      BY DEF Typed
    <2>1. CASE Drain \/ HandlingEnds
      <3>1. Recovered(rows) \in RowTable
        BY <1>0, RecoveredKeeps DEF Keeps
      <3>2. Take(Recovered(rows), << >>) => station'.outcomes = << >>
        BY <2>0, <3>1, TakeKeeps
      <3>3. station'.outcomes = << >>
        BY <2>1, <3>2 DEF Drain, HandlingEnds, Idle
      <3> QED BY <3>3
    <2>2. CASE Remove
      <3>1. [type |-> "integrated"] \in Outcome
        BY OutcomesTyped
      <3>2. station'.outcomes = Append(station.outcomes, [type |-> "integrated"])
        BY <2>2, <3>1, ResultKeeps DEF Remove
      <3> QED BY <3>1, <3>2
    <2>3. CASE Synchronize
      <3> DEFINE h == Synchronized(Current, trees[SubtaskOf(Current)])
      <3> DEFINE o == [type |-> "stale", row |-> Current, head |-> h]
      <3>1. Current \in Attempts /\ SubtaskOf(Current) \in Subtasks
        BY <2>3, CurrentTyped DEF Synchronize, Applying
      <3>2. h \in Reach /\ WellFormed(h)
        BY <1>0, <3>1, SynchronizedReach DEF Heads
      <3>3. o \in Outcome
        BY <3>1, <3>2, OutcomesTyped
      <3>4. Result(o)
        BY <2>3 DEF Synchronize
      <3>5. station'.outcomes = Append(station.outcomes, o)
        BY <3>3, <3>4, ResultKeeps
      <3>6. o.head = h
        OBVIOUS
      <3> HIDE DEF h, o
      <3> QED BY <3>2, <3>3, <3>5, <3>6
    <2>4. CASE SynchronizeFails
      <3> DEFINE o == [type |-> "stale", row |-> Current, head |-> NoTree]
      <3>1. NoTree \in Reach /\ WellFormed(NoTree)
        BY DEF NoTree, Reach, WellFormed, Typed
      <3>2. o \in Outcome
        BY <2>4, <3>1, CurrentTyped, OutcomesTyped DEF SynchronizeFails, Applying
      <3>3. Result(o)
        BY <2>4 DEF SynchronizeFails
      <3>4. station'.outcomes = Append(station.outcomes, o) /\ o.head = NoTree
        BY <3>2, <3>3, ResultKeeps
      <3> HIDE DEF o
      <3> QED BY <3>1, <3>2, <3>4
    <2>. Handled.outcomes = Tail(station.outcomes) /\ Idle.outcomes = << >>
      BY <2>0 DEF Handled, Idle, Station
    <2>5. CASE Reissue
      <3>1. station.outcomes # << >> /\ station' \in {Handled, Idle}
        BY <2>5 DEF Reissue, Requesting
      <3> QED BY <3>1
    <2>6. CASE HandleIntegrated \/ HandleStale
      <3>1. station.outcomes # << >>
        BY <2>6 DEF HandleIntegrated, HandleStale, Handling
      <3>2. station' \in {[Handled EXCEPT !.progress = TRUE], Handled, Idle,
                           [station EXCEPT !.phase = "requesting"]}
        BY <2>6 DEF HandleIntegrated, HandleStale
      <3>3. /\ [Handled EXCEPT !.progress = TRUE].outcomes = Tail(station.outcomes)
            /\ [station EXCEPT !.phase = "requesting"].outcomes = station.outcomes
        BY <2>0 DEF Handled, Station
      <3> QED BY <3>1, <3>2, <3>3
    <2>7. CASE station'.outcomes = station.outcomes \/ station' = Idle
      BY <2>7 DEF Idle
    <2>8. \/ Drain \/ HandlingEnds \/ Remove \/ Synchronize \/ SynchronizeFails \/ Reissue
          \/ HandleIntegrated \/ HandleStale \/ Begin
          \/ station'.outcomes = station.outcomes \/ station' = Idle
      <3>3. Ensure \/ CheckMain \/ Stale \/ Merge \/ CommitResult => station'.outcomes = station.outcomes
        BY <2>0 DEF Ensure, CheckMain, Stale, Merge, CommitResult, Step, Station
      <3>4. \/ Drain \/ HandlingEnds \/ Remove \/ Synchronize \/ SynchronizeFails \/ Reissue
            \/ HandleIntegrated \/ HandleStale \/ Begin
            \/ Ensure \/ CheckMain \/ Stale \/ Merge \/ CommitResult
            \/ station' = station \/ station' = Idle
        BY DEF Next, Execution, EnsureFails, PromoteFails,
               CommitRefused, RemoveFails, Complete, Close, Dispatch, Validate,
               Land, LandCancelled, Fail, Approve, Deny, CancellationEnds, RecoverStale,
               RecoverStaleFails, Cancel, Resume, OtherCommit, Crash, Thrown, vars
      <3> QED BY <3>3, <3>4
    <2>9. CASE Begin
      BY <2>9 DEF Begin, Idle
    <2> QED BY <2>1, <2>2, <2>3, <2>4, <2>5, <2>6, <2>7, <2>8, <2>9
  <1>6. \A n \in DOMAIN station'.outcomes :
           station'.outcomes[n].type = "stale" => WellFormed(station.outcomes[n].head)'
    <2>0. station.outcomes \in Seq(Outcome) /\ station'.outcomes \in Seq(Outcome)
      BY <1>0 DEF Typed, Station
    <2>1. ASSUME NEW o \in Outcome, o.type = "stale", NEW h \in Reach, o.head = h
          PROVE  WellFormed(h) => WellFormed(o.head)'
      BY <1>0, <2>1
    <2>2. \A n \in DOMAIN station.outcomes :
            station.outcomes[n].type = "stale" => /\ station.outcomes[n].head \in Reach
                                                  /\ WellFormed(station.outcomes[n].head)
      BY <2>0 DEF Heads, Outcome
    <2>3. \A n \in DOMAIN station'.outcomes :
            station'.outcomes[n].type = "stale" =>
                \E h \in Reach : station'.outcomes[n].head = h /\ WellFormed(h)
      <3>1. CASE station'.outcomes \in {station.outcomes, << >>}
        BY <2>0, <2>2, <3>1
      <3>2. CASE station.outcomes # << >> /\ station'.outcomes = Tail(station.outcomes)
        <4>1. \A n \in DOMAIN station'.outcomes :
                n + 1 \in DOMAIN station.outcomes /\ station'.outcomes[n] = station.outcomes[n + 1]
          BY <2>0, <3>2
        <4> QED BY <2>2, <4>1
      <3>3. ASSUME NEW o \in Outcome, station'.outcomes = Append(station.outcomes, o),
                   o.type = "stale" => \E h \in Reach : o.head = h /\ WellFormed(h)
            PROVE  \A n \in DOMAIN station'.outcomes :
                     station'.outcomes[n].type = "stale" =>
                       \E h \in Reach : station'.outcomes[n].head = h /\ WellFormed(h)
        <4>1. \A n \in DOMAIN station'.outcomes :
                \/ n \in DOMAIN station.outcomes /\ station'.outcomes[n] = station.outcomes[n]
                \/ station'.outcomes[n] = o
          BY <2>0, <3>3
        <4> QED BY <2>2, <3>3, <4>1
      <3> QED BY <1>5, <3>1, <3>2, <3>3
    <2> QED BY <1>0, <2>3 DEF WellFormed
  <1> QED BY <1>3, <1>4, <1>6 DEF Heads

(* A row appears only when its attempt lands. *)
LEMMA FreshStep ==
  ASSUME Inv, [Next]_vars
  PROVE  Fresh'
  <1> USE DEF Inv
  <1>0. rows \in RowTable /\ Typed' /\ attempts \in [Subtasks -> Attempting]
    BY StepTyped DEF Typed
  <1>1. CASE \E s \in Subtasks : Land(s)
    <2>1. PICK s \in Subtasks : Land(s)
      BY <1>1
    <2> DEFINE landed == << s, attempts[s].n >>
    <2>2. /\ landed \in Attempts
          /\ rows' = [rows EXCEPT ![landed] = [status |-> "awaiting_approval", candidate |-> trees[s]]]
      BY <2>1, LandsFresh
    <2>3. /\ attempts' = [attempts EXCEPT ![s].phase = "none"]
          /\ attempts[s].phase = "requesting" /\ attempts[s].n \in Nat
      BY <1>0, <2>1 DEF Land, Attempting
    <2>4. \A a \in Attempts : Unlanded(a)' => Unlanded(a) /\ a # landed
      BY <1>0, <2>3, AttemptsOf DEF Unlanded, Running, Attempting
    <2> HIDE DEF landed
    <2>5. \A a \in Attempts : a # landed => rows'[a] = rows[a]
      BY <1>0, <2>2 DEF RowTable
    <2> QED BY <2>4, <2>5 DEF Fresh
  <1>2. CASE ~\E s \in Subtasks : Land(s)
    <2>1. \A a \in Attempts : rows[a].status = "none" <=> rows'[a].status = "none"
      <3>1. CASE Keeps(rows, rows')
        BY <3>1 DEF Keeps
      <3>2. ASSUME NEW b \in Attempts, Approve(b)
            PROVE  \A a \in Attempts : rows[a].status = "none" <=> rows'[a].status = "none"
        BY <1>0, <3>2 DEF Approve, RowTable
      <3>3. CASE CommitResult
        BY <1>0, <3>3 DEF CommitResult, RowTable
      <3>4. ASSUME NEW b \in Attempts, NEW h \in Reach, ReissueOf(b, h)
            PROVE  \A a \in Attempts : rows[a].status = "none" <=> rows'[a].status = "none"
        BY <1>0, <3>4 DEF ReissueOf, Reissued, RowTable
      <3> QED BY <1>2, <3>1, <3>2, <3>3, <3>4, RowsStep
    <2>2. \A a \in Attempts : Unlanded(a)' => Unlanded(a)
      <3>1. ASSUME NEW s \in Subtasks, Dispatch(s) \/ Validate(s) \/ LandCancelled(s) \/ Fail(s)
            PROVE  \A a \in Attempts : Unlanded(a)' => Unlanded(a)
        <4>1. CASE Dispatch(s)
          BY <1>0, <4>1, AttemptsOf DEF Dispatch, Unlanded, Running, Attempting, Attempts
        <4>2. CASE Validate(s)
          BY <1>0, <4>2, AttemptsOf DEF Validate, Unlanded, Running, Attempting
        <4>3. CASE LandCancelled(s)
          BY <1>0, <4>3, AttemptsOf DEF LandCancelled, Unlanded, Running, Attempting
        <4>4. CASE Fail(s)
          BY <1>0, <4>4, AttemptsOf DEF Fail, Unlanded, Running, Attempting
        <4> QED BY <3>1, <4>1, <4>2, <4>3, <4>4
      <3>2. CASE Crash
        BY <1>0, <3>2, AttemptsOf DEF Crash, Unlanded, Running, Attempting
      <3>3. CASE attempts' = attempts
        BY <3>3 DEF Unlanded, Running
      <3>4. \/ Crash \/ attempts' = attempts
            \/ \E s \in Subtasks : Dispatch(s) \/ Validate(s) \/ LandCancelled(s) \/ Fail(s)
        BY <1>2 DEF Next, Execution, Begin, Drain, Ensure, EnsureFails, PromoteFails, CheckMain,
               Stale, Merge, CommitResult, CommitRefused, Remove, RemoveFails, Synchronize,
               SynchronizeFails, HandleIntegrated, HandleStale, Reissue, HandlingEnds, Complete,
               Close, Approve, Deny, CancellationEnds, RecoverStale, RecoverStaleFails, Cancel,
               Resume, OtherCommit, vars
      <3> QED BY <3>1, <3>2, <3>3, <3>4
    <2> QED BY <2>1, <2>2 DEF Fresh
  <1> QED BY <1>1, <1>2

(* Only a stale outcome is asked about, and only it leaves the phase. *)
LEMMA RequestingStep ==
  ASSUME Inv, [Next]_vars
  PROVE  Requesting'
  <1> USE DEF Inv
  <1>0. station \in Station
    BY DEF Typed
  <1>1. CASE HandleStale
    <2>1. /\ station.outcomes # << >> /\ Head(station.outcomes).type = "stale"
          /\ station' \in {Handled, Idle, [station EXCEPT !.phase = "requesting"]}
      BY <1>1 DEF HandleStale, Handling
    <2>2. /\ Handled.phase = "handling" /\ Idle.phase = "idle"
          /\ [station EXCEPT !.phase = "requesting"].outcomes = station.outcomes
      BY <1>0 DEF Handled, Idle, Station
    <2> QED BY <2>1, <2>2 DEF Requesting
  <1>2. CASE station' = station
    BY <1>2 DEF Requesting
  <1>3. CASE station'.phase # "requesting"
    BY <1>3 DEF Requesting
  <1>4. HandleStale \/ station' = station \/ station'.phase # "requesting"
    <2>1. << >> \in Seq(Outcome) /\ Recovered(rows) \in RowTable /\ rows \in RowTable
      BY RecoveredKeeps DEF Keeps, Typed
    <2>2. Drain \/ HandlingEnds => station'.phase # "requesting"
      <3>1. Take(Recovered(rows), << >>) => station'.phase # "requesting"
        BY <2>1, TakeKeeps
      <3> QED BY <3>1 DEF Drain, HandlingEnds, Idle
    <2>3. Remove \/ Synchronize \/ SynchronizeFails => station'.phase # "requesting"
      BY DEF Remove, Synchronize, SynchronizeFails, Result, Take, Idle
    <2>4. Begin \/ Ensure \/ CheckMain \/ Stale \/ Merge \/ CommitResult => station'.phase # "requesting"
      BY <1>0 DEF Begin, Ensure, CheckMain, Stale, Merge, CommitResult, Step, Station, Idle
    <2>5. HandleIntegrated \/ Reissue => station'.phase # "requesting"
      <3>1. Handled.phase = "handling" /\ [Handled EXCEPT !.progress = TRUE].phase = "handling"
            /\ Idle.phase = "idle"
        BY <1>0 DEF Handled, Idle, Station
      <3>2. HandleIntegrated \/ Reissue => station' \in {[Handled EXCEPT !.progress = TRUE], Handled, Idle}
        BY DEF HandleIntegrated, Reissue
      <3> QED BY <3>1, <3>2
    <2>6. Idle.phase # "requesting"
      BY DEF Idle
    <2>7. \/ Drain \/ HandlingEnds \/ Remove \/ Synchronize \/ SynchronizeFails
          \/ Begin \/ Ensure \/ CheckMain \/ Stale \/ Merge \/ CommitResult
          \/ HandleIntegrated \/ Reissue \/ HandleStale
          \/ station' = station \/ station' = Idle
      BY DEF Next, Execution, EnsureFails, PromoteFails,
             CommitRefused, RemoveFails, Complete, Close, Dispatch, Validate,
             Land, LandCancelled, Fail, Approve, Deny, CancellationEnds, RecoverStale,
             RecoverStaleFails, Cancel, Resume, OtherCommit, Crash, Thrown, vars
    <2> QED BY <2>2, <2>3, <2>4, <2>5, <2>6, <2>7
  <1> QED BY <1>1, <1>2, <1>3, <1>4

(* What others do to the row that the worker holds. *)
LEMMA HeldRow ==
  ASSUME Inv, [Next]_vars, NEW a \in Attempts,
         rows[a].status \in {"applying", "cancelling", "cancelled"},
         \/ rows' = rows
         \/ \E s \in Subtasks : Land(s)
         \/ \E b \in Attempts : Approve(b) \/ Deny(b) \/ CancellationEnds(b)
         \/ \E S \in SUBSET Subtasks : Cancel(S)
  PROVE  /\ rows'[a].status \in {"applying", "cancelling", "cancelled"}
         /\ rows'[a].candidate = rows[a].candidate
  <1> USE DEF Inv
  <1>0. rows \in RowTable
    BY DEF Typed
  <1>1. ASSUME NEW s \in Subtasks, Land(s)
        PROVE  /\ rows'[a].status \in {"applying", "cancelling", "cancelled"}
               /\ rows'[a].candidate = rows[a].candidate
    <2> DEFINE landed == << s, attempts[s].n >>
    <2>1. /\ landed \in Attempts /\ rows[landed].status = "none"
          /\ rows' = [rows EXCEPT ![landed] = [status |-> "awaiting_approval", candidate |-> trees[s]]]
      BY <1>1, LandsFresh
    <2> HIDE DEF landed
    <2> QED BY <1>0, <2>1 DEF RowTable
  <1>2. ASSUME NEW b \in Attempts, Approve(b) \/ Deny(b) \/ CancellationEnds(b)
        PROVE  /\ rows'[a].status \in {"applying", "cancelling", "cancelled"}
               /\ rows'[a].candidate = rows[a].candidate
    BY <1>0, <1>2 DEF Approve, Deny, CancellationEnds, RowTable
  <1>3. ASSUME NEW S \in SUBSET Subtasks, Cancel(S)
        PROVE  /\ rows'[a].status \in {"applying", "cancelling", "cancelled"}
               /\ rows'[a].candidate = rows[a].candidate
    BY <1>0, <1>3 DEF Cancel, CancelRequested, RowTable
  <1> QED BY <1>1, <1>2, <1>3

(* The row that has been taken is not lost on the way. *)
LEMMA InFlightStep ==
  ASSUME Inv, [Next]_vars
  PROVE  InFlight'
  <1> USE DEF Inv
  <1>0. /\ station \in Station /\ rows \in RowTable /\ rows' \in RowTable
        /\ authorized \subseteq authorized' /\ Approved'
        /\ \A h \in Reach : Contains(MainHead, h) => Contains(MainHead, h)'
    BY MainGrows, StepTyped, ApprovedStep DEF Typed
  <1>1. CASE station'.phase \notin Taken
    BY <1>1 DEF InFlight
  <1>2. CASE /\ station'.phase = "ensuring" /\ station'.row \in Attempts
             /\ rows'[station'.row].status = "applying"
    BY <1>0, <1>2 DEF InFlight, Current, Approved, Covered
  <1>3. ASSUME station'.phase \in Taken, station.phase \in Taken, station'.row = station.row, rows' = rows,
               station'.phase = "committing" => station.phase = "committing" \/ Merge
        PROVE  InFlight'
    <2>1. PICK a \in Attempts : a = Current
      BY <1>3, CurrentTyped DEF Taken, Applying
    <2>2. /\ rows[a].status \in {"applying", "cancelling", "cancelled"}
          /\ rows[a].candidate \in authorized
          /\ rows[a].candidate \in Reach /\ WellFormed(rows[a].candidate)
      BY <1>0, <1>3, <2>1 DEF InFlight, Heads, RowTable
    <2> DEFINE h == rows[a].candidate
    <2>3. ASSUME Merge PROVE Contains(MainHead, h)'
      <3>1. main' = Promoted(h) /\ h' = h
        BY <1>3, <2>1, <2>3 DEF Merge
      <3>2. h.tip \in main'.has \cup {NoCommit} /\ h.base <= main'.version
        <4>1. h \in Reach /\ main.version \in Nat
          BY <2>2 DEF Typed
        <4> QED BY <2>2, <3>1, <4>1, PromotedReaches DEF WellFormed, Reach
      <3> QED BY <3>1, <3>2 DEF Contains, MainHead
    <2>4. ASSUME station.phase = "committing" PROVE Contains(MainHead, h)'
      <3>1. Contains(MainHead, h) /\ h \in Reach /\ h' = h
        BY <1>3, <2>1, <2>2, <2>4 DEF InFlight
      <3> QED BY <1>0, <3>1 DEF Contains, MainHead
    <2>5. Current' = a /\ rows'[a] = rows[a]
      BY <1>3, <2>1 DEF Current
    <2>6. station'.phase = "committing" => Contains(MainHead, h)'
      BY <1>3, <2>3, <2>4
    <2> QED BY <1>0, <2>2, <2>5, <2>6 DEF InFlight
  <1>4. ASSUME station' = station, station.phase \in Taken,
               \A a \in Attempts : rows[a].status \in {"applying", "cancelling", "cancelled"} =>
                  /\ rows'[a].status \in {"applying", "cancelling", "cancelled"}
                  /\ rows'[a].candidate = rows[a].candidate
        PROVE  InFlight'
    <2>1. PICK a \in Attempts : a = Current
      BY <1>4, CurrentTyped DEF Taken, Applying
    <2>2. /\ rows[a].status \in {"applying", "cancelling", "cancelled"}
          /\ rows[a].candidate \in authorized /\ rows[a].candidate \in Reach
          /\ station.phase = "committing" => Contains(MainHead, rows[a].candidate)
      BY <1>0, <1>4, <2>1 DEF InFlight, RowTable
    <2>3. /\ Current' = a
          /\ rows'[a].status \in {"applying", "cancelling", "cancelled"}
          /\ rows'[a].candidate = rows[a].candidate
      BY <1>4, <2>1, <2>2 DEF Current
    <2>4. station.phase = "committing" => Contains(MainHead, rows[a].candidate)'
      BY <1>0, <2>2, <2>3 DEF Contains, MainHead
    <2> QED BY <1>0, <1>4, <2>2, <2>3, <2>4 DEF InFlight
  <1>5. CASE Drain \/ HandlingEnds
    <2>1. << >> \in Seq(Outcome) /\ Recovered(rows) \in RowTable
      BY <1>0, RecoveredKeeps DEF Keeps
    <2>2. Take(Recovered(rows), << >>) \/ station'.phase = "settling"
      BY <1>5 DEF Drain, HandlingEnds, Idle
    <2>3. \/ station'.phase \in {"closing", "handling", "settling"}
          \/ /\ station'.phase = "ensuring" /\ station'.row \in Attempts
             /\ rows'[station'.row].status = "applying"
      BY <2>1, <2>2, TakeKeeps
    <2> QED BY <1>1, <1>2, <2>3 DEF Taken
  <1>6. CASE Remove \/ Synchronize \/ SynchronizeFails
    <2>1. \E o \in Outcome : Result(o)
      <3>1. Current \in Attempts /\ trees[SubtaskOf(Current)] \in Reach
            /\ WellFormed(trees[SubtaskOf(Current)])
        BY <1>6, CurrentTyped DEF Remove, Synchronize, SynchronizeFails, Applying, Heads
      <3>2. /\ Synchronized(Current, trees[SubtaskOf(Current)]) \in Reach
            /\ NoTree \in Reach
        BY <3>1, SynchronizedReach DEF NoTree, Reach
      <3>3. CASE Remove
        BY <3>3, OutcomesTyped DEF Remove
      <3>4. CASE Synchronize
        BY <3>1, <3>2, <3>4, OutcomesTyped DEF Synchronize
      <3>5. CASE SynchronizeFails
        BY <3>1, <3>2, <3>5, OutcomesTyped DEF SynchronizeFails
      <3> QED BY <1>6, <3>3, <3>4, <3>5
    <2>2. \/ station'.phase \in {"closing", "handling"}
          \/ /\ station'.phase = "ensuring" /\ station'.row \in Attempts
             /\ rows'[station'.row].status = "applying"
      BY <2>1, ResultKeeps
    <2> QED BY <1>1, <1>2, <2>2 DEF Taken
  <1>7. CASE Ensure \/ CheckMain \/ Merge
    <2>1. /\ rows' = rows /\ station'.row = station.row
          /\ station.phase \in Taken /\ station'.phase \in Taken
          /\ station'.phase = "committing" => Merge
      BY <1>0, <1>7 DEF Ensure, CheckMain, Merge, Step, Station, Taken, stores
    <2> QED BY <1>3, <2>1
  <1>8. CASE Begin \/ Stale \/ CommitResult \/ HandleIntegrated \/ HandleStale \/ Reissue
    <2>1. /\ Handled.phase = "handling" /\ [Handled EXCEPT !.progress = TRUE].phase = "handling"
          /\ Idle.phase = "idle" /\ [Idle EXCEPT !.phase = "settling"].phase = "settling"
          /\ \A p \in Phases : [station EXCEPT !.phase = p].phase = p
      BY <1>0 DEF Handled, Idle, Station
    <2>2. station' \in {[Handled EXCEPT !.progress = TRUE], Handled, Idle, [Idle EXCEPT !.phase = "settling"],
                        [station EXCEPT !.phase = "synchronizing"],
                        [station EXCEPT !.phase = "removing"],
                        [station EXCEPT !.phase = "requesting"]}
      BY <1>8 DEF Begin, Stale, CommitResult, Step, HandleIntegrated, HandleStale, Reissue
    <2> QED BY <1>1, <2>1, <2>2 DEF Taken, Phases, Applying
  <1>9. CASE station' = Idle
    BY <1>1, <1>9 DEF Idle, Taken
  <1>10. CASE /\ station' = station
              /\ \/ rows' = rows
                 \/ \E s \in Subtasks : Land(s)
                 \/ \E b \in Attempts : Approve(b) \/ Deny(b) \/ CancellationEnds(b)
                 \/ \E S \in SUBSET Subtasks : Cancel(S)
    BY <1>1, <1>4, <1>10, HeldRow
  <1>11. CASE \E b \in Attempts : RecoverStale(b)
    BY <1>1, <1>11 DEF RecoverStale, Recovering, Taken
  <1>12. \/ Drain \/ HandlingEnds \/ Remove \/ Synchronize \/ SynchronizeFails
         \/ Ensure \/ CheckMain \/ Merge
         \/ Begin \/ Stale \/ CommitResult \/ HandleIntegrated \/ HandleStale \/ Reissue
         \/ station' = Idle
         \/ station' = station /\ \/ rows' = rows
                                  \/ \E s \in Subtasks : Land(s)
                                  \/ \E b \in Attempts : Approve(b) \/ Deny(b) \/ CancellationEnds(b)
                                  \/ \E S \in SUBSET Subtasks : Cancel(S)
         \/ \E b \in Attempts : RecoverStale(b)
    BY DEF Next, Execution, EnsureFails, PromoteFails, CommitRefused, RemoveFails, Complete, Close,
           Dispatch, Validate, Land, LandCancelled, Fail, Approve, Deny, CancellationEnds,
           RecoverStaleFails, Cancel, Resume, OtherCommit, Crash, Thrown, stores, vars
  <1> QED BY <1>5, <1>6, <1>7, <1>8, <1>9, <1>10, <1>11, <1>12

(* Until startup has ended, only attempts run, and there are none. *)
LEMMA RecoveringStep ==
  ASSUME Inv, [Next]_vars
  PROVE  Recovering'
  <1> USE DEF Inv
  <1>0. rows \in RowTable /\ startup \in SUBSET Attempts
    BY DEF Typed
  <1>1. CASE Crash
    BY <1>1 DEF Crash, Recovering, Idle
  <1>2. CASE startup = {} /\ ~Crash
    <2>1. startup' = {}
      BY <1>2 DEF Next, Execution, Begin, Drain, Ensure, EnsureFails, PromoteFails, CheckMain,
             Stale, Merge, CommitResult, CommitRefused, Remove, RemoveFails, Synchronize,
             SynchronizeFails, HandleIntegrated, HandleStale, Reissue, HandlingEnds, Complete,
             Close, Dispatch, Validate, Land, LandCancelled, Fail, Approve, Deny, CancellationEnds,
             RecoverStale, RecoverStaleFails, Cancel, Resume, OtherCommit, vars
    <2> QED BY <2>1 DEF Recovering
  <1>3. CASE startup # {} /\ ~Crash
    <2>1. station.phase = "idle"
      BY <1>3 DEF Recovering
    <2>2. \/ startup' = startup /\ station' = station /\ rows' = rows
          \/ startup' = startup /\ station' = station /\ \E s \in Subtasks : Land(s)
          \/ startup' = startup /\ station' = station /\ \E a \in Attempts : CancellationEnds(a)
          \/ \E a \in Attempts : RecoverStale(a) \/ RecoverStaleFails(a)
      BY <1>3, <2>1 DEF Serving, Step, Handling, Next, Execution, Begin, Drain, Ensure, EnsureFails,
             PromoteFails, CheckMain, Stale, Merge, CommitResult, CommitRefused, Remove,
             RemoveFails, Synchronize, SynchronizeFails, HandleIntegrated, HandleStale, Reissue,
             HandlingEnds, Complete, Close, Dispatch, Validate, Land, LandCancelled, Fail, Approve,
             Deny, CancellationEnds, Cancel, Resume, OtherCommit, stores, vars
    <2>3. CASE startup' = startup /\ station' = station /\ rows' = rows
      BY <2>3 DEF Recovering
    <2>4. CASE startup' = startup /\ station' = station /\ \E s \in Subtasks : Land(s)
      <3>1. PICK s \in Subtasks : Land(s)
        BY <2>4
      <3> DEFINE landed == << s, attempts[s].n >>
      <3>2. /\ landed \in Attempts /\ rows[landed].status = "none"
            /\ rows' = [rows EXCEPT ![landed] = [status |-> "awaiting_approval", candidate |-> trees[s]]]
        BY <3>1, LandsFresh
      <3> HIDE DEF landed
      <3>3. \A a \in Attempts : a # landed => rows'[a] = rows[a]
        BY <1>0, <3>2 DEF RowTable
      <3>4. \A a \in startup : rows'[a].status = "parked"
        BY <1>0, <3>2, <3>3 DEF Recovering
      <3> QED BY <2>1, <2>4, <3>4 DEF Recovering
    <2>5. CASE startup' = startup /\ station' = station /\ \E a \in Attempts : CancellationEnds(a)
      <3>1. \A a \in startup : rows'[a].status = "parked"
        BY <1>0, <2>5 DEF CancellationEnds, Recovering, RowTable
      <3> QED BY <2>1, <2>5, <3>1 DEF Recovering
    <2>6. ASSUME NEW a \in Attempts, RecoverStale(a) \/ RecoverStaleFails(a)
          PROVE  Recovering'
      <3>1. startup' = startup \ {a} /\ station' = station
        BY <2>6 DEF RecoverStale, RecoverStaleFails
      <3>2. \A b \in Attempts : b # a => rows'[b] = rows[b]
        BY <1>0, <2>6 DEF RecoverStale, RecoverStaleFails, Reissued, RowTable, stores
      <3> QED BY <1>0, <2>1, <3>1, <3>2 DEF Recovering
    <2> QED BY <2>2, <2>3, <2>4, <2>5, <2>6
  <1> QED BY <1>1, <1>2, <1>3

(* The Task is cancelled in one transaction, for good, and with all its rows. *)
LEMMA CancelledIsClosedStep ==
  ASSUME Inv, [Next]_vars
  PROVE  CancelledIsClosed'
  <1> USE DEF Inv
  <1>0. rows \in RowTable /\ Typed' /\ subtasks \in [Subtasks -> {"ready", "running",
              "awaiting_integration", "blocked", "done", "cancelled"}]
    BY StepTyped DEF Typed
  <1>1. ASSUME NEW S \in SUBSET Subtasks, Cancel(S), task' = "cancelled"
        PROVE  CancelledIsClosed'
    <2>1. S = Subtasks /\ task # "cancelled"
      BY <1>1 DEF Cancel
    <2>2. \A a \in Attempts : rows'[a].status \in Closed
      BY <1>0, <1>1, <2>1, AttemptsOf DEF Cancel, CancelRequested, RowTable, RowStatus, Closed
    <2>3. \A s \in Subtasks : subtasks'[s] # "awaiting_integration"
      BY <1>1, <2>1 DEF Cancel
    <2> QED BY <2>2, <2>3 DEF CancelledIsClosed
  <1>2. CASE task = "cancelled" /\ task' = "cancelled" /\ ~\E S \in SUBSET Subtasks : Cancel(S)
    <2>1. \A a \in Attempts : rows[a].status \in Closed
      BY <1>2 DEF CancelledIsClosed
    <2>2. Keeps(rows, rows')
      <3>1. ~\E s \in Subtasks : Land(s)
        BY <1>2 DEF Land
      <3>2. ~\E a \in Attempts : Approve(a)
        BY <2>1 DEF Approve, Closed
      <3>3. ~CommitResult
        BY <2>1, CurrentTyped DEF CommitResult, Closed, Applying
      <3>4. ~\E a \in Attempts, h \in Reach : ReissueOf(a, h)
        BY <2>1 DEF ReissueOf, Closed
      <3> QED BY <3>1, <3>2, <3>3, <3>4, RowsStep
    <2>3. \A a \in Attempts : rows'[a].status \in Closed
      BY <2>1, <2>2 DEF Keeps
    <2>4. \A s \in Subtasks : subtasks'[s] = "awaiting_integration" => subtasks[s] = "awaiting_integration"
      <3>1. CASE Reissue
        <4>1. station.outcomes # << >> /\ Head(station.outcomes).type = "stale"
          BY <3>1 DEF Reissue, Requesting
        <4>2. Head(station.outcomes).row \in Attempts
          BY <4>1, OutcomesTyped
        <4>3. rows[Head(station.outcomes).row].status # "parked"
          BY <2>1, <4>2 DEF Closed
        <4> QED BY <3>1, <4>3 DEF Reissue
      <3>2. ~\E a \in Attempts : RecoverStale(a)
        BY <2>1 DEF RecoverStale, Recovering, Closed
      <3>3. ~\E s \in Subtasks : Land(s)
        BY <1>2 DEF Land
      <3>4. CASE Stale \/ CommitResult
        BY <1>0, <3>4 DEF Stale, CommitResult, Set
      <3>5. ASSUME NEW s \in Subtasks, Dispatch(s) \/ Fail(s)
            PROVE  \A t \in Subtasks : subtasks'[t] = "awaiting_integration" => subtasks[t] = "awaiting_integration"
        BY <1>0, <3>5 DEF Dispatch, Fail, Set
      <3>6. ASSUME NEW a \in Attempts, Deny(a)
            PROVE  \A t \in Subtasks : subtasks'[t] = "awaiting_integration" => subtasks[t] = "awaiting_integration"
        BY <1>0, <3>6 DEF Deny, Set
      <3>7. CASE Crash \/ Resume
        BY <1>0, <3>7 DEF Crash, Resume
      <3>8. CASE subtasks' = subtasks
        BY <3>8
      <3>9. \/ Reissue \/ Stale \/ CommitResult \/ Crash \/ Resume \/ subtasks' = subtasks
            \/ \E s \in Subtasks : Dispatch(s) \/ Fail(s)
            \/ \E a \in Attempts : Deny(a)
        BY <1>2, <3>2, <3>3 DEF Next, Execution, Begin, Drain, Ensure, EnsureFails, PromoteFails, CheckMain,
             Merge, CommitRefused, Remove, RemoveFails, Synchronize, SynchronizeFails,
             HandleIntegrated, HandleStale, HandlingEnds, Complete, Close, Validate,
             LandCancelled, Approve, CancellationEnds, RecoverStaleFails, OtherCommit, stores, vars
      <3> QED BY <3>1, <3>4, <3>5, <3>6, <3>7, <3>8, <3>9
    <2> QED BY <1>2, <2>3, <2>4 DEF CancelledIsClosed
  <1>3. CASE task # "cancelled" /\ task' = "cancelled"
    <2>1. \E S \in SUBSET Subtasks : Cancel(S)
      BY <1>3 DEF Next, Execution, Begin, Drain, Ensure, EnsureFails, PromoteFails, CheckMain, Stale,
           Merge, CommitResult, CommitRefused, Remove, RemoveFails, Synchronize, SynchronizeFails,
           HandleIntegrated, HandleStale, Reissue, HandlingEnds, Complete, Close, Dispatch, Validate,
           Land, LandCancelled, Fail, Approve, Deny, CancellationEnds, RecoverStale,
           RecoverStaleFails, Resume, OtherCommit, Crash, stores, vars
    <2> QED BY <1>1, <1>3, <2>1
  <1>4. CASE task' # "cancelled"
    BY <1>4 DEF CancelledIsClosed
  <1>5. CASE task = "cancelled" /\ \E S \in SUBSET Subtasks : Cancel(S)
    BY <1>5 DEF Cancel
  <1> QED BY <1>2, <1>3, <1>4, <1>5

Waits == {"awaiting_approval", "pending", "applying"}

(* Taking a row leaves the others where they wait. *)
LEMMA TakeKeepsWaiting ==
  ASSUME Typed, NEW r \in RowTable, NEW outcomes, Take(r, outcomes),
         NEW a \in Attempts, r[a].status \in Waits,
         task # "cancelled", subtasks[SubtaskOf(a)] # "cancelled"
  PROVE  rows'[a].status \in Waits
  <1> DEFINE next == {b \in First(Fenced(r)) : r[b].status = "pending"}
  <1>1. Fenced(r)[a] = r[a] /\ Fenced(r) \in RowTable
    BY CancelRequestedKeeps DEF Fenced, CancelRequested, Keeps
  <1>2. CASE next = {}
    BY <1>1, <1>2 DEF Take
  <1>3. CASE next # {}
    <2>1. PICK b \in next : rows' = [Fenced(r) EXCEPT ![b].status = "applying"]
      BY <1>3 DEF Take
    <2> HIDE DEF next
    <2> QED BY <1>1, <2>1 DEF RowTable, Waits
  <1> QED BY <1>2, <1>3

(* A Subtask is left waiting only by a step that gives it a waiting row. *)
LEMMA WaitingHasRowStep ==
  ASSUME Inv, [Next]_vars
  PROVE  WaitingHasRow'
  <1> USE DEF Inv
  <1>0. /\ rows \in RowTable /\ rows' \in RowTable
        /\ subtasks \in [Subtasks -> {"ready", "running", "awaiting_integration", "blocked",
                                      "done", "cancelled"}]
        /\ << >> \in Seq(Outcome)
    BY StepTyped DEF Typed
  <1> DEFINE Waiting(s) == \E a \in Attempts : SubtaskOf(a) = s /\ rows[a].status \in Waits
  <1> DEFINE WaitingNext(s) == \E a \in Attempts : SubtaskOf(a) = s /\ rows'[a].status \in Waits
  <1>1. \A s \in Subtasks : subtasks[s] = "awaiting_integration" => Waiting(s) /\ task # "cancelled"
    BY DEF WaitingHasRow, Waits, CancelledIsClosed
  <1>2. SUFFICES \A s \in Subtasks : subtasks'[s] = "awaiting_integration" => WaitingNext(s)
    BY DEF WaitingHasRow, Waits
  <1>3. ASSUME NEW s \in Subtasks, subtasks[s] = "awaiting_integration",
               \A a \in Attempts : SubtaskOf(a) = s /\ rows[a].status \in Waits => rows'[a].status \in Waits
        PROVE  WaitingNext(s)
    BY <1>1, <1>3
  <1>4. CASE /\ \A s \in Subtasks : subtasks'[s] = "awaiting_integration" => subtasks[s] = "awaiting_integration"
             /\ \A a \in Attempts : rows[a].status \in Waits => rows'[a].status \in Waits
    BY <1>3, <1>4
  <1>5. ASSUME NEW s \in Subtasks, Land(s)
        PROVE  \A t \in Subtasks : subtasks'[t] = "awaiting_integration" => WaitingNext(t)
    <2> DEFINE landed == << s, attempts[s].n >>
    <2>1. /\ landed \in Attempts /\ SubtaskOf(landed) = s
          /\ rows' = [rows EXCEPT ![landed] = [status |-> "awaiting_approval", candidate |-> trees[s]]]
          /\ subtasks' = [subtasks EXCEPT ![s] = "awaiting_integration"]
      BY <1>5, LandsFresh DEF SubtaskOf, Land, Set
    <2> HIDE DEF landed
    <2>2. rows'[landed].status \in Waits /\ \A a \in Attempts : a # landed => rows'[a] = rows[a]
      BY <1>0, <2>1 DEF RowTable, Waits
    <2> QED BY <1>0, <1>1, <2>1, <2>2
  <1>6. ASSUME NEW b \in Attempts, NEW h \in Reach, ReissueOf(b, h)
        PROVE  \A t \in Subtasks : subtasks'[t] = "awaiting_integration" => WaitingNext(t)
    <2>1. /\ rows' = Reissued(rows, b, h)
          /\ subtasks' = [subtasks EXCEPT ![SubtaskOf(b)] = "awaiting_integration"]
      BY <1>6 DEF ReissueOf
    <2>2. rows'[b].status \in Waits /\ \A a \in Attempts : a # b => rows'[a] = rows[a]
      BY <1>0, <2>1 DEF Reissued, RowTable, Waits
    <2> QED BY <1>0, <1>1, <2>1, <2>2
  <1>7. ASSUME \/ \E o \in Outcome : Result(o)
               \/ Take(Recovered(rows), << >>),
               subtasks' = subtasks
        PROVE  \A t \in Subtasks : subtasks'[t] = "awaiting_integration" => WaitingNext(t)
    <2>1. ASSUME NEW s \in Subtasks, subtasks[s] = "awaiting_integration", NEW a \in Attempts,
                 SubtaskOf(a) = s, rows[a].status \in Waits
          PROVE  rows'[a].status \in Waits
      <3>1. Recovered(rows) \in RowTable /\ Recovered(rows)[a].status \in Waits
        BY <1>0, <2>1, RecoveredKeeps DEF Keeps, Recovered, RowTable, Waits
      <3>2. task # "cancelled" /\ subtasks[SubtaskOf(a)] # "cancelled"
        BY <1>1, <2>1
      <3>3. CASE Take(Recovered(rows), << >>)
        BY <3>1, <3>2, <3>3, TakeKeepsWaiting
      <3>4. CASE \E o \in Outcome : Take(rows, Append(station.outcomes, o))
        BY <1>0, <2>1, <3>2, <3>4, TakeKeepsWaiting
      <3> QED BY <1>7, <3>3, <3>4 DEF Result
    <2> QED BY <1>3, <1>7, <2>1
  <1>8. CASE Stale \/ CommitResult
    <2>1. PICK b \in Attempts : b = Current
      BY <1>8, CurrentTyped DEF Stale, CommitResult, Step, Applying
    <2>2. \E v \in {"ready", "done"} : subtasks' = [subtasks EXCEPT ![SubtaskOf(b)] = v]
      BY <1>8, <2>1 DEF Stale, CommitResult, Set
    <2>3. \A a \in Attempts : a # b => rows'[a] = rows[a]
      BY <1>0, <1>8, <2>1 DEF Stale, CommitResult, Mark, RowTable
    <2>4. ASSUME NEW s \in Subtasks, subtasks'[s] = "awaiting_integration"
          PROVE  s # SubtaskOf(b) /\ subtasks[s] = "awaiting_integration"
      BY <1>0, <2>2, <2>4
    <2> QED BY <1>3, <2>3, <2>4
  <1>9. ASSUME NEW b \in Attempts, Deny(b)
        PROVE  \A t \in Subtasks : subtasks'[t] = "awaiting_integration" => WaitingNext(t)
    <2>1. subtasks' = [subtasks EXCEPT ![SubtaskOf(b)] = "blocked"]
          /\ \A a \in Attempts : a # b => rows'[a] = rows[a]
      BY <1>0, <1>9 DEF Deny, Set, RowTable
    <2>2. ASSUME NEW s \in Subtasks, subtasks'[s] = "awaiting_integration"
          PROVE  s # SubtaskOf(b) /\ subtasks[s] = "awaiting_integration"
      BY <1>0, <2>1, <2>2
    <2> QED BY <1>3, <2>1, <2>2
  <1>10. ASSUME NEW S \in SUBSET Subtasks, Cancel(S)
         PROVE  \A t \in Subtasks : subtasks'[t] = "awaiting_integration" => WaitingNext(t)
    <2>1. \A t \in Subtasks : subtasks'[t] = "awaiting_integration" => t \notin S /\ subtasks[t] = "awaiting_integration"
      BY <1>0, <1>10 DEF Cancel
    <2>2. \A a \in Attempts : SubtaskOf(a) \notin S => rows'[a] = rows[a]
      BY <1>10 DEF Cancel, CancelRequested
    <2> QED BY <1>3, <2>1, <2>2
  <1>11. CASE PromoteFails \/ Close \/ \E b \in Attempts : Approve(b) \/ CancellationEnds(b)
    <2>1. subtasks' = subtasks
      BY <1>11 DEF PromoteFails, Close, Approve, CancellationEnds
    <2>2. CASE PromoteFails
      BY <1>0, <1>4, <2>1, <2>2, CurrentTyped DEF PromoteFails, Applying, Mark, RowTable, Waits
    <2>3. CASE Close
      BY <1>0, <1>4, <2>1, <2>3 DEF Close, Mark, RowTable, Waits
    <2>4. ASSUME NEW b \in Attempts, Approve(b) \/ CancellationEnds(b)
          PROVE  \A a \in Attempts : rows[a].status \in Waits => rows'[a].status \in Waits
      BY <1>0, <2>4 DEF Approve, CancellationEnds, RowTable, Waits
    <2> QED BY <1>4, <1>11, <2>1, <2>2, <2>3, <2>4
  <1>12. CASE rows' = rows /\ \/ Crash \/ Resume \/ subtasks' = subtasks
                              \/ \E s \in Subtasks : Dispatch(s) \/ Fail(s)
    <2>1. \A s \in Subtasks : subtasks'[s] = "awaiting_integration" => subtasks[s] = "awaiting_integration"
      BY <1>0, <1>12 DEF Crash, Resume, Dispatch, Fail, Set
    <2> QED BY <1>4, <1>12, <2>1
  <1>13. CASE Reissue \/ \E a \in Attempts : RecoverStale(a)
    <2>1. rows' # rows => \E a \in Attempts, h \in Reach : ReissueOf(a, h)
      BY <1>13, ReissuesAre
    <2>2. CASE rows' = rows
      <3>1. Reissue => \/ subtasks' = subtasks
                       \/ rows[Head(station.outcomes).row].status = "parked"
        BY DEF Reissue
      <3>2. ASSUME NEW a \in Attempts, rows[a].status = "parked"
            PROVE  \A h \in Reach : Reissued(rows, a, h) # rows
        BY <1>0, <3>2 DEF Reissued, RowTable
      <3>3. Reissue => station.outcomes # << >> /\ Head(station.outcomes).type = "stale"
        BY DEF Reissue, Requesting
      <3>4. Reissue => Head(station.outcomes).row \in Attempts /\ Head(station.outcomes).head \in Reach
        BY <3>3, OutcomesTyped
      <3>5. Reissue => subtasks' = subtasks
        BY <2>2, <3>1, <3>2, <3>4 DEF Reissue
      <3>6. ASSUME NEW a \in Attempts, RecoverStale(a) PROVE FALSE
        <4>1. rows[a].status = "parked" /\ rows'[a].status = "awaiting_approval"
          BY <1>0, <3>6 DEF RecoverStale, Recovering, Reissued, RowTable
        <4> QED BY <2>2, <4>1
      <3> QED BY <1>12, <1>13, <2>2, <3>5, <3>6
    <2> QED BY <1>6, <2>1, <2>2
  <1>14. CASE Drain \/ HandlingEnds \/ Remove \/ Synchronize \/ SynchronizeFails
    <2>1. subtasks' = subtasks
      BY <1>14 DEF Drain, HandlingEnds, Remove, Synchronize, SynchronizeFails
    <2>2. \/ \E o \in Outcome : Result(o)
          \/ Take(Recovered(rows), << >>)
          \/ rows' = rows
      <3>1. Drain \/ HandlingEnds => Take(Recovered(rows), << >>) \/ rows' = rows
        BY DEF Drain, HandlingEnds
      <3>2. Remove => \E o \in Outcome : Result(o)
        BY OutcomesTyped DEF Remove
      <3>3. SynchronizeFails => \E o \in Outcome : Result(o)
        <4>1. NoTree \in Reach
          BY DEF NoTree, Reach
        <4> QED BY <4>1, CurrentTyped, OutcomesTyped DEF SynchronizeFails, Applying
      <3>4. Synchronize => \E o \in Outcome : Result(o)
        <4>1. Synchronize => Current \in Attempts /\ trees[SubtaskOf(Current)] \in Reach
                             /\ WellFormed(trees[SubtaskOf(Current)])
          BY CurrentTyped DEF Synchronize, Applying, Heads
        <4>2. Synchronize => Synchronized(Current, trees[SubtaskOf(Current)]) \in Reach
          BY <4>1, SynchronizedReach
        <4> QED BY <4>1, <4>2, OutcomesTyped DEF Synchronize
      <3> QED BY <1>14, <3>1, <3>2, <3>3, <3>4
    <2> QED BY <1>7, <1>12, <2>1, <2>2
  <1>15. \/ Drain \/ HandlingEnds \/ Remove \/ Synchronize \/ SynchronizeFails \/ Reissue
         \/ Stale \/ CommitResult \/ PromoteFails \/ Close
         \/ \E s \in Subtasks : Land(s)
         \/ \E a \in Attempts : RecoverStale(a) \/ Deny(a) \/ Approve(a) \/ CancellationEnds(a)
         \/ \E S \in SUBSET Subtasks : Cancel(S)
         \/ rows' = rows /\ \/ Crash \/ Resume \/ subtasks' = subtasks
                            \/ \E s \in Subtasks : Dispatch(s) \/ Fail(s)
    BY DEF Next, Execution, Begin, Ensure, EnsureFails, CheckMain, Merge, CommitRefused, RemoveFails,
           HandleIntegrated, HandleStale, Complete, Validate, LandCancelled, Dispatch, Fail,
           RecoverStaleFails, Crash, Resume, OtherCommit, stores, vars
  <1> HIDE DEF WaitingNext, Waiting
  <1> QED BY <1>5, <1>8, <1>9, <1>10, <1>11, <1>12, <1>13, <1>14, <1>15, <1>4, <1>6

(***************************************************************************)
(* The theorems                                                            *)
(***************************************************************************)
LEMMA Initially ==
  Init => Inv
  <1> SUFFICES ASSUME Init PROVE Inv
    OBVIOUS
  <1>1. NoTree \in Reach /\ << >> \in Seq(Outcome)
    BY DEF NoTree, Reach
  <1>2. Typed
    BY <1>1, PublicationAssumption DEF Init, Typed, RowTable, RowStatus, NoRow, Idle, Station, Phases,
           Applying, Attempting, Running
  <1>3. Heads
    BY DEF Init, Heads, WellFormed, NoTree, NoRow, Idle
  <1>4. Fresh /\ Approved /\ InFlight /\ Recovering /\ Requesting
    BY DEF Init, Fresh, Approved, Covered, InFlight, Taken, Recovering, Requesting, NoRow, Idle
  <1>5. CancelledIsClosed /\ OnlyApproved /\ WaitingHasRow /\ DoneIsMerged
    BY DEF Init, CancelledIsClosed, OnlyApproved, WaitingHasRow, DoneIsMerged
  <1> QED BY <1>2, <1>3, <1>4, <1>5 DEF Inv

LEMMA Inductively ==
  Inv /\ [Next]_vars => Inv'
  BY StepTyped, HeadsStep, FreshStep, ApprovedStep, InFlightStep, RecoveringStep, RequestingStep,
     CancelledIsClosedStep, OnlyApprovedStep, WaitingHasRowStep, DoneIsMergedStep DEF Inv

(* Publication's records keep their types, whatever is cancelled, denied,   *)
(* stale or lost: a row has a status of the table, the worker holds a row.  *)
THEOREM PublicationTypeCorrect == Spec => []TypeOK
  <1>1. Inv => TypeOK
    BY DEF Inv, Typed, TypeOK, RowTable, Station
  <1> QED BY <1>1, Initially, Inductively, PTL DEF Spec

(* Whatever main reaches of the Subtasks' commits is part of a candidate    *)
(* the user has approved: no retry, stale candidate, cancellation or crash  *)
(* lets the worker merge another one (workspace-publication-worker.ts).     *)
THEOREM MainIsApproved == Spec => []OnlyApproved
  <1>1. Inv => OnlyApproved
    BY DEF Inv
  <1> QED BY <1>1, Initially, Inductively, PTL DEF Spec

(* A Subtask is done only with an integrated publication whose candidate    *)
(* main reaches: the transaction after the merge is never without a merge.  *)
THEOREM DoneSubtasksAreMerged == Spec => []DoneIsMerged
  <1>1. Inv => DoneIsMerged
    BY DEF Inv
  <1> QED BY <1>1, Initially, Inductively, PTL DEF Spec

(* A Subtask that awaits its integration has a row that can still be        *)
(* approved, taken or committed: none waits for what cannot come.           *)
THEOREM WaitingSubtasksHaveRows == Spec => []WaitingHasRow
  <1>1. Inv => WaitingHasRow
    BY DEF Inv
  <1> QED BY <1>1, Initially, Inductively, PTL DEF Spec
=============================================================================
