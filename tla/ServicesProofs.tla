---------------------------- MODULE ServicesProofs ----------------------------
(***************************************************************************)
(* Proofs about the sandboxes of a Subtask (SandboxRun), the storage of    *)
(* the workspaces (WorkspaceStorage), the registration of Executors        *)
(* (ExecutorRegistry), the proposals of Planners (PlannerProposals), the   *)
(* chat (FeishuGateway) and the admission of plans (PlanAdmission), for    *)
(* all sets of attempts, workspaces, Executors, turns, messages and work   *)
(* graphs and any number of faults and crashes.  They share no state: each *)
(* has its own specification and its own invariant.                        *)
(***************************************************************************)
EXTENDS SandboxRun, WorkspaceStorage, ExecutorRegistry, PlannerProposals, FeishuGateway,
        PlanAdmission, FiniteSetTheorems, SequenceTheorems, WellFoundedInduction, TLAPS

(***************************************************************************)
(* The sandboxes.                                                          *)
(***************************************************************************)

SandboxesTyped ==
  /\ run \in [Runs -> {"none", "preparing", "launched", "waiting", "collecting",
                       "cleaning", "closing", "done", "lost"}]
  /\ handle \in [Runs -> {"none", "created", "running", "paused", "exited"}]
  /\ process \in [Runs -> {"none", "running", "frozen", "ended", "failed"}]
  /\ signal \in [Runs -> {"none", "term", "kill"}]
  /\ row \in [Runs -> {"absent", "created", "running", "paused", "exited", "removed", "lost"}]
  /\ result \in [Runs -> {"none", "success", "failed", "configuration"}]
  /\ tracked \subseteq Runs /\ stopping \subseteq Runs /\ numbered \subseteq Runs
  /\ left \subseteq Runs /\ cancelled \in BOOLEAN /\ host \in {"up", "down"}

\* An executor exists only once it is launched; until then, neither memory,
\* the database nor the process table knows it.
Unlaunched ==
  \A a \in Runs : run[a] \in {"none", "preparing"} =>
     /\ process[a] = "none" /\ handle[a] = "none" /\ a \notin tracked /\ result[a] = "none"
     /\ row[a] = "absent"

\* A run that closes has stopped its executor, and one that is over has let go
\* of it.
ClosedRuns ==
  \A a \in Runs : /\ (run[a] \in {"closing", "done"} => ~Alive(a))
                  /\ (run[a] \in {"done", "lost"} => a \notin tracked)

\* Who collects has seen the exit, and while the executor lives it has a handle,
\* unless its run was lost, and no row says that it ended.
Exits ==
  \A a \in Runs : /\ (handle[a] \in {"created", "exited"} => Gone(a))
                  /\ (run[a] = "collecting" => Gone(a))
                  /\ (Alive(a) /\ run[a] # "lost" => handle[a] \in {"running", "paused"})
                  /\ (run[a] = "lost" => handle[a] = "none")

\* An executor at large has a row that the next startup finds, or was reported.
Traceable ==
  \A a \in Runs : Alive(a) => a \in ActiveRows \/ a \in left

\* A run begins when the ones before it are settled, and those stay so.
InOrder ==
  \A a, b \in Runs : a < b /\ run[b] # "none" => SettledRun(a)

SandboxInv == /\ SandboxesTyped /\ Unlaunched /\ ClosedRuns /\ Exits /\ Traceable /\ InOrder
              /\ RemovedIsGone /\ SuccessIsReal

USE DEF Alive, Gone, ActiveRows, SettledRun, Under

LEMMA SandboxesStart == InitSandboxes => SandboxInv
  <1> SUFFICES ASSUME InitSandboxes PROVE SandboxInv
    OBVIOUS
  <1> USE DEF InitSandboxes
  <1>1. SandboxesTyped
    BY DEF SandboxesTyped
  <1>2. /\ Unlaunched /\ ClosedRuns /\ Exits /\ Traceable /\ InOrder /\ RemovedIsGone
        /\ SuccessIsReal
    BY DEF Unlaunched, ClosedRuns, Exits, Traceable, InOrder, RemovedIsGone, SuccessIsReal
  <1> QED BY <1>1, <1>2 DEF SandboxInv

LEMMA SandboxesStep ==
  ASSUME SandboxInv, [NextSandboxes]_sandboxes
  PROVE  SandboxInv'
  <1> USE RunsAssumption DEF SandboxInv, SandboxesTyped, Unlaunched, ClosedRuns, Exits, Traceable,
          InOrder, RemovedIsGone, SuccessIsReal
  <1>1. ASSUME NEW a \in Runs, BeginRun(a) PROVE SandboxInv'
    BY <1>1 DEF BeginRun, Up
  <1>2. ASSUME NEW a \in Runs, PreparationFails(a) PROVE SandboxInv'
    BY <1>2 DEF PreparationFails, Up, Returns
  <1>3. ASSUME NEW a \in Runs, LaunchRun(a) PROVE SandboxInv'
    BY <1>3 DEF LaunchRun, Up, Written, Spawned
  <1>4. ASSUME NEW a \in Runs, CreateThrows(a) PROVE SandboxInv'
    BY <1>4 DEF CreateThrows, Up, Returns
  <1>5. ASSUME NEW a \in Runs, SpawnThrows(a) PROVE SandboxInv'
    BY <1>5 DEF SpawnThrows, Up, Written
  <1>6. ASSUME NEW a \in Runs, RecordProcess(a) PROVE SandboxInv'
    BY <1>6 DEF RecordProcess, Up, Written
  <1>7. ASSUME NEW a \in Runs, ExitSeen(a) PROVE SandboxInv'
    BY <1>7 DEF ExitSeen, Up
  <1>8. ASSUME NEW a \in Runs, Wake(a) PROVE SandboxInv'
    BY <1>8 DEF Wake, Up, Written
  <1>9. ASSUME NEW a \in Runs, Collect(a) PROVE SandboxInv'
    BY <1>9 DEF Collect, Up, Written, Returns, Outcomes
  <1>10. ASSUME NEW a \in Runs, Throws(a) PROVE SandboxInv'
    <2>1. SandboxesTyped'
      <3> HIDE DEF Unlaunched, ClosedRuns, Exits, Traceable, InOrder, RemovedIsGone, SuccessIsReal
      <3>1. signal' \in [Runs -> {"none", "term", "kill"}]
        BY <1>10 DEF Throws, Stopped, Raised, HasProcess
      <3>2. stopping' \subseteq Runs
        BY <1>10 DEF Throws, Stopped
      <3> QED BY <1>10, <3>1, <3>2 DEF Throws
    <2>2. Unlaunched' /\ ClosedRuns' /\ Exits'
      BY <1>10 DEF Throws, Up
    <2>3. Traceable' /\ InOrder'
      BY <1>10 DEF Throws, Up
    <2>4. RemovedIsGone' /\ SuccessIsReal'
      BY <1>10 DEF Throws, Up
    <2> QED BY <2>1, <2>2, <2>3, <2>4
  <1>11. ASSUME NEW a \in Runs, RemovalUnrecorded(a) PROVE SandboxInv'
    BY <1>11 DEF RemovalUnrecorded, Up
  <1>12. ASSUME NEW a \in Runs, CleanUp(a) PROVE SandboxInv'
    <2>1. /\ ~Alive(a) /\ run' = [run EXCEPT ![a] = "closing"]
          /\ handle' = [handle EXCEPT ![a] = IF Removable(a) THEN "none" ELSE handle[a]]
          /\ \/ Removable(a) /\ row' = [row EXCEPT ![a] = "removed"]
             \/ row' = row
          /\ \E outcome \in {"configuration", "failed"} : result' = [result EXCEPT ![a] = outcome]
          /\ tracked' \in SUBSET tracked
          /\ UNCHANGED << process, signal, stopping, numbered, left, cancelled, host, sandboxFaults >>
      BY <1>12 DEF CleanUp, Up, Written, Returns, HasProcess
    <2>2. SandboxesTyped'
      BY <2>1
    <2>3. Unlaunched' /\ ClosedRuns' /\ Exits'
      BY <1>12, <2>1 DEF CleanUp, Removable
    <2>4. Traceable' /\ InOrder'
      BY <1>12, <2>1 DEF CleanUp
    <2>5. RemovedIsGone'
      BY <2>1 DEF Removable
    <2>6. SuccessIsReal'
      BY <2>1
    <2> QED BY <2>2, <2>3, <2>4, <2>5, <2>6
  <1>13. ASSUME NEW a \in Runs, ReturnRun(a) PROVE SandboxInv'
    BY <1>13 DEF ReturnRun, Up
  <1>14. ASSUME NEW a \in Runs, CleanupStops(a) PROVE SandboxInv'
    <2>1. SandboxesTyped'
      <3> HIDE DEF Unlaunched, ClosedRuns, Exits, Traceable, InOrder, RemovedIsGone, SuccessIsReal
      <3>1. signal' \in [Runs -> {"none", "term", "kill"}]
        BY <1>14 DEF CleanupStops, Stopped, Raised, HasProcess
      <3>2. stopping' \subseteq Runs
        BY <1>14 DEF CleanupStops, Stopped
      <3> QED BY <1>14, <3>1, <3>2 DEF CleanupStops
    <2>2. Unlaunched' /\ ClosedRuns' /\ Exits'
      BY <1>14 DEF CleanupStops, Up
    <2>3. Traceable' /\ InOrder'
      BY <1>14 DEF CleanupStops, Up
    <2>4. RemovedIsGone' /\ SuccessIsReal'
      BY <1>14 DEF CleanupStops, Up
    <2> QED BY <2>1, <2>2, <2>3, <2>4
  <1>15. ASSUME NEW a \in Runs, CleanupRemoves(a) PROVE SandboxInv'
    BY <1>15 DEF CleanupRemoves, Up, Written
  <1>16. ASSUME NEW a \in Runs, Dies(a) PROVE SandboxInv'
    BY <1>16 DEF Dies
  <1>17. ASSUME NEW a \in Runs, Kill(a) PROVE SandboxInv'
    BY <1>17 DEF Kill, Up
  <1>18. ASSUME NEW a \in Runs, Pause(a) PROVE SandboxInv'
    BY <1>18 DEF Pause, Up
  <1>19. ASSUME NEW a \in Runs, ResumeRun(a) PROVE SandboxInv'
    BY <1>19 DEF ResumeRun, Up
  <1>20. ASSUME NEW a \in Runs, Escalate(a) PROVE SandboxInv'
    <2>1. SandboxesTyped'
      <3> HIDE DEF Unlaunched, ClosedRuns, Exits, Traceable, InOrder, RemovedIsGone, SuccessIsReal
      <3>1. signal' \in [Runs -> {"none", "term", "kill"}]
        BY <1>20 DEF Escalate, Stopped, Raised, HasProcess
      <3>2. stopping' \subseteq Runs
        BY <1>20 DEF Escalate, Stopped
      <3> QED BY <1>20, <3>1, <3>2 DEF Escalate
    <2>2. Unlaunched' /\ ClosedRuns' /\ Exits'
      BY <1>20 DEF Escalate, Up
    <2>3. Traceable' /\ InOrder'
      BY <1>20 DEF Escalate, Up
    <2>4. RemovedIsGone' /\ SuccessIsReal'
      BY <1>20 DEF Escalate, Up
    <2> QED BY <2>1, <2>2, <2>3, <2>4
  <1>21. CASE CancelRuns
    BY <1>21 DEF CancelRuns, Up, Stopped, Raised, HasProcess
  <1>22. CASE Shutdown
    BY <1>22 DEF Shutdown, Up, Stopped, Raised, HasProcess
  <1>23. CASE CrashHost
    BY <1>23 DEF CrashHost, Up
  <1>24. CASE Restart
    BY <1>24 DEF Restart, ReportedLost, Raised
  <1>25. CASE ForeignStartup
    BY <1>25 DEF ForeignStartup, Up, ReportedLost, Raised
  <1>26. CASE UNCHANGED sandboxes
    BY <1>26 DEF sandboxes
  <1> QED BY <1>1, <1>2, <1>3, <1>4, <1>5, <1>6, <1>7, <1>8, <1>9, <1>10, <1>11, <1>12, <1>13,
     <1>14, <1>15, <1>16, <1>17, <1>18, <1>19, <1>20, <1>21, <1>22, <1>23, <1>24, <1>25,
     <1>26 DEF NextSandboxes

LEMMA SandboxInductive == SandboxSpec => []SandboxInv
  BY SandboxesStart, SandboxesStep, PTL DEF SandboxSpec

\* Handles, processes, rows and results keep their shapes, for every number of
\* attempts, crashes and startups of other sessions.
THEOREM SandboxesTypeCorrect == SandboxSpec => []SandboxesTyped
  <1>1. SandboxInv => SandboxesTyped
    BY DEF SandboxInv
  <1> QED BY <1>1, SandboxInductive, PTL

\* What execute() leaves behind, also when a callback, the database, the spawn or
\* a removal throws: a run that returned has no executor, a row that says removed
\* has neither an executor nor a handle, an executor without its run is known to a
\* startup, two executors overlap only if a startup gave up the first, and a
\* success is one of an executor that ended by itself.
THEOREM SandboxesAreAccounted == SandboxSpec => []SandboxIsAccounted
  <1>1. SandboxInv => ReturnedIsGone
    BY DEF SandboxInv, ClosedRuns, ReturnedIsGone
  <1>2. SandboxInv => StraysAreKnown
    BY DEF SandboxInv, SandboxesTyped, Unlaunched, ClosedRuns, Traceable, StraysAreKnown
  <1>3. SandboxInv => OverlapIsReported
    BY RunsAssumption DEF SandboxInv, SandboxesTyped, Unlaunched, ClosedRuns, InOrder,
       OverlapIsReported
  <1>4. SandboxInv => SandboxIsAccounted
    BY <1>1, <1>2, <1>3 DEF SandboxInv, SandboxIsAccounted
  <1> QED BY <1>4, SandboxInductive, PTL
-----------------------------------------------------------------------------
(***************************************************************************)
(* The storage.                                                            *)
(***************************************************************************)

AttemptStates == [state : {"idle", "working", "storing"}, checkpoint : Checkpoints \cup {Nobody},
                  todo : SUBSET Objects, stored : SUBSET Objects]
CleanerStates == [state : {"resting", "listed", "removing"}, objects : SUBSET Objects,
                  repositories : SUBSET OwnerTasks, due : SUBSET Workspaces]

StorageTyped ==
  /\ taskStatus \in [OwnerTasks -> {"running", "done", "cancelled", "purged"}]
  /\ records \in [Workspaces -> {Nobody, "active", "cancelled"}]
  /\ checkpoints \in [Checkpoints -> Workspaces \cup {Nobody}]
  /\ links \subseteq Checkpoints \X Objects
  /\ counts \in [Objects -> Nat \cup {NoRow}]
  /\ files \subseteq Objects /\ repositories \subseteq OwnerTasks
  /\ attempt \in [Workspaces -> AttemptStates] /\ cleaner \in [Cleaners -> CleanerStates]
  /\ raced \subseteq Checkpoints

\* A checkpoint that an attempt is making has no row and no links yet, and no
\* other attempt makes it.
Unrecorded ==
  \A w \in Workspaces : attempt[w].state = "storing" =>
     /\ attempt[w].checkpoint \in Checkpoints /\ checkpoints[attempt[w].checkpoint] = Nobody
     /\ \A v \in Workspaces \ {w} : attempt[v].checkpoint # attempt[w].checkpoint

LinkedIsRecorded == \A l \in links : checkpoints[l[1]] # Nobody

LinksTo(o) == {l \in links : l[2] = o}
LinksAreFinite == \A o \in Objects : IsFiniteSet(LinksTo(o))

\* Whoever refers to an object whose file is about to go was recorded since the
\* removal was decided.
RemovedIsRaced ==
  \A k \in Cleaners : \A l \in links : l[2] \in cleaner[k].objects => l[1] \in raced

\* A repository goes only when its Task has ended and its workspaces are gone.
RemovedIsEmpty ==
  \A k \in Cleaners : \A t \in cleaner[k].repositories :
     taskStatus[t] # "running" /\ \A w \in WorkspacesOf(t) : records[w] = Nobody

ScheduledHasEnded ==
  \A w \in Workspaces : records[w] = "cancelled" => taskStatus[Owner[w]] # "running"

StorageInv == /\ StorageTyped /\ Unrecorded /\ LinkedIsRecorded /\ LinksAreFinite
              /\ CountsAreLinks /\ Restorable /\ RepositoryKept /\ RemovedIsRaced
              /\ RemovedIsEmpty /\ ScheduledHasEnded

LEMMA StorageStart == InitStorage => StorageInv
  <1> SUFFICES ASSUME InitStorage PROVE StorageInv
    OBVIOUS
  <1> USE DEF InitStorage
  <1>1. StorageTyped
    BY NobodyAssumption DEF StorageTyped, AttemptStates, CleanerStates, Idle, Resting,
       OwnerTasks, Nobody, NoRow
  <1>2. Unrecorded /\ LinkedIsRecorded /\ Restorable /\ RepositoryKept /\ RemovedIsRaced
        /\ RemovedIsEmpty /\ ScheduledHasEnded
    BY DEF Unrecorded, LinkedIsRecorded, Restorable, RepositoryKept, RemovedIsRaced,
       RemovedIsEmpty, ScheduledHasEnded, Idle, Resting, Nobody
  <1>3. \A o \in Objects : LinksTo(o) = {}
    BY DEF LinksTo
  <1>4. LinksAreFinite /\ CountsAreLinks
    BY <1>3, FS_EmptySet DEF LinksAreFinite, CountsAreLinks, LinksOf, LinksTo, NoRow
  <1> QED BY <1>1, <1>2, <1>4 DEF StorageInv

(* What a transaction does to the links of an object. *)

LEMMA LinksOfNat ==
  ASSUME LinksAreFinite, NEW o \in Objects
  PROVE  LinksOf(o) = Cardinality(LinksTo(o)) /\ LinksOf(o) \in Nat /\ IsFiniteSet(LinksTo(o))
  BY FS_CardinalityType DEF LinksAreFinite, LinksOf, LinksTo

LEMMA AddedLinks ==
  ASSUME LinksAreFinite, NEW c \in Checkpoints, NEW S \in SUBSET Objects,
         \A l \in links : l[1] # c, links' = links \cup ({c} \X S), NEW o \in Objects
  PROVE  /\ IsFiniteSet(LinksTo(o)')
         /\ LinksOf(o)' = LinksOf(o) + (IF o \in S THEN 1 ELSE 0)
  <1>1. LinksOf(o) = Cardinality(LinksTo(o)) /\ LinksOf(o) \in Nat /\ IsFiniteSet(LinksTo(o))
    BY LinksOfNat
  <1>2. LinksOf(o)' = Cardinality(LinksTo(o)')
    BY DEF LinksOf, LinksTo
  <1>3. CASE o \in S
    <2>1. LinksTo(o)' = LinksTo(o) \cup {<< c, o >>}
      BY <1>3 DEF LinksTo
    <2>2. << c, o >> \notin LinksTo(o)
      BY DEF LinksTo
    <2>3. /\ IsFiniteSet(LinksTo(o) \cup {<< c, o >>})
          /\ Cardinality(LinksTo(o) \cup {<< c, o >>}) = Cardinality(LinksTo(o)) + 1
      BY <1>1, <2>2, FS_AddElement
    <2> QED BY <1>1, <1>2, <1>3, <2>1, <2>3
  <1>4. CASE o \notin S
    <2>1. LinksTo(o)' = LinksTo(o)
      BY <1>4 DEF LinksTo
    <2> QED BY <1>1, <1>2, <1>4, <2>1
  <1> QED BY <1>3, <1>4

LEMMA RemovedLinks ==
  ASSUME LinksAreFinite, NEW C, links' = {l \in links : l[1] \notin C}, NEW o \in Objects
  PROVE  /\ IsFiniteSet(LinksTo(o)') /\ LinksIn(C, o) \in Nat
         /\ LinksIn(C, o) <= LinksOf(o)
         /\ LinksOf(o)' = LinksOf(o) - LinksIn(C, o)
         /\ LinksIn(C, o) = LinksOf(o) => \A l \in links' : l[2] # o
  <1> DEFINE In == {l \in links : l[1] \in C /\ l[2] = o}
  <1>1. LinksOf(o) = Cardinality(LinksTo(o)) /\ LinksOf(o) \in Nat /\ IsFiniteSet(LinksTo(o))
    BY LinksOfNat
  <1>2. LinksOf(o)' = Cardinality(LinksTo(o)') /\ LinksIn(C, o) = Cardinality(In)
    BY DEF LinksOf, LinksTo, LinksIn
  <1>3. In \in SUBSET LinksTo(o) /\ LinksTo(o)' = LinksTo(o) \ In /\ LinksTo(o) \cap In = In
    BY DEF LinksTo
  <1> HIDE DEF In
  <1>4. IsFiniteSet(In) /\ Cardinality(In) <= Cardinality(LinksTo(o)) /\ Cardinality(In) \in Nat
    BY <1>1, <1>3, FS_Subset, FS_CardinalityType
  <1>5. IsFiniteSet(LinksTo(o)') /\ LinksOf(o)' = LinksOf(o) - LinksIn(C, o)
    <2>1. /\ IsFiniteSet(LinksTo(o) \ In)
          /\ Cardinality(LinksTo(o) \ In)
               = Cardinality(LinksTo(o)) - Cardinality(LinksTo(o) \cap In)
      BY <1>1, FS_Difference
    <2> QED BY <1>1, <1>2, <1>3, <2>1
  <1>6. ASSUME LinksIn(C, o) = LinksOf(o) PROVE \A l \in links' : l[2] # o
    <2>1. Cardinality(LinksTo(o)') = 0
      BY <1>1, <1>2, <1>5, <1>6
    <2>2. LinksTo(o)' = {}
      BY <1>5, <2>1, FS_EmptySet
    <2> QED BY <2>2 DEF LinksTo
  <1> QED BY <1>1, <1>2, <1>4, <1>5, <1>6

LEMMA Unlinked ==
  ASSUME StorageInv, NEW W \in SUBSET Workspaces, Unlink(W)
  PROVE  /\ checkpoints' \in [Checkpoints -> Workspaces \cup {Nobody}]
         /\ records' = [w \in Workspaces |-> IF w \in W THEN Nobody ELSE records[w]]
         /\ links' \subseteq links /\ raced' \subseteq raced
         /\ counts' \in [Objects -> Nat \cup {NoRow}]
         /\ LinkedIsRecorded' /\ LinksAreFinite' /\ CountsAreLinks'
         /\ \A c \in Checkpoints : checkpoints[c] = Nobody => checkpoints'[c] = Nobody
         /\ \A l \in links' : l[1] \in raced => l[1] \in raced'
         /\ Unreferenced(CheckpointsOf(W)) \subseteq Objects
         /\ \A l \in links' : l[2] \notin Unreferenced(CheckpointsOf(W))
  <1>1. PICK C : C = CheckpointsOf(W)
    OBVIOUS
  <1>2. /\ checkpoints' = [c \in Checkpoints |-> IF c \in C THEN Nobody ELSE checkpoints[c]]
        /\ links' = {l \in links : l[1] \notin C}
        /\ counts' = [o \in Objects |-> IF o \in Unreferenced(C) THEN NoRow ELSE Decremented(C, o)]
        /\ records' = [w \in Workspaces |-> IF w \in W THEN Nobody ELSE records[w]]
        /\ raced' = raced \ C
    BY <1>1 DEF Unlink
  <1>3. StorageTyped /\ LinkedIsRecorded /\ LinksAreFinite /\ CountsAreLinks
    BY DEF StorageInv
  <1>4. ASSUME NEW o \in Objects
        PROVE  /\ counts'[o] \in Nat \cup {NoRow}
               /\ IsFiniteSet(LinksTo(o)')
               /\ LinksOf(o)' = IF counts'[o] = NoRow THEN 0 ELSE counts'[o]
               /\ o \in Unreferenced(C) => \A l \in links' : l[2] # o
    <2>1. /\ IsFiniteSet(LinksTo(o)') /\ LinksIn(C, o) \in Nat
          /\ LinksIn(C, o) <= LinksOf(o)
          /\ LinksOf(o)' = LinksOf(o) - LinksIn(C, o)
          /\ LinksIn(C, o) = LinksOf(o) => \A l \in links' : l[2] # o
      BY <1>2, <1>3, RemovedLinks
    <2>2. /\ LinksOf(o) \in Nat /\ counts[o] \in Nat \cup {NoRow}
          /\ LinksOf(o) = IF counts[o] = NoRow THEN 0 ELSE counts[o]
      BY <1>3, LinksOfNat DEF StorageTyped, CountsAreLinks
    <2>3. counts'[o] = IF LinksIn(C, o) > 0 /\ Decremented(C, o) = 0
                       THEN NoRow ELSE Decremented(C, o)
      BY <1>2 DEF Unreferenced
    <2>4. CASE LinksIn(C, o) = 0
      BY <2>1, <2>2, <2>3, <2>4 DEF Decremented, Unreferenced, NoRow
    <2>5. CASE LinksIn(C, o) > 0
      <3>1. counts[o] = LinksOf(o) /\ Decremented(C, o) = LinksOf(o) - LinksIn(C, o)
        BY <2>1, <2>2, <2>5 DEF Decremented
      <3>2. o \in Unreferenced(C) => LinksIn(C, o) = LinksOf(o)
        BY <2>1, <2>2, <3>1 DEF Unreferenced
      <3> QED BY <2>1, <2>2, <2>3, <2>5, <3>1, <3>2 DEF NoRow
    <2> QED BY <2>1, <2>4, <2>5
  <1>5. /\ counts' \in [Objects -> Nat \cup {NoRow}] /\ LinksAreFinite' /\ CountsAreLinks'
    BY <1>2, <1>4 DEF LinksAreFinite, CountsAreLinks
  <1>6. Unreferenced(C) \subseteq Objects /\ \A l \in links' : l[2] \notin Unreferenced(C)
    BY <1>4 DEF Unreferenced
  <1>7. /\ links' \subseteq links /\ raced' \subseteq raced
        /\ checkpoints' \in [Checkpoints -> Workspaces \cup {Nobody}] /\ LinkedIsRecorded'
        /\ \A c \in Checkpoints : checkpoints[c] = Nobody => checkpoints'[c] = Nobody
        /\ \A l \in links' : l[1] \in raced => l[1] \in raced'
    BY <1>2, <1>3 DEF StorageTyped, LinkedIsRecorded
  <1> QED BY <1>1, <1>2, <1>5, <1>6, <1>7

LEMMA LinksKept ==
  ASSUME LinksAreFinite, CountsAreLinks, links' = links, counts' = counts
  PROVE  LinksAreFinite' /\ CountsAreLinks'
  BY DEF LinksAreFinite, CountsAreLinks, LinksTo, LinksOf

(* What is left once the links and counts are dealt with. *)
RestInv == /\ StorageTyped /\ Unrecorded /\ LinkedIsRecorded /\ Restorable /\ RepositoryKept
           /\ RemovedIsRaced /\ RemovedIsEmpty /\ ScheduledHasEnded

LEMMA StorageStep ==
  ASSUME StorageInv, [NextStorage]_storage
  PROVE  StorageInv'
  <1> USE NobodyAssumption DEF AttemptStates, CleanerStates, Idle, Resting, Cleaners, Nobody
  <1>a. RestInv /\ LinksAreFinite /\ CountsAreLinks
    BY DEF StorageInv, RestInv
  <1>b. ASSUME RestInv', links' = links, counts' = counts PROVE StorageInv'
    BY <1>a, <1>b, LinksKept DEF StorageInv, RestInv
  <1>1. ASSUME NEW w \in Workspaces, Prepare(w) PROVE StorageInv'
    <2>2. StorageTyped'
      <3>1. PICK r \in AttemptStates : r = attempt[w] /\ attempt' = [attempt EXCEPT ![w] = [r EXCEPT !.state = "working"]]
        BY <1>a, <1>1 DEF RestInv, Prepare, StorageTyped
      <3>2. [r EXCEPT !.state = "working"] \in AttemptStates
        OBVIOUS
      <3>3. attempt' \in [Workspaces -> AttemptStates]
        BY <1>a, <3>1, <3>2 DEF RestInv, StorageTyped
      <3>4. /\ records' \in [Workspaces -> {Nobody, "active", "cancelled"}]
            /\ repositories' \subseteq OwnerTasks
        BY <1>a, <1>1 DEF RestInv, Prepare, Saved, OwnerTasks, StorageTyped
      <3> QED BY <1>a, <1>1, <3>3, <3>4 DEF RestInv, Prepare, StorageTyped
    <2>3. Unrecorded' /\ LinkedIsRecorded' /\ Restorable'
      BY <1>a, <1>1 DEF RestInv, Prepare, Saved, OwnerTasks, WorkspacesOf, StorageTyped,
         Unrecorded, LinkedIsRecorded, Restorable
    <2>4. RepositoryKept' /\ RemovedIsRaced' /\ RemovedIsEmpty' /\ ScheduledHasEnded'
      BY <1>a, <1>1 DEF RestInv, Prepare, Saved, OwnerTasks, WorkspacesOf, StorageTyped,
         RepositoryKept, RemovedIsRaced, RemovedIsEmpty, ScheduledHasEnded
    <2>1. RestInv'
      BY <2>2, <2>3, <2>4 DEF RestInv
    <2> QED BY <1>b, <1>1, <2>1 DEF Prepare
  <1>2. ASSUME NEW w \in Workspaces, NEW c \in Checkpoints, NEW content \in Contents, Scan(w, c, content) PROVE StorageInv'
    <2>1. RestInv'
      BY <1>a, <1>2 DEF RestInv, Scan, Contents, StorageTyped, Unrecorded,
         LinkedIsRecorded, Restorable, RepositoryKept, RemovedIsRaced, RemovedIsEmpty,
         ScheduledHasEnded
    <2> QED BY <1>b, <1>2, <2>1 DEF Scan
  <1>3. ASSUME NEW w \in Workspaces, NEW o \in Objects, Store(w, o) PROVE StorageInv'
    <2>2. StorageTyped'
      <3>1. PICK r \in AttemptStates : r = attempt[w] /\ attempt' = [attempt EXCEPT ![w] =
                                          [r EXCEPT !.todo = @ \ {o}, !.stored = @ \cup {o}]]
        BY <1>a, <1>3 DEF RestInv, Store, StorageTyped
      <3>2. [r EXCEPT !.todo = @ \ {o}, !.stored = @ \cup {o}] \in AttemptStates
        OBVIOUS
      <3>3. attempt' \in [Workspaces -> AttemptStates]
        BY <1>a, <3>1, <3>2 DEF RestInv, StorageTyped
      <3> QED BY <1>a, <1>3, <3>3 DEF RestInv, Store, StorageTyped
    <2>3. Unrecorded' /\ LinkedIsRecorded' /\ Restorable'
      BY <1>a, <1>3 DEF RestInv, Store, StorageTyped, Unrecorded, LinkedIsRecorded, Restorable
    <2>4. RepositoryKept' /\ RemovedIsRaced' /\ RemovedIsEmpty' /\ ScheduledHasEnded'
      BY <1>a, <1>3 DEF RestInv, Store, StorageTyped, RepositoryKept, RemovedIsRaced,
         RemovedIsEmpty, ScheduledHasEnded
    <2>1. RestInv'
      BY <2>2, <2>3, <2>4 DEF RestInv
    <2> QED BY <1>b, <1>3, <2>1 DEF Store
  <1>4. ASSUME NEW w \in Workspaces, EndAttempt(w) PROVE StorageInv'
    <2>1. RestInv'
      BY <1>a, <1>4 DEF RestInv, EndAttempt, StorageTyped, Unrecorded, LinkedIsRecorded,
         Restorable, RepositoryKept, RemovedIsRaced, RemovedIsEmpty, ScheduledHasEnded
    <2> QED BY <1>b, <1>4, <2>1 DEF EndAttempt
  <1>5. ASSUME NEW x \in OwnerTasks, NEW status \in {"done", "cancelled"}, EndTask(x, status) PROVE StorageInv'
    <2>1. RestInv'
      BY <1>a, <1>5 DEF RestInv, EndTask, StorageTyped, Unrecorded, LinkedIsRecorded,
         Restorable, RepositoryKept, RemovedIsRaced, RemovedIsEmpty, ScheduledHasEnded
    <2> QED BY <1>b, <1>5, <2>1 DEF EndTask
  <1>6. ASSUME NEW x \in OwnerTasks, Schedule(x) PROVE StorageInv'
    <2>1. RestInv'
      BY <1>a, <1>6 DEF RestInv, Schedule, WorkspacesOf, StorageTyped, Unrecorded,
         LinkedIsRecorded, Restorable, RepositoryKept, RemovedIsRaced, RemovedIsEmpty,
         ScheduledHasEnded
    <2> QED BY <1>b, <1>6, <2>1 DEF Schedule
  <1>7. ASSUME NEW W \in SUBSET Workspaces, StartSweep(W) PROVE StorageInv'
    <2>2. StorageTyped'
      BY <1>a, <1>7 DEF RestInv, StartSweep, StorageTyped
    <2>3. Unrecorded' /\ LinkedIsRecorded' /\ Restorable'
      BY <1>a, <1>7 DEF RestInv, StartSweep, StorageTyped, Unrecorded, LinkedIsRecorded,
         Restorable
    <2>4. RepositoryKept' /\ RemovedIsRaced' /\ RemovedIsEmpty' /\ ScheduledHasEnded'
      BY <1>a, <1>7 DEF RestInv, StartSweep, StorageTyped, RepositoryKept, RemovedIsRaced,
         RemovedIsEmpty, ScheduledHasEnded
    <2>1. RestInv'
      BY <2>2, <2>3, <2>4 DEF RestInv
    <2> QED BY <1>b, <1>7, <2>1 DEF StartSweep
  <1>8. ASSUME NEW k \in Cleaners, NEW o \in Objects, RemoveObject(k, o) PROVE StorageInv'
    <2>1. RestInv'
      BY <1>a, <1>8 DEF RestInv, RemoveObject, StorageTyped, Unrecorded, LinkedIsRecorded,
         Restorable, RepositoryKept, RemovedIsRaced, RemovedIsEmpty, ScheduledHasEnded
    <2> QED BY <1>b, <1>8, <2>1 DEF RemoveObject
  <1>9. ASSUME NEW k \in Cleaners, RemoveRepositories(k) PROVE StorageInv'
    <2>2. StorageTyped'
      <3>1. PICK s \in CleanerStates : s = cleaner[k]
        BY <1>a DEF RestInv, StorageTyped
      <3>2. PICK r \in CleanerStates : cleaner' = [cleaner EXCEPT ![k] = r]
        <4>1. CASE k = "sweep"
          <5>1. [Resting EXCEPT !.state = "listed", !.due = s.due] \in CleanerStates
            OBVIOUS
          <5> QED BY <1>9, <3>1, <4>1, <5>1 DEF RemoveRepositories
        <4>2. CASE k # "sweep"
          <5>1. Resting \in CleanerStates
            OBVIOUS
          <5> QED BY <1>9, <4>2, <5>1 DEF RemoveRepositories
        <4> QED BY <4>1, <4>2
      <3>3. cleaner' \in [Cleaners -> CleanerStates]
        BY <1>a, <3>2 DEF RestInv, StorageTyped
      <3> QED BY <1>a, <1>9, <3>3 DEF RestInv, RemoveRepositories, StorageTyped
    <2>3. Unrecorded' /\ LinkedIsRecorded' /\ Restorable'
      BY <1>a, <1>9 DEF RestInv, RemoveRepositories, StorageTyped, Unrecorded,
         LinkedIsRecorded, Restorable
    <2>4. RepositoryKept'
      <3> SUFFICES ASSUME NEW w \in Workspaces, records[w] # Nobody
                   PROVE  Owner[w] \in repositories'
        BY <1>9 DEF RemoveRepositories, RepositoryKept
      <3>1. Owner[w] \in repositories
        BY <1>a DEF RestInv, RepositoryKept
      <3>2. Owner[w] \notin cleaner[k].repositories
        BY <1>a DEF RestInv, RemovedIsEmpty, WorkspacesOf
      <3> QED BY <1>9, <3>1, <3>2 DEF RemoveRepositories
    <2>6. \A j \in Cleaners : /\ cleaner'[j].objects \subseteq cleaner[j].objects
                              /\ cleaner'[j].repositories \subseteq cleaner[j].repositories
      BY <1>a, <1>9 DEF RestInv, RemoveRepositories, StorageTyped
    <2>7. UNCHANGED << taskStatus, records, links, raced >>
      BY <1>9 DEF RemoveRepositories
    <2> HIDE DEF AttemptStates, CleanerStates, Idle, Resting, Cleaners
    <2>5. RemovedIsRaced' /\ RemovedIsEmpty' /\ ScheduledHasEnded'
      BY <1>a, <2>6, <2>7 DEF RestInv, WorkspacesOf, RemovedIsRaced, RemovedIsEmpty,
         ScheduledHasEnded
    <2>1. RestInv'
      BY <2>2, <2>3, <2>4, <2>5 DEF RestInv
    <2> QED BY <1>b, <1>9, <2>1 DEF RemoveRepositories
  <1>10. CASE SweepEnds
    <2>1. RestInv'
      BY <1>a, <1>10 DEF RestInv, SweepEnds, StorageTyped, Unrecorded, LinkedIsRecorded,
         Restorable, RepositoryKept, RemovedIsRaced, RemovedIsEmpty, ScheduledHasEnded
    <2> QED BY <1>b, <1>10, <2>1 DEF SweepEnds
  <1>11. CASE CrashStorage
    <2>1. RestInv'
      BY <1>a, <1>11 DEF RestInv, CrashStorage, StorageTyped, Unrecorded, LinkedIsRecorded,
         Restorable, RepositoryKept, RemovedIsRaced, RemovedIsEmpty, ScheduledHasEnded
    <2> QED BY <1>b, <1>11, <2>1 DEF CrashStorage
  <1>12. CASE UNCHANGED storage
    <2>1. RestInv'
      BY <1>a, <1>12 DEF RestInv, storage, WorkspacesOf, StorageTyped, Unrecorded,
         LinkedIsRecorded, Restorable, RepositoryKept, RemovedIsRaced, RemovedIsEmpty,
         ScheduledHasEnded
    <2> QED BY <1>b, <1>12, <2>1 DEF storage
  <1>13. ASSUME NEW w \in Workspaces, Record(w) PROVE StorageInv'
    <2>1. PICK c \in Checkpoints, S \in SUBSET Objects :
             c = attempt[w].checkpoint /\ S = attempt[w].stored /\ checkpoints[c] = Nobody
      BY <1>a, <1>13 DEF RestInv, StorageTyped, Unrecorded, Record
    <2>2. /\ checkpoints' = [checkpoints EXCEPT ![c] = w]
          /\ links' = links \cup ({c} \X S)
          /\ counts' = [o \in Objects |-> IF o \in S THEN Counted(o) ELSE counts[o]]
          /\ raced' = IF \E o \in S : BeingRemoved(o) \/ o \notin files
                      THEN raced \cup {c} ELSE raced
          /\ attempt' = [attempt EXCEPT ![w] = [Idle EXCEPT !.state = "working"]]
          /\ UNCHANGED << taskStatus, records, files, repositories, cleaner >>
      BY <1>13, <2>1 DEF Record
    <2>3. \A l \in links : l[1] # c
      BY <1>a, <2>1 DEF RestInv, LinkedIsRecorded
    <2>4. ASSUME NEW o \in Objects
          PROVE  counts'[o] \in Nat \cup {NoRow} /\ IsFiniteSet(LinksTo(o)')
      <3>1. IsFiniteSet(LinksTo(o)')
        BY <1>a, <2>1, <2>2, <2>3, AddedLinks
      <3>2. counts[o] \in Nat \cup {NoRow}
        BY <1>a DEF RestInv, StorageTyped
      <3> QED BY <2>2, <3>1, <3>2 DEF Counted, NoRow
    <2>5. ASSUME NEW o \in Objects
          PROVE  LinksOf(o)' = IF counts'[o] = NoRow THEN 0 ELSE counts'[o]
      <3>1. /\ LinksOf(o) \in Nat /\ counts[o] \in Nat \cup {NoRow}
            /\ LinksOf(o) = IF counts[o] = NoRow THEN 0 ELSE counts[o]
        BY <1>a, LinksOfNat DEF RestInv, StorageTyped, CountsAreLinks
      <3>2. LinksOf(o)' = LinksOf(o) + (IF o \in S THEN 1 ELSE 0)
        BY <1>a, <2>1, <2>2, <2>3, AddedLinks
      <3> QED BY <2>2, <3>1, <3>2 DEF Counted, NoRow
    <2>6. LinksAreFinite' /\ CountsAreLinks'
      BY <2>4, <2>5 DEF LinksAreFinite, CountsAreLinks
    <2>7. counts' \in [Objects -> Nat \cup {NoRow}]
      BY <1>a, <2>2, <2>4 DEF RestInv, StorageTyped
    <2>8. StorageTyped' /\ Unrecorded' /\ LinkedIsRecorded'
      BY <1>a, <2>1, <2>2, <2>7 DEF RestInv, StorageTyped, Unrecorded, LinkedIsRecorded
    <2>9. Restorable' /\ RemovedIsRaced'
      BY <1>a, <2>1, <2>2, <2>3 DEF RestInv, StorageTyped, Restorable, RemovedIsRaced,
         BeingRemoved
    <2>10. RepositoryKept' /\ RemovedIsEmpty' /\ ScheduledHasEnded'
      BY <1>a, <2>2 DEF RestInv, RepositoryKept, RemovedIsEmpty, ScheduledHasEnded
    <2> QED BY <2>6, <2>8, <2>9, <2>10 DEF StorageInv
  <1>14. ASSUME NEW w \in Workspaces, SweepOne(w) PROVE StorageInv'
    <2>1. CASE records[w] = "cancelled"
      <3>1. Unlink({w})
        BY <1>14, <2>1 DEF SweepOne
      <3>2. PICK U \in SUBSET Objects, R \in SUBSET OwnerTasks :
              /\ U = Unreferenced(CheckpointsOf({w}))
              /\ R = IF \E v \in WorkspacesOf(Owner[w]) \ {w} : records[v] # Nobody
                     THEN {} ELSE {Owner[w]}
        <4>1. Unreferenced(CheckpointsOf({w})) \in SUBSET Objects
          BY <3>1, Unlinked
        <4>2. PICK U \in SUBSET Objects : U = Unreferenced(CheckpointsOf({w}))
          BY <4>1
        <4>3. PICK R \in SUBSET OwnerTasks :
                R = IF \E v \in WorkspacesOf(Owner[w]) \ {w} : records[v] # Nobody
                    THEN {} ELSE {Owner[w]}
          BY DEF OwnerTasks
        <4> QED BY <4>2, <4>3
      <3>3. /\ cleaner' = [cleaner EXCEPT !["sweep"] =
                  [state |-> "removing", due |-> cleaner["sweep"].due \ {w},
                   objects |-> U, repositories |-> R]]
            /\ UNCHANGED << taskStatus, files, repositories, attempt >>
        BY <1>14, <2>1, <3>2 DEF SweepOne
      <3>4. RestInv' /\ LinksAreFinite' /\ CountsAreLinks'
        <4>1. /\ checkpoints' \in [Checkpoints -> Workspaces \cup {Nobody}]
              /\ records' = [v \in Workspaces |-> IF v \in {w} THEN Nobody ELSE records[v]]
              /\ links' \subseteq links /\ raced' \subseteq raced
              /\ counts' \in [Objects -> Nat \cup {NoRow}]
              /\ LinkedIsRecorded' /\ LinksAreFinite' /\ CountsAreLinks'
              /\ \A c \in Checkpoints : checkpoints[c] = Nobody => checkpoints'[c] = Nobody
              /\ \A l \in links' : l[1] \in raced => l[1] \in raced'
              /\ \A l \in links' : l[2] \notin U
          BY <3>1, <3>2, Unlinked
        <4>2. StorageTyped' /\ Unrecorded'
          BY <1>a, <3>3, <4>1 DEF RestInv, StorageTyped, Unrecorded
        <4>3. Restorable' /\ RemovedIsRaced'
          BY <1>a, <3>3, <4>1 DEF RestInv, StorageTyped, Restorable, RemovedIsRaced
        <4>4. RepositoryKept' /\ RemovedIsEmpty' /\ ScheduledHasEnded'
          BY <1>a, <2>1, <3>2, <3>3, <4>1 DEF RestInv, StorageTyped, RepositoryKept,
             RemovedIsEmpty, ScheduledHasEnded, WorkspacesOf
        <4> QED BY <4>1, <4>2, <4>3, <4>4 DEF RestInv
      <3> QED BY <3>4 DEF StorageInv, RestInv
    <2>2. CASE records[w] # "cancelled"
      <3>1. RestInv' /\ links' = links /\ counts' = counts
        BY <1>a, <1>14, <2>2 DEF RestInv, SweepOne, StorageTyped, Unrecorded,
           LinkedIsRecorded, Restorable, RepositoryKept, RemovedIsRaced, RemovedIsEmpty,
           ScheduledHasEnded
      <3> QED BY <1>b, <3>1
    <2> QED BY <2>1, <2>2
  <1>15. ASSUME NEW x \in OwnerTasks, Purge(x) PROVE StorageInv'
    <2>1. WorkspacesOf(x) \in SUBSET Workspaces /\ Unlink(WorkspacesOf(x))
      BY <1>15 DEF Purge, DeleteTaskFacts, WorkspacesOf
    <2>2. PICK W \in SUBSET Workspaces, U \in SUBSET Objects, R \in SUBSET OwnerTasks :
            /\ W = WorkspacesOf(x) /\ U = Unreferenced(CheckpointsOf(W)) /\ R \subseteq {x}
            /\ R = IF \E w \in W : records[w] # Nobody THEN {x} ELSE {}
      <3>1. Unreferenced(CheckpointsOf(WorkspacesOf(x))) \in SUBSET Objects
        BY <2>1, Unlinked
      <3>2. PICK W \in SUBSET Workspaces : W = WorkspacesOf(x)
        BY <2>1
      <3>3. PICK U \in SUBSET Objects : U = Unreferenced(CheckpointsOf(W))
        BY <3>1, <3>2
      <3>4. PICK R \in SUBSET OwnerTasks :
              R \subseteq {x} /\ R = IF \E w \in W : records[w] # Nobody THEN {x} ELSE {}
        OBVIOUS
      <3> QED BY <3>2, <3>3, <3>4
    <2>3. /\ taskStatus' = [taskStatus EXCEPT ![x] = "purged"]
          /\ cleaner' = [cleaner EXCEPT !["purge"] =
                [state |-> "removing", due |-> {}, objects |-> U, repositories |-> R]]
          /\ UNCHANGED << files, repositories, attempt >>
      BY <1>15, <2>2 DEF Purge, DeleteTaskFacts
    <2>4. /\ checkpoints' \in [Checkpoints -> Workspaces \cup {Nobody}]
          /\ records' = [v \in Workspaces |-> IF v \in W THEN Nobody ELSE records[v]]
          /\ links' \subseteq links /\ raced' \subseteq raced
          /\ counts' \in [Objects -> Nat \cup {NoRow}]
          /\ LinkedIsRecorded' /\ LinksAreFinite' /\ CountsAreLinks'
          /\ \A c \in Checkpoints : checkpoints[c] = Nobody => checkpoints'[c] = Nobody
          /\ \A l \in links' : l[1] \in raced => l[1] \in raced'
          /\ \A l \in links' : l[2] \notin U
      BY <2>1, <2>2, Unlinked
    <2>5. StorageTyped' /\ Unrecorded'
      BY <1>a, <2>3, <2>4 DEF RestInv, StorageTyped, Unrecorded
    <2>6. Restorable' /\ RemovedIsRaced'
      BY <1>a, <2>3, <2>4 DEF RestInv, StorageTyped, Restorable, RemovedIsRaced
    <2>7. RepositoryKept' /\ RemovedIsEmpty' /\ ScheduledHasEnded'
      BY <1>a, <2>2, <2>3, <2>4 DEF RestInv, StorageTyped, RepositoryKept, RemovedIsEmpty,
         ScheduledHasEnded, WorkspacesOf
    <2> QED BY <2>4, <2>5, <2>6, <2>7 DEF StorageInv
  <1> QED BY <1>1, <1>2, <1>3, <1>4, <1>5, <1>6, <1>7, <1>8, <1>9, <1>10, <1>11, <1>12,
     <1>13, <1>14, <1>15 DEF NextStorage

LEMMA StorageInductive == StorageSpec => []StorageInv
  BY StorageStart, StorageStep, PTL DEF StorageSpec

\* Rows, links, counts and files keep their shapes, for all sets of workspaces,
\* checkpoints and objects.
THEOREM StorageTypeCorrect == StorageSpec => []StorageTyped
  <1>1. StorageInv => StorageTyped
    BY DEF StorageInv
  <1> QED BY <1>1, StorageInductive, PTL

\* However checkpoints, sweeps, purges and crashes interleave: a count is the
\* number of checkpoints that hold the object, a checkpoint can be restored
\* unless it was recorded while the file of an object was about to go, and a
\* workspace has its repository.
THEOREM StoresAreConsistent == StorageSpec => []StoreIsConsistent
  <1>1. StorageInv => StoreIsConsistent
    BY DEF StorageInv, StoreIsConsistent
  <1> QED BY <1>1, StorageInductive, PTL
-----------------------------------------------------------------------------
(***************************************************************************)
(* The registration of Executors.                                          *)
(***************************************************************************)

ConfigFiles == Configs \cup {Broken}
CommandStates ==
  [state : {"waiting", "verifying", "written"},
   does : {"none", "register", "enable", "disable", "verify"},
   target : Executors \cup {"none"}, base : ConfigFiles, next : ConfigFiles, todo : SUBSET Executors]

RegistryTyped ==
  /\ hostOf \in [Commands -> Processes] /\ file \in ConfigFiles
  /\ verifications \subseteq Executors \X ConfigFiles /\ failing \subseteq Executors \X ConfigFiles
  /\ proved \subseteq Executors \X ConfigFiles
  /\ health \in [Executors -> {"none", "unverified", "healthy", "error", "disabled"}]
  /\ snapshot \in [config : Configs, routable : SUBSET Executors]
  /\ command \in [Commands -> CommandStates]
  /\ attempts \subseteq Executors /\ checks \subseteq Executors
  /\ registered \subseteq Executors /\ byHand \subseteq Executors
  /\ overwritten \in BOOLEAN /\ torn \in BOOLEAN

\* What a command under way is about to write differs from what it read only in
\* its target, and whatever it has checked off passed its verification.
Working ==
  \A c \in Commands : command[c].state # "waiting" =>
     /\ command[c].target \in Executors /\ command[c].base \in Configs
     /\ command[c].does # "none"
     /\ command[c].next = Candidate(command[c].does, command[c].target, command[c].base)
     /\ command[c].does # "verify" =>
          \A x \in Enabled(command[c].next) \ command[c].todo : << x, command[c].next >> \in proved

WrittenIsVerified ==
  \A c \in Commands : command[c].state = "written" =>
     command[c].does # "verify" /\ command[c].todo = {}

RowsWereProved == verifications \subseteq proved

RegistryInv == /\ RegistryTyped /\ Working /\ WrittenIsVerified /\ RowsWereProved
               /\ EnabledIsVerified /\ RoutableWasVerified /\ RegistrationsStay /\ DisabledStays

USE DEF ConfigFiles, CommandStates, Configs, Enabled, Processes

LEMMA RegistryStart == InitRegistry => RegistryInv
  <1> SUFFICES ASSUME InitRegistry PROVE RegistryInv
    OBVIOUS
  <1> USE HostsAssumption DEF InitRegistry, NoExecutors
  <1>1. RegistryTyped
    BY DEF RegistryTyped, SnapshotOf, Waiting, Broken
  <1>2. /\ Working /\ WrittenIsVerified /\ RowsWereProved /\ EnabledIsVerified
        /\ RoutableWasVerified /\ RegistrationsStay /\ DisabledStays
    BY DEF Working, WrittenIsVerified, RowsWereProved, EnabledIsVerified,
       RoutableWasVerified, RegistrationsStay, DisabledStays, SnapshotOf, Matches, Waiting
  <1> QED BY <1>1, <1>2 DEF RegistryInv

\* A snapshot that was loaded routes only to what rows say was verified.
LEMMA LoadedSnapshot ==
  ASSUME RegistryTyped, RoutableWasVerified, proved \subseteq proved',
         NEW rows, rows \subseteq proved', snapshot' \in {snapshot, Reloaded(rows)}
  PROVE  snapshot' \in [config : Configs, routable : SUBSET Executors] /\ RoutableWasVerified'
  <1>1. CASE snapshot' = snapshot
    BY <1>1 DEF RegistryTyped, RoutableWasVerified
  <1>2. CASE file # Broken /\ snapshot' = SnapshotOf(file, rows)
    <2>1. file \in Configs
      BY <1>2 DEF RegistryTyped
    <2>2. /\ snapshot'.config = file
          /\ snapshot'.routable = {x \in Executors : file[x] = "on" /\ << x, file >> \in rows}
          /\ snapshot' \in [config : Configs, routable : SUBSET Executors]
      BY <1>2, <2>1 DEF SnapshotOf, Matches
    <2> QED BY <2>2 DEF RoutableWasVerified
  <1> QED BY <1>1, <1>2 DEF Reloaded

LEMMA CandidateTyped ==
  ASSUME NEW does, NEW x \in Executors, NEW config \in Configs
  PROVE  /\ Candidate(does, x, config) \in Configs
         /\ \A y \in Executors \ {x} : Candidate(does, x, config)[y] = config[y]
         /\ does \in {"register", "enable"} => Candidate(does, x, config)[x] = "on"
         /\ does = "disable" => Candidate(does, x, config)[x] = "off"
  BY DEF Candidate
LEMMA RegistryStep ==
  ASSUME RegistryInv, [NextRegistry]_registry
  PROVE  RegistryInv'
  <1>a. /\ RegistryTyped /\ Working /\ WrittenIsVerified /\ RowsWereProved
        /\ EnabledIsVerified /\ RoutableWasVerified /\ RegistrationsStay /\ DisabledStays
    BY DEF RegistryInv
  <1>1. ASSUME NEW c \in Commands, NEW x \in Executors,
               NEW does \in {"register", "enable", "disable", "verify"}, BeginCommand(c, does, x)
        PROVE  RegistryInv'
    <2>1. PICK cur \in Configs, new \in Configs, new_todo \in SUBSET Executors :
            /\ new = Candidate(does, x, cur)
            /\ new_todo = IF does = "verify" THEN {x} ELSE Enabled(new)
            /\ command' = [command EXCEPT ![c] =
                 [state |-> "verifying", does |-> does, target |-> x, base |-> cur, next |-> new,
                  todo |-> new_todo]]
      <3>1. PICK cur \in Configs : cur = IF hostOf[c] = "cli" THEN file ELSE snapshot.config
        BY <1>a, <1>1 DEF BeginCommand, RegistryTyped
      <3>2. PICK new \in Configs : new = Candidate(does, x, cur)
        BY CandidateTyped
      <3>3. PICK todo \in SUBSET Executors : todo = IF does = "verify" THEN {x} ELSE Enabled(new)
        OBVIOUS
      <3> QED BY <1>1, <3>1, <3>2, <3>3 DEF BeginCommand
    <2>2. /\ command[c].state = "waiting"
          /\ UNCHANGED << hostOf, proved, file, verifications, failing, health, snapshot, attempts,
                          checks, registered, overwritten, torn, byHand >>
      BY <1>1 DEF BeginCommand
    <2>3. [state |-> "verifying", does |-> does, target |-> x, base |-> cur, next |-> new,
           todo |-> new_todo] \in CommandStates
      OBVIOUS
    <2>4. RegistryTyped'
      BY <1>a, <2>1, <2>2, <2>3 DEF RegistryTyped
    <2>5. ASSUME NEW d \in Commands
          PROVE  /\ command'[d].state = "written" <=> command[d].state = "written"
                 /\ d # c => command'[d] = command[d]
                 /\ command[d].state = "written" => command'[d] = command[d]
      BY <1>a, <2>1, <2>2 DEF RegistryTyped
    <2>6. Working' /\ WrittenIsVerified' /\ RowsWereProved' /\ RoutableWasVerified'
      BY <1>a, <2>1, <2>2, <2>5 DEF RegistryTyped, Working, WrittenIsVerified,
         RowsWereProved, RoutableWasVerified
    <2>7. EnabledIsVerified' /\ RegistrationsStay' /\ DisabledStays'
      BY <1>a, <2>2, <2>5 DEF EnabledIsVerified, RegistrationsStay, DisabledStays
    <2> QED BY <2>4, <2>6, <2>7 DEF RegistryInv
  <1>2. ASSUME NEW c \in Commands, NEW success \in BOOLEAN, Verified(c, success)
        PROVE  RegistryInv'
    <2>1. PICK x \in Executors, new \in ConfigFiles : x = command[c].target /\ new = command[c].next
      BY <1>a, <1>2 DEF Verified, Working, RegistryTyped
    <2>2. /\ proved' = IF success THEN proved \cup {<< x, new >>} ELSE proved
          /\ verifications' = IF success THEN verifications \cup {<< x, new >>}
                                         ELSE verifications \ {<< x, new >>}
          /\ failing' = IF success THEN failing \ {<< x, new >>} ELSE failing \cup {<< x, new >>}
          /\ health' = [health EXCEPT ![x] = IF success THEN "healthy" ELSE "error"]
          /\ snapshot' \in {snapshot, Reloaded(verifications')}
          /\ byHand' = byHand \cup {x} /\ command' = [command EXCEPT ![c] = Waiting]
          /\ command[c].state = "verifying"
          /\ UNCHANGED << hostOf, file, attempts, checks, registered, overwritten, torn >>
      BY <1>2, <2>1 DEF Verified, Upsert, Passed, RecordedFor, AtHome
    <2>3. /\ proved \subseteq proved' /\ verifications' \subseteq proved'
          /\ verifications \cup failing \subseteq verifications' \cup failing'
      BY <1>a, <2>2 DEF RowsWereProved
    <2>4. snapshot' \in [config : Configs, routable : SUBSET Executors] /\ RoutableWasVerified'
      BY <1>a, <2>2, <2>3, LoadedSnapshot
    <2>5. RegistryTyped'
      BY <1>a, <2>2, <2>4 DEF RegistryTyped, Waiting
    <2>6. Working' /\ WrittenIsVerified' /\ RowsWereProved'
      BY <1>a, <2>2, <2>3 DEF RegistryTyped, Working, WrittenIsVerified, RowsWereProved,
         Waiting
    <2>7. EnabledIsVerified' /\ RegistrationsStay' /\ DisabledStays'
      BY <1>a, <2>2, <2>3 DEF RegistryTyped, EnabledIsVerified, RegistrationsStay,
         DisabledStays, Waiting
    <2> QED BY <2>4, <2>5, <2>6, <2>7 DEF RegistryInv
  <1>3. ASSUME NEW c \in Commands, NEW x \in Executors, NEW success \in BOOLEAN,
               VerifyNext(c, x, success)
        PROVE  RegistryInv'
    <2>1. PICK new \in Configs, old \in CommandStates :
            old = command[c] /\ new = old.next /\ old.state = "verifying" /\ old.does # "verify"
      <3>1. /\ command[c].state = "verifying" /\ command[c].does # "verify"
            /\ command[c] \in CommandStates
        BY <1>a, <1>3 DEF VerifyNext, RegistryTyped
      <3>2. /\ command[c].target \in Executors /\ command[c].base \in Configs
            /\ command[c].next = Candidate(command[c].does, command[c].target, command[c].base)
        BY <1>a, <3>1 DEF Working
      <3>3. command[c].next \in Configs
        BY <3>2 DEF Candidate
      <3> HIDE DEF CommandStates, Configs, Enabled
      <3> QED BY <3>1, <3>3
    <2>2. /\ proved' = IF success THEN proved \cup {<< x, new >>} ELSE proved
          /\ verifications' = IF success THEN verifications ELSE verifications \ {<< x, new >>}
          /\ failing' = IF success THEN failing ELSE failing \cup {<< x, new >>}
          /\ command' = [command EXCEPT ![c] =
               IF success THEN [old EXCEPT !.todo = @ \ {x}] ELSE Waiting]
          /\ UNCHANGED << hostOf, file, health, snapshot, attempts, checks, registered, overwritten,
                          torn, byHand >>
      BY <1>3, <2>1 DEF VerifyNext, Upsert, Passed
    <2>3. /\ [old EXCEPT !.todo = @ \ {x}] \in CommandStates /\ Waiting \in CommandStates
          /\ verifications' \subseteq proved' /\ proved \subseteq proved'
          /\ verifications \cup failing \subseteq verifications' \cup failing'
      BY <1>a, <2>2 DEF RowsWereProved, Waiting
    <2>4. RegistryTyped'
      BY <1>a, <2>2, <2>3 DEF RegistryTyped
    <2>a. /\ \A d \in Commands \ {c} : command'[d] = command[d]
          /\ command'[c] = IF success THEN [old EXCEPT !.todo = @ \ {x}] ELSE Waiting
      <3> HIDE DEF CommandStates, Configs, Enabled
      <3> QED BY <1>a, <2>2 DEF RegistryTyped
    <2>b. Working'
      <3> SUFFICES ASSUME NEW d \in Commands, command'[d].state # "waiting"
                   PROVE  /\ command'[d].target \in Executors /\ command'[d].base \in Configs
                          /\ command'[d].does # "none"
                          /\ command'[d].next
                               = Candidate(command'[d].does, command'[d].target, command'[d].base)
                          /\ command'[d].does # "verify" =>
                               \A y \in Enabled(command'[d].next) \ command'[d].todo :
                                  << y, command'[d].next >> \in proved'
        BY DEF Working
      <3>1. CASE d = c
        <4>1. success /\ command'[c] = [old EXCEPT !.todo = @ \ {x}]
          BY <2>a, <3>1 DEF Waiting
        <4>2. /\ command'[c].target = old.target /\ command'[c].base = old.base
              /\ command'[c].does = old.does /\ command'[c].next = old.next
              /\ command'[c].todo = old.todo \ {x}
          BY <4>1
        <4>3. /\ old.target \in Executors /\ old.base \in Configs /\ old.does # "none"
              /\ old.next = Candidate(old.does, old.target, old.base)
              /\ \A y \in Enabled(old.next) \ old.todo : << y, old.next >> \in proved
          BY <1>a, <2>1 DEF Working
        <4> HIDE DEF CommandStates, Configs, Enabled
        <4>4. proved \subseteq proved' /\ << x, old.next >> \in proved'
          BY <2>1, <2>2, <2>3, <4>1
        <4> QED BY <3>1, <4>2, <4>3, <4>4
      <3>2. CASE d # c
        <4> HIDE DEF CommandStates, Configs, Enabled
        <4> QED BY <1>a, <2>3, <2>a, <3>2 DEF Working
      <3> QED BY <3>1, <3>2
    <2>c. WrittenIsVerified'
      BY <1>a, <2>1, <2>a DEF WrittenIsVerified, Waiting
    <2>d. RowsWereProved' /\ RoutableWasVerified'
      BY <1>a, <2>2, <2>3 DEF RowsWereProved, RoutableWasVerified
    <2>5. Working' /\ WrittenIsVerified' /\ RowsWereProved' /\ RoutableWasVerified'
      BY <2>b, <2>c, <2>d
    <2>6. ASSUME NEW d \in Commands
          PROVE  command[d].state = "written" => d # c /\ command'[d] = command[d]
      BY <1>a, <2>1, <2>2 DEF RegistryTyped
    <2>7. EnabledIsVerified' /\ RegistrationsStay' /\ DisabledStays'
      BY <1>a, <2>2, <2>3, <2>6 DEF EnabledIsVerified, RegistrationsStay, DisabledStays
    <2> QED BY <2>4, <2>5, <2>7 DEF RegistryInv
  <1>4. ASSUME NEW c \in Commands, WriteConfig(c) PROVE RegistryInv'
    <2>1. PICK x \in Executors, cur \in Configs, new \in Configs, old \in CommandStates :
            /\ old = command[c] /\ x = old.target /\ cur = old.base /\ new = old.next
            /\ new = Candidate(old.does, x, cur) /\ old.state = "verifying"
            /\ old.does \notin {"none", "verify"} /\ old.todo = {}
            /\ \A y \in Enabled(new) : << y, new >> \in proved
      <3>1. /\ command[c].state = "verifying" /\ command[c].does # "verify"
            /\ command[c].todo = {} /\ command[c] \in CommandStates
        BY <1>a, <1>4 DEF WriteConfig, RegistryTyped
      <3>2. /\ command[c].target \in Executors /\ command[c].base \in Configs
            /\ command[c].does # "none"
            /\ command[c].next = Candidate(command[c].does, command[c].target, command[c].base)
            /\ \A y \in Enabled(command[c].next) \ command[c].todo :
                  << y, command[c].next >> \in proved
        BY <1>a, <3>1 DEF Working
      <3>3. command[c].next \in Configs
        BY <3>2 DEF Candidate
      <3> HIDE DEF CommandStates, Configs, Enabled
      <3>4. \A y \in Enabled(command[c].next) : << y, command[c].next >> \in proved
        BY <3>1, <3>2
      <3> QED BY <3>1, <3>2, <3>3, <3>4
    <2>2. /\ file' = new /\ command' = [command EXCEPT ![c] = [old EXCEPT !.state = "written"]]
          /\ overwritten' = (overwritten \/ file # cur)
          /\ UNCHANGED << hostOf, proved, verifications, failing, health, snapshot, attempts, checks,
                          registered, torn, byHand >>
      BY <1>4, <2>1 DEF WriteConfig, Does
    <2>3. [old EXCEPT !.state = "written"] \in CommandStates
      OBVIOUS
    <2>4. RegistryTyped'
      BY <1>a, <2>1, <2>2, <2>3 DEF RegistryTyped
    <2>e. /\ command'[c] = [old EXCEPT !.state = "written"]
          /\ \A d \in Commands \ {c} : command'[d] = command[d]
      <3> HIDE DEF CommandStates, Configs, Enabled
      <3> QED BY <1>a, <2>2 DEF RegistryTyped
    <2>a. /\ command'[c].base = cur /\ command'[c].does = old.does /\ command'[c].todo = {}
          /\ \A d \in Commands \ {c} : command'[d] = command[d]
      BY <2>1, <2>e
    <2>6. /\ command'[c].state = "written" /\ command'[c].next = new /\ command'[c].target = x
          /\ \A d \in Commands : command[d].state = "written" => command'[d] = command[d]
      BY <2>1, <2>e
    <2>b. Working'
      <3> SUFFICES ASSUME NEW d \in Commands, command'[d].state # "waiting"
                   PROVE  /\ command'[d].target \in Executors /\ command'[d].base \in Configs
                          /\ command'[d].does # "none"
                          /\ command'[d].next
                               = Candidate(command'[d].does, command'[d].target, command'[d].base)
                          /\ command'[d].does # "verify" =>
                               \A y \in Enabled(command'[d].next) \ command'[d].todo :
                                  << y, command'[d].next >> \in proved'
        BY DEF Working
      <3> HIDE DEF CommandStates, Configs, Enabled
      <3>1. CASE d = c
        BY <2>1, <2>2, <2>6, <2>a, <3>1
      <3>2. CASE d # c
        BY <1>a, <2>2, <2>a, <3>2 DEF Working
      <3> QED BY <3>1, <3>2
    <2>c. WrittenIsVerified'
      BY <1>a, <2>1, <2>a DEF WrittenIsVerified
    <2>d. RowsWereProved' /\ RoutableWasVerified'
      BY <1>a, <2>2 DEF RowsWereProved, RoutableWasVerified
    <2>5. Working' /\ WrittenIsVerified' /\ RowsWereProved' /\ RoutableWasVerified'
      BY <2>b, <2>c, <2>d
    <2>7. \A y \in Executors \ {x} : new[y] = cur[y]
      BY <2>1, CandidateTyped
    <2>8. new[x] # "absent"
      BY <2>1, CandidateTyped
    <2>9. EnabledIsVerified'
      BY <2>2, <2>6 DEF EnabledIsVerified
    <2>10. ASSUME ~overwritten' PROVE ~overwritten /\ file = cur
      BY <1>a, <2>2, <2>10 DEF RegistryTyped
    <2>11. RegistrationsStay'
      BY <1>a, <2>2, <2>7, <2>8, <2>10 DEF RegistryTyped, RegistrationsStay
    <2>12. DisabledStays'
      <3> SUFFICES ASSUME ~overwritten', ~torn', NEW y \in Executors, new[y] = "off", y \notin byHand
                   PROVE  \/ health[y] = "disabled"
                          \/ \E d \in Commands : command'[d].state = "written"
                                                /\ command'[d].target = y
        BY <2>2 DEF DisabledStays
      <3>1. CASE y = x
        BY <2>6, <3>1
      <3>2. CASE y # x
        <4>1. file[y] = "off" /\ ~overwritten /\ ~torn
          BY <2>2, <2>7, <2>10, <3>2
        <4> QED BY <1>a, <2>6, <4>1 DEF DisabledStays
      <3> QED BY <3>1, <3>2
    <2> QED BY <2>4, <2>5, <2>9, <2>11, <2>12 DEF RegistryInv
  <1>5. ASSUME NEW c \in Commands, Loads(c) PROVE RegistryInv'
    <2>1. PICK x \in Executors, cur \in Configs, new \in Configs, old \in CommandStates :
            /\ old = command[c] /\ x = old.target /\ cur = old.base /\ new = old.next
            /\ new = Candidate(old.does, x, cur) /\ old.state = "written"
            /\ old.does \notin {"none", "verify"}
            /\ \A y \in Enabled(new) : << y, new >> \in proved
      BY <1>a, <1>5, CandidateTyped DEF Loads, Working, WrittenIsVerified, RegistryTyped
    <2>2. /\ verifications' = verifications \cup {<< y, new >> : y \in Enabled(new)}
          /\ failing' = failing \ {<< y, new >> : y \in Enabled(new)}
          /\ health' = [y \in Executors |->
               IF y = x /\ old.does = "disable" THEN "disabled"
               ELSE IF y \in Enabled(new) THEN "healthy" ELSE health[y]]
          /\ snapshot' \in {snapshot, Reloaded(verifications')}
          /\ registered' = IF old.does = "register" THEN registered \cup {x} ELSE registered
          /\ byHand' = byHand \ {x} /\ overwritten' = (overwritten \/ file # new)
          /\ command' = [command EXCEPT ![c] = Waiting]
          /\ UNCHANGED << hostOf, proved, file, attempts, checks, torn >>
      BY <1>5, <2>1 DEF Loads, Records, AtHome
    <2>3. /\ proved \subseteq proved' /\ verifications' \subseteq proved'
          /\ verifications \cup failing \subseteq verifications' \cup failing'
          /\ \A y \in Enabled(new) : << y, new >> \in verifications'
      <3>1. PICK rows : /\ rows = {<< y, new >> : y \in Enabled(new)}
                        /\ rows \subseteq proved
                        /\ \A y \in Enabled(new) : << y, new >> \in rows
        <4> HIDE DEF Configs, CommandStates, Enabled
        <4> QED BY <2>1
      <3>2. /\ verifications' = verifications \cup rows /\ failing' = failing \ rows
            /\ proved' = proved
        BY <2>2, <3>1
      <3> QED BY <1>a, <3>1, <3>2 DEF RowsWereProved
    <2>4. snapshot' \in [config : Configs, routable : SUBSET Executors] /\ RoutableWasVerified'
      BY <1>a, <2>2, <2>3, LoadedSnapshot
    <2>5. RegistryTyped'
      BY <1>a, <2>2, <2>4 DEF RegistryTyped, Waiting
    <2>6. Working' /\ WrittenIsVerified' /\ RowsWereProved'
      BY <1>a, <2>2, <2>3 DEF RegistryTyped, Working, WrittenIsVerified, RowsWereProved,
         Waiting
    <2>7. ASSUME NEW d \in Commands, command[d].state = "written"
          PROVE  d = c \/ command'[d] = command[d]
      BY <1>a, <2>2 DEF RegistryTyped
    <2>8. EnabledIsVerified'
      <3> SUFFICES ASSUME ~torn', NEW y \in Enabled(file')
                   PROVE  \/ << y, file' >> \in verifications' \cup failing'
                          \/ \E d \in Commands : command'[d].state = "written"
                                                /\ command'[d].next = file'
        BY DEF EnabledIsVerified
      <3> HIDE DEF Configs, CommandStates, Enabled
      <3>1. file' = file /\ ~torn
        BY <2>2
      <3>2. CASE << y, file >> \in verifications \cup failing
        BY <2>3, <3>1, <3>2
      <3>3. ASSUME NEW d \in Commands, command[d].state = "written", command[d].next = file
            PROVE  \/ << y, file' >> \in verifications' \cup failing'
                   \/ command'[d].state = "written" /\ command'[d].next = file'
        <4>1. CASE d = c
          BY <2>1, <2>3, <3>1, <3>3, <4>1
        <4>2. CASE d # c
          BY <2>7, <3>1, <3>3, <4>2
        <4> QED BY <4>1, <4>2
      <3> QED BY <1>a, <3>1, <3>2, <3>3 DEF EnabledIsVerified
    <2>9. old.does \in {"register", "enable", "disable"}
      BY <2>1
    <2>10. old.does = "disable" => new[x] = "off"
      BY <2>1, CandidateTyped
    <2>11. old.does # "disable" => new[x] = "on"
      BY <2>1, <2>9, CandidateTyped
    <2>12. RegistrationsStay'
      BY <1>a, <2>2, <2>11 DEF RegistrationsStay
    <2>14. overwritten' \/ file' = new
      BY <2>2
    <2>13. DisabledStays'
      <3> SUFFICES ASSUME ~overwritten', ~torn', NEW y \in Executors, new[y] = "off",
                          y \notin byHand'
                   PROVE  \/ health'[y] = "disabled"
                          \/ \E d \in Commands : command'[d].state = "written"
                                                /\ command'[d].target = y
        BY <2>14 DEF DisabledStays
      <3>1. CASE y = x
        BY <2>2, <2>11, <3>1
      <3>2. CASE y # x
        <4>1. file[y] = "off" /\ ~overwritten /\ ~torn /\ y \notin byHand
          BY <1>a, <2>2, <3>2 DEF RegistryTyped
        <4>2. CASE health[y] = "disabled"
          BY <2>2, <3>2, <4>2
        <4>3. CASE \E d \in Commands : command[d].state = "written" /\ command[d].target = y
          BY <2>1, <2>7, <3>2, <4>3
        <4> QED BY <1>a, <4>1, <4>2, <4>3 DEF DisabledStays
      <3> QED BY <3>1, <3>2
    <2> QED BY <2>4, <2>5, <2>6, <2>8, <2>12, <2>13 DEF RegistryInv
  <1>6. ASSUME NEW config \in ConfigFiles, Edit(config) PROVE RegistryInv'
    BY <1>a, <1>6 DEF Edit, RegistryInv, RegistryTyped, Working, WrittenIsVerified,
       RowsWereProved, EnabledIsVerified, RoutableWasVerified, RegistrationsStay,
       DisabledStays
  <1>7. CASE Reload
    <2>1. snapshot' \in [config : Configs, routable : SUBSET Executors] /\ RoutableWasVerified'
      BY <1>a, <1>7, LoadedSnapshot DEF Reload, RowsWereProved
    <2> QED BY <1>a, <1>7, <2>1 DEF Reload, RegistryInv, RegistryTyped, Working,
       WrittenIsVerified, RowsWereProved, EnabledIsVerified, RegistrationsStay, DisabledStays
  <1>8. ASSUME NEW x \in Executors, LaunchOn(x) PROVE RegistryInv'
    BY <1>a, <1>8 DEF LaunchOn, RegistryInv, RegistryTyped, Working, WrittenIsVerified,
       RowsWereProved, EnabledIsVerified, RoutableWasVerified, RegistrationsStay,
       DisabledStays
  <1>9. ASSUME NEW x \in Executors, NEW r \in {"succeeded", "permanent", "transient"},
               AttemptEnds(x, r)
        PROVE  RegistryInv'
    BY <1>a, <1>9 DEF AttemptEnds, StaysOff, RegistryInv, RegistryTyped, Working,
       WrittenIsVerified, RowsWereProved, EnabledIsVerified, RoutableWasVerified,
       RegistrationsStay, DisabledStays
  <1>10. CASE RefreshErrors
    BY <1>a, <1>10 DEF RefreshErrors, RegistryInv, RegistryTyped, Working,
       WrittenIsVerified, RowsWereProved, EnabledIsVerified, RoutableWasVerified,
       RegistrationsStay, DisabledStays
  <1>11. ASSUME NEW x \in Executors, NEW available \in BOOLEAN, Checked(x, available)
         PROVE  RegistryInv'
    BY <1>a, <1>11 DEF Checked, Recovers, RegistryInv, RegistryTyped, Working,
       WrittenIsVerified, RowsWereProved, EnabledIsVerified, RoutableWasVerified,
       RegistrationsStay, DisabledStays
  <1>12. ASSUME NEW p \in Processes, CrashRegistry(p) PROVE RegistryInv'
    <2>1. snapshot' \in [config : Configs, routable : SUBSET Executors] /\ RoutableWasVerified'
      BY <1>a, <1>12, LoadedSnapshot DEF CrashRegistry, RowsWereProved
    <2>2. ASSUME NEW c \in Commands
          PROVE  /\ command'[c] \in {Waiting, command[c]}
                 /\ command[c].state = "written" => torn' \/ command'[c] = command[c]
      BY <1>12 DEF CrashRegistry
    <2>3. RegistryTyped'
      BY <1>a, <1>12, <2>1 DEF CrashRegistry, RegistryTyped, Waiting
    <2>4. Working' /\ WrittenIsVerified' /\ RowsWereProved'
      BY <1>a, <1>12, <2>2 DEF CrashRegistry, Working, WrittenIsVerified, RowsWereProved,
         Waiting
    <2>5. EnabledIsVerified' /\ RegistrationsStay' /\ DisabledStays'
      BY <1>a, <1>12, <2>2 DEF CrashRegistry, EnabledIsVerified, RegistrationsStay,
         DisabledStays
    <2> QED BY <2>1, <2>3, <2>4, <2>5 DEF RegistryInv
  <1>13. CASE UNCHANGED registry
    BY <1>a, <1>13 DEF registry, RegistryInv, RegistryTyped, Working, WrittenIsVerified,
       RowsWereProved, EnabledIsVerified, RoutableWasVerified, RegistrationsStay,
       DisabledStays
  <1>14. ASSUME NEW x \in Executors, NEW value \in {"absent", "off", "on"},
               Edit([file EXCEPT ![x] = value])
         PROVE  RegistryInv'
    <2>1. [file EXCEPT ![x] = value] \in ConfigFiles
      BY <1>a, <1>14 DEF RegistryTyped, Edit
    <2> QED BY <1>6, <1>14, <2>1
  <1> QED BY <1>1, <1>2, <1>3, <1>4, <1>5, <1>6, <1>7, <1>8, <1>9, <1>10, <1>11, <1>12,
     <1>13, <1>14 DEF NextRegistry

LEMMA RegistryInductive == RegistrySpec => []RegistryInv
  BY RegistryStart, RegistryStep, PTL DEF RegistrySpec

\* The file, the rows and what each command is doing keep their shapes, for all
\* sets of Executors and commands.
THEOREM RegistryTypeCorrect == RegistrySpec => []RegistryTyped
  <1>1. RegistryInv => RegistryTyped
    BY DEF RegistryInv
  <1> QED BY <1>1, RegistryInductive, PTL

\* However commands of a session and of command line processes overlap with
\* attempts, recovery checks, hand edits and crashes: what the session routes to
\* was verified under its configuration, an Executor that is on has a row, and no
\* registration or disabling is undone without a trace.
THEOREM RegistrationsAreSound == RegistrySpec => []RegistryIsSound
  <1>1. RegistryInv => RegistryIsSound
    BY DEF RegistryInv, RegistryIsSound
  <1> QED BY <1>1, RegistryInductive, PTL
-----------------------------------------------------------------------------
(***************************************************************************)
(* The proposals of the Planners.                                          *)
(***************************************************************************)

ProposalsTyped ==
  /\ mode \in [Turns -> {"rpc", "validation", "interactive"}]
  /\ effect \in [Plans -> {"task", "reply", "grant"}]
  /\ planner \in [Turns -> {"idle", "queued", "running", "resolved", "failed"}]
  /\ alive \subseteq Turns /\ prompts \in Seq(Turns)
  /\ told \in [Turns -> {"none", "waiting", "answered", "accepted"}]
  /\ requests \in Seq(Submissions)
  /\ serving \in {"none", "reserved", "proposed"}
  /\ accepted \in [Turns -> Plans \cup {NoPlan}]
  /\ submission \in [Submissions -> {"none", "submitting", "uncertain", "accepted", "rejected"}]
  /\ kernel \in [Submissions -> {"none", "event", "issued", "refusal", "refused", "applying",
                                 "applied", "failed"}]
  /\ applied \in [Submissions -> Nat]
  /\ answers \in [Submissions -> SUBSET Finals]
  /\ starting \in BOOLEAN /\ plannerCrashes \in Nat

\* A submission that is being served is the first in the bridge, its turn is not
\* locked by another one, and it was never served before.
BeingServed ==
  serving # "none" =>
     /\ requests # << >> /\ submission[Head(requests)] = "submitting"
     /\ ~Locked(Head(requests))
     /\ serving = "reserved" <=> kernel[Head(requests)] = "none"
     /\ effect[Head(requests)[2]] = "grant" => applied[Head(requests)] = 0

Unserved == \A s \in Submissions : submission[s] = "none" => kernel[s] = "none" /\ applied[s] = 0

\* What the Kernel has done with a submission says whether it has taken effect.
Effected ==
  \A s \in Submissions :
     /\ kernel[s] = "none" => applied[s] = 0
     /\ kernel[s] \in {"refusal", "refused"} => effect[s[2]] # "grant"
     /\ submission[s] = "rejected" => kernel[s] \in {"none", "refused"}
     /\ effect[s[2]] # "grant" =>
          /\ kernel[s] \in {"event", "refusal", "refused"} => applied[s] = 0
          /\ kernel[s] \in {"applying", "applied"} => applied[s] > 0
     /\ effect[s[2]] = "reply" /\ kernel[s] = "issued" => applied[s] <= plannerCrashes

\* Only the first of the prompts runs, a Planner lives with its run or after it
\* failed, and a turn is told that it was accepted once it is locked.
FirstRuns == \A t \in Rpc : planner[t] = "running" => prompts # << >> /\ Head(prompts) = t
AtLarge == \A t \in alive : planner[t] \in {"running", "failed"}
ToldIsLocked ==
  \A t \in Turns : told[t] = "accepted" \/ planner[t] = "resolved" => accepted[t] # NoPlan

ProposalsInv == /\ ProposalsTyped /\ BeingServed /\ Unserved /\ Effected /\ FirstRuns
                /\ ToldIsLocked /\ OneAccepted /\ AcceptedIsApplied /\ TakesEffectOnce
                /\ AnswersAgree /\ AtLarge
LEMMA Members ==
  /\ \A s \in Submissions : s[1] \in Turns /\ s[2] \in Plans /\ s = << s[1], s[2] >>
  /\ \A t \in Turns, p \in Plans : << t, p >> \in Submissions
  BY DEF Submissions

USE DEF Rpc, Finals

LEMMA ProposalsStart == InitProposals => ProposalsInv
  <1> SUFFICES ASSUME InitProposals PROVE ProposalsInv
    OBVIOUS
  <1> USE PlannersAssumption, Members DEF InitProposals
  <1>1. << >> \in Seq(Turns) /\ << >> \in Seq(Submissions)
    BY EmptySeq
  <1>2. mode \in [Turns -> {"rpc", "validation", "interactive"}]
    OBVIOUS
  <1>3. effect \in [Plans -> {"task", "reply", "grant"}]
    OBVIOUS
  <1>4. ProposalsTyped
    BY <1>1, <1>2, <1>3 DEF ProposalsTyped
  <1>5. /\ BeingServed /\ Unserved /\ Effected /\ FirstRuns /\ ToldIsLocked /\ OneAccepted
        /\ AcceptedIsApplied /\ TakesEffectOnce /\ AnswersAgree /\ AtLarge
    BY DEF BeingServed, Unserved, Effected, FirstRuns, ToldIsLocked, OneAccepted,
       AcceptedIsApplied, TakesEffectOnce, AnswersAgree, AtLarge
  <1> QED BY <1>4, <1>5 DEF ProposalsInv

LEMMA Queue ==
  ASSUME NEW S, NEW q \in Seq(S)
  PROVE  /\ q # << >> => Head(q) \in S /\ Tail(q) \in Seq(S)
         /\ \A x \in S : /\ Append(q, x) \in Seq(S) /\ Append(q, x) # << >>
                         /\ Head(Append(q, x)) = IF q = << >> THEN x ELSE Head(q)
  BY HeadTailProperties, AppendProperties, HeadTailAppend

\* A turn is told that its submission was accepted only by an answer that says so.
LEMMA FirstAnswered ==
  ASSUME ProposalsTyped, requests # << >>, NEW s \in Submissions, s = Head(requests),
         NEW status \in {"accepted", "rejected", "uncertain", "conflict"}, AnswerFirst(s, status)
  PROVE  /\ requests' \in Seq(Submissions) /\ serving' = "none"
         /\ told' \in [Turns -> {"none", "waiting", "answered", "accepted"}]
         /\ answers' \in [Submissions -> SUBSET Finals]
         /\ \A t \in Turns : told'[t] = "accepted" =>
              told[t] = "accepted" \/ (t = s[1] /\ status = "accepted")
         /\ \A x \in Submissions :
              answers'[x] \subseteq answers[x] \cup (IF x = s /\ status \in Finals THEN {status} ELSE {})
  BY Queue, Members DEF AnswerFirst, ProposalsTyped

\* A final answer locks the turn or leaves it, and the row agrees with it.
LEMMA CompletionKeeps ==
  ASSUME ProposalsInv, serving # "none", NEW s \in Submissions, s = Head(requests),
         NEW status \in Finals, CompleteSubmission(s, status),
         status = "accepted" => mode[s[1]] = "validation" \/ applied'[s] > 0,
         status = "rejected" => kernel[s] \in {"none", "refused"} /\ applied'[s] = 0,
         applied' \in [Submissions -> Nat],
         kernel[s] = "none" => applied'[s] = 0,
         \A x \in Submissions :
            /\ effect[x[2]] # "grant" => applied'[x] = applied[x]
            /\ x # s => applied'[x] = applied[x]
            /\ effect[s[2]] = "grant" => applied'[s] <= 1,
         UNCHANGED << mode, effect, planner, alive, prompts, kernel, starting, plannerCrashes >>
  PROVE  ProposalsInv'
  <1> USE PlannersAssumption, Members
  <1>a. /\ ProposalsTyped /\ BeingServed /\ Unserved /\ Effected /\ FirstRuns /\ ToldIsLocked
        /\ OneAccepted /\ AcceptedIsApplied /\ TakesEffectOnce /\ AnswersAgree /\ AtLarge
    BY DEF ProposalsInv
  <1>1. /\ submission' = [submission EXCEPT ![s] = status]
        /\ accepted' = IF status = "accepted" THEN [accepted EXCEPT ![s[1]] = s[2]] ELSE accepted
        /\ AnswerFirst(s, status)
    BY DEF CompleteSubmission
  <1>2. /\ requests # << >> /\ submission[s] = "submitting" /\ accepted[s[1]] \in {NoPlan, s[2]}
    BY <1>a DEF BeingServed, Locked
  <1>3. /\ requests' \in Seq(Submissions) /\ serving' = "none"
        /\ told' \in [Turns -> {"none", "waiting", "answered", "accepted"}]
        /\ answers' \in [Submissions -> SUBSET Finals]
        /\ \A t \in Turns : told'[t] = "accepted" =>
             told[t] = "accepted" \/ (t = s[1] /\ status = "accepted")
        /\ \A x \in Submissions :
             answers'[x] \subseteq answers[x] \cup (IF x = s THEN {status} ELSE {})
    <2>1. status \in {"accepted", "rejected", "uncertain", "conflict"}
      OBVIOUS
    <2>2. /\ requests' \in Seq(Submissions) /\ serving' = "none"
          /\ told' \in [Turns -> {"none", "waiting", "answered", "accepted"}]
          /\ answers' \in [Submissions -> SUBSET Finals]
          /\ \A t \in Turns : told'[t] = "accepted" =>
               told[t] = "accepted" \/ (t = s[1] /\ status = "accepted")
          /\ \A x \in Submissions : answers'[x] \subseteq
               answers[x] \cup (IF x = s /\ status \in Finals THEN {status} ELSE {})
      BY <1>a, <1>1, <1>2, <2>1, FirstAnswered
    <2> QED BY <2>2
  <1>4. s[1] \in Turns /\ s[2] \in Plans /\ s[2] # NoPlan
    OBVIOUS
  <1>5. ProposalsTyped' /\ BeingServed' /\ FirstRuns' /\ AtLarge'
    BY <1>a, <1>1, <1>3, <1>4 DEF ProposalsTyped, BeingServed, FirstRuns, AtLarge
  <1>6. ToldIsLocked'
    BY <1>a, <1>1, <1>3, <1>4 DEF ProposalsTyped, ToldIsLocked
  <1>7. OneAccepted'
    BY <1>a, <1>1, <1>2, <1>4 DEF ProposalsTyped, OneAccepted
  <1>b. \A x \in Submissions : submission'[x] = IF x = s THEN status ELSE submission[x]
    BY <1>a, <1>1 DEF ProposalsTyped
  <1>c. /\ effect \in [Plans -> {"task", "reply", "grant"}] /\ applied \in [Submissions -> Nat]
        /\ plannerCrashes \in Nat
    BY <1>a DEF ProposalsTyped
  <1>d. ASSUME NEW x \in Submissions
        PROVE  x[2] \in Plans /\ applied[x] \in Nat /\ applied'[x] \in Nat
    BY <1>c
  <1>8. Unserved'
    BY <1>a, <1>b DEF Unserved
  <1>11. Effected'
    <2> SUFFICES ASSUME NEW x \in Submissions
                 PROVE  /\ kernel[x] = "none" => applied'[x] = 0
                        /\ kernel[x] \in {"refusal", "refused"} => effect[x[2]] # "grant"
                        /\ submission'[x] = "rejected" => kernel[x] \in {"none", "refused"}
                        /\ effect[x[2]] # "grant" =>
                             /\ kernel[x] \in {"event", "refusal", "refused"} => applied'[x] = 0
                             /\ kernel[x] \in {"applying", "applied"} => applied'[x] > 0
                        /\ effect[x[2]] = "reply" /\ kernel[x] = "issued" =>
                             applied'[x] <= plannerCrashes
      BY DEF Effected
    <2>1. kernel[x] = "none" => applied'[x] = 0
      BY <1>a DEF Effected
    <2> QED BY <1>a, <1>b, <2>1 DEF Effected
  <1>9. AcceptedIsApplied' /\ TakesEffectOnce'
    <2>1. AcceptedIsApplied'
      BY <1>a, <1>b DEF AcceptedIsApplied
    <2>2. TakesEffectOnce'
      BY <1>a, <1>c, <1>d DEF TakesEffectOnce
    <2> QED BY <2>1, <2>2
  <1>10. AnswersAgree'
    <2> SUFFICES ASSUME NEW x \in Submissions, ~(mode[x[1]] = "interactive" /\ effect[x[2]] = "grant")
                 PROVE  answers'[x] \subseteq {submission'[x]}
      BY DEF AnswersAgree
    <2>1. answers[x] \subseteq {submission[x]} /\ answers[x] \subseteq Finals
      BY <1>a DEF ProposalsTyped, AnswersAgree
    <2>2. CASE x = s
      <3>1. answers[x] = {}
        BY <1>2, <2>1, <2>2
      <3> QED BY <1>3, <1>b, <2>2, <3>1
    <2>3. CASE x # s
      BY <1>3, <1>b, <2>1, <2>3
    <2> QED BY <2>2, <2>3
  <1> QED BY <1>5, <1>6, <1>7, <1>8, <1>9, <1>10, <1>11 DEF ProposalsInv

LEMMA ProposalsStep ==
  ASSUME ProposalsInv, [NextProposals]_proposals
  PROVE  ProposalsInv'
  <1> USE PlannersAssumption, Members
  <1>a. /\ ProposalsTyped /\ BeingServed /\ Unserved /\ Effected /\ FirstRuns /\ ToldIsLocked
        /\ OneAccepted /\ AcceptedIsApplied /\ TakesEffectOnce /\ AnswersAgree /\ AtLarge
    BY DEF ProposalsInv
  <1>1. ASSUME NEW t \in Turns, Prompt(t) PROVE ProposalsInv'
    <2>1. /\ prompts' \in Seq(Turns) /\ alive' \in {alive, alive \cup {t}}
          /\ t \in Rpc => prompts' # << >>
          /\ prompts = << >> /\ t \in Rpc => Head(prompts') = t
          /\ prompts # << >> => prompts' # << >> /\ Head(prompts') = Head(prompts)
          /\ planner' \in [Turns -> {"idle", "queued", "running", "resolved", "failed"}]
          /\ \A u \in Turns \ {t} : planner'[u] = planner[u]
          /\ \/ planner'[t] = "queued" /\ planner[t] = "idle" /\ alive' = alive
             \/ planner'[t] = "running" /\ (t \in Rpc => prompts = << >>)
      <3>1. prompts \in Seq(Turns) /\ planner[t] = "idle"
        BY <1>a, <1>1 DEF Prompt, ProposalsTyped
      <3>2. CASE t \in Rpc
        <4>1. /\ prompts' = Append(prompts, t)
              /\ planner' = [planner EXCEPT ![t] = IF prompts = << >> THEN "running" ELSE "queued"]
              /\ alive' = IF prompts = << >> THEN alive \cup {t} ELSE alive
          BY <1>1, <3>2 DEF Prompt, StartsNow
        <4>2. /\ Append(prompts, t) \in Seq(Turns) /\ Append(prompts, t) # << >>
              /\ Head(Append(prompts, t)) = IF prompts = << >> THEN t ELSE Head(prompts)
          BY <3>1, Queue
        <4> QED BY <1>a, <3>1, <4>1, <4>2 DEF ProposalsTyped
      <3>3. CASE t \notin Rpc
        <4>1. /\ prompts' = prompts /\ planner' = [planner EXCEPT ![t] = "running"]
              /\ alive' = alive \cup {t}
          BY <1>1, <3>3 DEF Prompt
        <4> QED BY <1>a, <3>3, <4>1 DEF ProposalsTyped
      <3> QED BY <3>2, <3>3
    <2>2. UNCHANGED << mode, effect, told, requests, serving, accepted, submission, kernel, applied,
                       answers, starting, plannerCrashes >>
      BY <1>1 DEF Prompt
    <2>3. ProposalsTyped'
      BY <1>a, <2>1, <2>2 DEF ProposalsTyped
    <2>4. FirstRuns' /\ ToldIsLocked'
      BY <1>a, <2>1, <2>2 DEF FirstRuns, ToldIsLocked
    <2>5. AtLarge'
      <3> SUFFICES ASSUME NEW u \in alive' PROVE planner'[u] \in {"running", "failed"}
        BY DEF AtLarge
      <3>1. CASE u = t
        <4>1. planner'[t] = "running" \/ (planner[t] = "idle" /\ alive' = alive)
          BY <2>1
        <4> QED BY <1>a, <3>1, <4>1 DEF AtLarge
      <3>2. CASE u # t
        <4>1. u \in alive /\ u \in Turns
          BY <1>a, <2>1, <3>2 DEF ProposalsTyped
        <4> QED BY <1>a, <2>1, <3>2, <4>1 DEF AtLarge
      <3> QED BY <3>1, <3>2
    <2> QED BY <1>a, <2>2, <2>3, <2>4, <2>5 DEF ProposalsInv, BeingServed, Unserved, Effected,
       Locked, OneAccepted, AcceptedIsApplied, TakesEffectOnce, AnswersAgree
  <1>2. ASSUME NEW t \in Turns, NEW outcome \in {"resolved", "failed"},
               NEW S \in SUBSET alive, Settles(t, outcome, S),
               outcome = "resolved" => told[t] = "accepted" /\ t \notin S
        PROVE  ProposalsInv'
    <2>1. prompts # << >> /\ Head(prompts) = t
      BY <1>a, <1>2 DEF Settles, FirstRuns
    <2>2. prompts' \in Seq(Turns)
      BY <1>a, <1>2, <2>1, Queue DEF Settles, ProposalsTyped
    <2>3. /\ planner' \in [Turns -> {"idle", "queued", "running", "resolved", "failed"}]
          /\ planner'[t] = outcome
          /\ \A u \in Turns \ {t} :
               planner'[u] = planner[u]
                 \/ (planner'[u] = "running" /\ prompts' # << >> /\ Head(prompts') = u)
      BY <1>a, <1>2 DEF Settles, ProposalsTyped
    <2>9. PICK next \in SUBSET (Turns \ {t}) :
             alive' = S \cup next /\ \A u \in next : planner'[u] = "running"
      <3> DEFINE N == {u \in Turns \ {t} : prompts' # << >> /\ u = Head(prompts')}
      <3>1. /\ alive' = S \cup N
            /\ planner' = [u \in Turns |-> CASE u = t -> outcome
                                            [] u \in N -> "running"
                                            [] OTHER -> planner[u]]
        BY <1>2 DEF Settles
      <3>2. N \in SUBSET (Turns \ {t})
        OBVIOUS
      <3> HIDE DEF N
      <3>3. ASSUME NEW u \in N PROVE planner'[u] = "running"
        BY <3>1, <3>2
      <3> QED BY <3>1, <3>2, <3>3
    <2>4. /\ told' = [told EXCEPT ![t] = IF t \in S THEN told[t] ELSE "none"]
          /\ UNCHANGED << mode, effect, requests, serving, accepted, submission, kernel, applied,
                          answers, starting, plannerCrashes >>
      BY <1>2 DEF Settles
    <2>a. alive' \subseteq Turns
      BY <1>a, <2>9 DEF ProposalsTyped
    <2>b. told' \in [Turns -> {"none", "waiting", "answered", "accepted"}]
      BY <1>a, <2>4 DEF ProposalsTyped
    <2>5. ProposalsTyped'
      BY <1>a, <2>2, <2>3, <2>4, <2>a, <2>b DEF ProposalsTyped
    <2>7. FirstRuns'
      <3> SUFFICES ASSUME NEW u \in Rpc, planner'[u] = "running"
                   PROVE  prompts' # << >> /\ Head(prompts') = u
        BY <2>4 DEF FirstRuns, Rpc
      <3>1. u # t
        BY <2>3
      <3>2. planner[u] # "running"
        BY <1>a, <2>1, <3>1 DEF FirstRuns
      <3> QED BY <2>3, <3>1, <3>2
    <2>8. ToldIsLocked'
      <3> SUFFICES ASSUME NEW u \in Turns, told'[u] = "accepted" \/ planner'[u] = "resolved"
                   PROVE  accepted[u] # NoPlan
        BY <2>4 DEF ToldIsLocked
      <3>1. CASE u = t
        <4>1. told[t] = "accepted"
          BY <1>a, <1>2, <2>3, <2>4, <3>1 DEF ProposalsTyped
        <4> QED BY <1>a, <3>1, <4>1 DEF ToldIsLocked
      <3>2. CASE u # t
        <4>1. told'[u] = told[u] /\ (planner'[u] = "resolved" => planner[u] = "resolved")
          BY <1>a, <2>3, <2>4, <3>2 DEF ProposalsTyped
        <4> QED BY <1>a, <4>1 DEF ToldIsLocked
      <3> QED BY <3>1, <3>2
    <2>c. AtLarge'
      <3> SUFFICES ASSUME NEW u \in alive' PROVE planner'[u] \in {"running", "failed"}
        BY DEF AtLarge
      <3>1. CASE u = t
        BY <1>2, <2>3, <2>9, <3>1
      <3>2. CASE u # t
        <4>1. u \in S => planner[u] \in {"running", "failed"} /\ u \in Turns
          BY <1>a DEF AtLarge, ProposalsTyped
        <4> QED BY <2>3, <2>9, <3>2, <4>1
      <3> QED BY <3>1, <3>2
    <2>6. FirstRuns' /\ ToldIsLocked' /\ AtLarge'
      BY <2>7, <2>8, <2>c
    <2> QED BY <1>a, <2>4, <2>5, <2>6 DEF ProposalsInv, BeingServed, Unserved, Effected,
       Locked, OneAccepted, AcceptedIsApplied, TakesEffectOnce, AnswersAgree
  <1>3. ASSUME NEW t \in Turns, NEW p \in Plans, Submit(t, p) PROVE ProposalsInv'
    <2>1. ProposalsTyped'
      BY <1>a, <1>3, Queue DEF Submit, NotReserved, ProposalsTyped
    <2>2. BeingServed' /\ Unserved'
      BY <1>a, <1>3, Queue DEF Submit, NotReserved, ProposalsTyped, BeingServed, Unserved,
         Locked
    <2>3. Effected'
      BY <1>a, <1>3, Queue DEF Submit, NotReserved, ProposalsTyped, BeingServed, Unserved,
         Effected
    <2>4. FirstRuns' /\ ToldIsLocked' /\ AtLarge'
      BY <1>a, <1>3, Queue DEF Submit, NotReserved, ProposalsTyped, FirstRuns, ToldIsLocked, AtLarge
    <2>5. OneAccepted' /\ AcceptedIsApplied' /\ TakesEffectOnce' /\ AnswersAgree'
      BY <1>a, <1>3, Queue DEF Submit, NotReserved, ProposalsTyped, BeingServed, Unserved,
         Effected, OneAccepted, AcceptedIsApplied, TakesEffectOnce, AnswersAgree
    <2> QED BY <2>1, <2>2, <2>3, <2>4, <2>5 DEF ProposalsInv
  <1>4. CASE Reply
    <2>1. PICK s \in Submissions : s = Head(requests)
      BY <1>a, <1>4, Queue DEF Reply, ProposalsTyped
    <2>2. PICK status \in {"accepted", "rejected", "uncertain", "conflict"} : status = Replied(s)
      BY DEF Replied
    <2>3. /\ status = "accepted" => submission[s] = "accepted"
          /\ status \in Finals => submission[s] = status
               \/ (mode[s[1]] = "interactive" /\ effect[s[2]] = "grant")
      BY <2>2 DEF Replied
    <2>4. AnswerFirst(s, status) /\ requests # << >>
      BY <1>4, <2>1, <2>2 DEF Reply
    <2>5. UNCHANGED << mode, effect, planner, alive, prompts, accepted, submission, kernel, applied, starting,
                       plannerCrashes >>
      BY <1>4 DEF Reply
    <2>6. /\ requests' \in Seq(Submissions) /\ serving' = "none"
          /\ told' \in [Turns -> {"none", "waiting", "answered", "accepted"}]
          /\ answers' \in [Submissions -> SUBSET Finals]
          /\ \A t \in Turns : told'[t] = "accepted" =>
               told[t] = "accepted" \/ (t = s[1] /\ status = "accepted")
          /\ \A x \in Submissions :
               answers'[x] \subseteq answers[x] \cup (IF x = s /\ status \in Finals THEN {status} ELSE {})
      BY <1>a, <2>1, <2>4, FirstAnswered
    <2>7. ProposalsTyped'
      BY <1>a, <2>5, <2>6 DEF ProposalsTyped
    <2>8. ToldIsLocked'
      BY <1>a, <2>3, <2>5, <2>6 DEF ProposalsTyped, ToldIsLocked, OneAccepted
    <2>9. AnswersAgree'
      BY <1>a, <2>3, <2>5, <2>6 DEF AnswersAgree
    <2> QED BY <1>a, <2>5, <2>6, <2>7, <2>8, <2>9 DEF ProposalsInv, BeingServed, Unserved,
       Effected, FirstRuns, OneAccepted, AcceptedIsApplied, TakesEffectOnce, AtLarge
  <1>5. CASE Reserve
    <2>1. PICK s \in Submissions : s = Head(requests)
      BY <1>a, <1>5, Queue DEF Reserve, ProposalsTyped
    <2>2. /\ requests # << >> /\ ~Locked(s) /\ submission[s] = "none" /\ serving' = "reserved"
          /\ submission' = [submission EXCEPT ![s] = "submitting"]
          /\ UNCHANGED << mode, effect, planner, alive, prompts, told, requests, accepted, kernel, applied,
                          answers, starting, plannerCrashes >>
      BY <1>5, <2>1 DEF Reserve, Known
    <2>3. ProposalsTyped' /\ BeingServed' /\ Unserved' /\ Effected'
      BY <1>a, <2>1, <2>2 DEF ProposalsTyped, BeingServed, Unserved, Effected, Locked
    <2>4. /\ FirstRuns' /\ ToldIsLocked' /\ OneAccepted' /\ AcceptedIsApplied' /\ TakesEffectOnce'
          /\ AtLarge'
      BY <1>a, <2>2 DEF ProposalsTyped, FirstRuns, ToldIsLocked, OneAccepted,
         AcceptedIsApplied, TakesEffectOnce, AtLarge
    <2>5. AnswersAgree'
      <3> SUFFICES ASSUME NEW x \in Submissions, ~(mode[x[1]] = "interactive" /\ effect[x[2]] = "grant")
                   PROVE  answers[x] \subseteq {submission'[x]}
        BY <2>2 DEF AnswersAgree
      <3>1. answers[x] \subseteq {submission[x]} /\ answers[x] \subseteq Finals
        BY <1>a DEF ProposalsTyped, AnswersAgree
      <3>2. CASE x = s
        <4>1. answers[x] = {}
          BY <2>2, <3>1, <3>2
        <4> QED BY <4>1
      <3>3. CASE x # s
        <4>1. submission'[x] = submission[x]
          BY <1>a, <2>2, <3>3 DEF ProposalsTyped
        <4> QED BY <3>1, <4>1
      <3> QED BY <3>2, <3>3
    <2> QED BY <2>3, <2>4, <2>5 DEF ProposalsInv
  <1>7. CASE Propose
    <2>1. ProposalsTyped'
      BY <1>a, <1>7, Queue DEF Propose, RecordedEvent, ProposalsTyped
    <2>2. BeingServed' /\ Unserved'
      BY <1>a, <1>7, Queue DEF Propose, RecordedEvent, ProposalsTyped, BeingServed,
         Unserved, Locked
    <2>3. Effected'
      BY <1>a, <1>7, Queue DEF Propose, RecordedEvent, ProposalsTyped, BeingServed,
         Unserved, Effected
    <2>4. FirstRuns' /\ ToldIsLocked' /\ AtLarge'
      BY <1>a, <1>7, Queue DEF Propose, RecordedEvent, ProposalsTyped, FirstRuns, ToldIsLocked, AtLarge
    <2>5. OneAccepted' /\ AcceptedIsApplied' /\ TakesEffectOnce' /\ AnswersAgree'
      BY <1>a, <1>7, Queue DEF Propose, RecordedEvent, ProposalsTyped, BeingServed,
         Unserved, Effected, OneAccepted, AcceptedIsApplied, TakesEffectOnce, AnswersAgree
    <2> QED BY <2>1, <2>2, <2>3, <2>4, <2>5 DEF ProposalsInv
  <1>6. ASSUME NEW valid \in BOOLEAN, Validate(valid) PROVE ProposalsInv'
    <2>1. PICK s \in Submissions, status \in Finals :
            s = Head(requests) /\ status = IF valid THEN "accepted" ELSE "rejected"
      BY <1>a, <1>6, Queue DEF Validate, ProposalsTyped, BeingServed
    <2>2. /\ CompleteSubmission(s, status) /\ serving = "reserved"
          /\ UNCHANGED << mode, effect, planner, alive, prompts, kernel, applied, starting, plannerCrashes >>
      BY <1>6, <2>1 DEF Validate
    <2>3. /\ status = "accepted" => mode[s[1]] = "validation"
          /\ status = "rejected" => kernel[s] = "none"
      BY <1>a, <1>6, <2>1, <2>2 DEF Validate, BeingServed
    <2>4. applied \in [Submissions -> Nat] /\ kernel[s] = "none" /\ applied[s] = 0
      BY <1>a, <2>1, <2>2 DEF BeingServed, ProposalsTyped, Effected
    <2>5. ASSUME NEW x \in Submissions
          PROVE  /\ effect[x[2]] # "grant" => applied'[x] = applied[x]
                 /\ x # s => applied'[x] = applied[x]
                 /\ effect[s[2]] = "grant" => applied'[s] <= 1
      BY <2>2, <2>4
    <2>6. applied' \in [Submissions -> Nat] /\ applied'[s] = 0
      BY <2>2, <2>4
    <2>7. serving # "none" /\ status \in Finals
      BY <2>1, <2>2
    <2> QED BY <2>1, <2>2, <2>3, <2>4, <2>5, <2>6, <2>7, CompletionKeeps
  <1>8. ASSUME NEW throws \in BOOLEAN, Conclude(throws) PROVE ProposalsInv'
    <2>1. PICK s \in Submissions : s = Head(requests)
      BY <1>a, <1>8, Queue DEF Conclude, ProposalsTyped, BeingServed
    <2>2. /\ serving = "proposed"
          /\ applied' = IF effect[s[2]] = "grant" /\ ~throws
                        THEN [applied EXCEPT ![s] = @ + 1] ELSE applied
          /\ UNCHANGED << mode, effect, planner, alive, prompts, kernel, starting, plannerCrashes >>
      BY <1>8, <2>1 DEF Conclude
    <2>3. /\ requests # << >> /\ submission[s] = "submitting" /\ kernel[s] # "none"
          /\ effect[s[2]] = "grant" => applied[s] = 0
      BY <1>a, <2>1, <2>2 DEF BeingServed
    <2>a. applied \in [Submissions -> Nat] /\ applied' \in [Submissions -> Nat]
      BY <1>a, <2>2 DEF ProposalsTyped
    <2>b. ASSUME NEW x \in Submissions
          PROVE  /\ effect[x[2]] # "grant" => applied'[x] = applied[x]
                 /\ x # s => applied'[x] = applied[x]
                 /\ effect[s[2]] = "grant" => applied'[s] <= 1
      BY <2>2, <2>3, <2>a
    <2>4. CASE ~throws /\ Conclusion(s) \in Finals
      <3>1. PICK status \in Finals : status = Conclusion(s)
        BY <2>4
      <3>2. CompleteSubmission(s, status)
        BY <1>8, <2>1, <2>4, <3>1 DEF Conclude
      <3>3. status = "accepted" => kernel[s] = "applied"
        BY <3>1 DEF Conclusion, TookEffect
      <3>4. status = "rejected" => kernel[s] = "refused"
        BY <3>1 DEF Conclusion
      <3>5. status = "accepted" => applied'[s] > 0
        BY <1>a, <2>2, <2>3, <2>4, <2>a, <3>3 DEF Effected
      <3>6. status = "rejected" => applied'[s] = 0
        BY <1>a, <2>b, <3>4 DEF Effected
      <3>7. serving # "none" /\ status \in Finals
        BY <2>2, <3>1
      <3> QED BY <2>1, <2>2, <2>3, <2>a, <2>b, <3>2, <3>4, <3>5, <3>6, <3>7, CompletionKeeps
    <2>5. CASE throws \/ Conclusion(s) \notin Finals
      <3>1. /\ submission' = [submission EXCEPT ![s] = "uncertain"] /\ accepted' = accepted
            /\ AnswerFirst(s, "uncertain")
        BY <1>8, <2>1, <2>5 DEF Conclude
      <3>2. /\ requests' \in Seq(Submissions) /\ serving' = "none"
            /\ told' \in [Turns -> {"none", "waiting", "answered", "accepted"}]
            /\ answers' \in [Submissions -> SUBSET Finals]
            /\ \A t \in Turns : told'[t] = "accepted" => told[t] = "accepted"
            /\ \A x \in Submissions : answers'[x] \subseteq answers[x]
        BY <1>a, <2>1, <2>3, <3>1, FirstAnswered
      <3>3. \A x \in Submissions : submission'[x] = IF x = s THEN "uncertain" ELSE submission[x]
        BY <1>a, <3>1 DEF ProposalsTyped
      <3>4. ProposalsTyped' /\ BeingServed'
        BY <1>a, <2>2, <2>a, <3>1, <3>2 DEF ProposalsTyped, BeingServed
      <3>5. Unserved' /\ FirstRuns' /\ ToldIsLocked' /\ OneAccepted' /\ AtLarge'
        BY <1>a, <2>2, <2>b, <3>1, <3>2, <3>3 DEF Unserved, FirstRuns, ToldIsLocked,
           OneAccepted, AtLarge
      <3>6. Effected' /\ AcceptedIsApplied'
        BY <1>a, <2>2, <2>3, <2>b, <3>3 DEF Effected, AcceptedIsApplied
      <3>7. TakesEffectOnce'
        BY <1>a, <2>2, <2>b DEF TakesEffectOnce
      <3>8. AnswersAgree'
        <4> SUFFICES ASSUME NEW x \in Submissions, ~(mode[x[1]] = "interactive" /\ effect[x[2]] = "grant")
                     PROVE  answers'[x] \subseteq {submission'[x]}
          BY <2>2 DEF AnswersAgree
        <4>1. answers[x] \subseteq {submission[x]} /\ answers[x] \subseteq Finals
          BY <1>a DEF ProposalsTyped, AnswersAgree
        <4>2. CASE x = s
          <5>1. answers[x] = {}
            BY <2>3, <4>1, <4>2
          <5> QED BY <3>2, <5>1
        <4>3. CASE x # s
          BY <3>2, <3>3, <4>1, <4>3
        <4> QED BY <4>2, <4>3
      <3> QED BY <3>4, <3>5, <3>6, <3>7, <3>8 DEF ProposalsInv
    <2> QED BY <2>4, <2>5
  <1>9. ASSUME NEW s \in Submissions, NEW refused \in BOOLEAN, Decide(s, refused)
        PROVE  ProposalsInv'
    <2>1. ProposalsTyped'
      BY <1>a, <1>9 DEF Decide, WorkflowRuns, ProposalsTyped
    <2>2. BeingServed' /\ Unserved'
      BY <1>a, <1>9 DEF Decide, WorkflowRuns, ProposalsTyped, BeingServed, Unserved, Locked
    <2>3. Effected'
      BY <1>a, <1>9 DEF Decide, WorkflowRuns, ProposalsTyped, BeingServed, Unserved, Effected
    <2>4. FirstRuns' /\ ToldIsLocked' /\ AtLarge'
      BY <1>a, <1>9 DEF Decide, WorkflowRuns, ProposalsTyped, FirstRuns, ToldIsLocked, AtLarge
    <2>5. OneAccepted' /\ AcceptedIsApplied' /\ TakesEffectOnce' /\ AnswersAgree'
      BY <1>a, <1>9 DEF Decide, WorkflowRuns, ProposalsTyped, BeingServed, Unserved,
         Effected, OneAccepted, AcceptedIsApplied, TakesEffectOnce, AnswersAgree
    <2> QED BY <2>1, <2>2, <2>3, <2>4, <2>5 DEF ProposalsInv
  <1>10. ASSUME NEW s \in Submissions, Apply(s) PROVE ProposalsInv'
    <2>1. UNCHANGED << mode, effect, planner, alive, prompts, told, requests, serving, accepted, submission,
                       answers, starting, plannerCrashes >>
      BY <1>10 DEF Apply
    <2>2. /\ kernel \in [Submissions -> {"none", "event", "issued", "refusal", "refused", "applying",
                                         "applied", "failed"}]
          /\ applied \in [Submissions -> Nat] /\ plannerCrashes \in Nat
          /\ effect \in [Plans -> {"task", "reply", "grant"}]
      BY <1>a DEF ProposalsTyped
    <2>3. PICK now \in {"refused", "failed", "applying"}, times \in Nat :
            /\ kernel' = [kernel EXCEPT ![s] = now] /\ applied' = [applied EXCEPT ![s] = times]
            /\ \/ kernel[s] = "refusal" /\ now = "refused" /\ times = applied[s]
               \/ /\ kernel[s] = "issued" /\ now = "failed" /\ times = applied[s]
               \/ /\ kernel[s] = "issued" /\ now = "applying"
                  /\ times = IF effect[s[2]] = "grant" THEN applied[s] ELSE applied[s] + 1
                  /\ effect[s[2]] = "task" => applied[s] = 0
      <3>1. CASE kernel[s] = "refusal"
        BY <1>10, <2>2, <3>1 DEF Apply
      <3>2. CASE kernel[s] = "issued" /\ effect[s[2]] = "task" /\ applied[s] > 0
        BY <1>10, <2>2, <3>2 DEF Apply
      <3>3. CASE kernel[s] = "issued" /\ ~(effect[s[2]] = "task" /\ applied[s] > 0)
        <4>1. /\ kernel' = [kernel EXCEPT ![s] = "applying"]
              /\ applied' = [applied EXCEPT ![s] =
                   IF effect[s[2]] = "grant" THEN applied[s] ELSE applied[s] + 1]
          BY <1>10, <2>2, <3>3 DEF Apply
        <4>2. PICK times \in Nat :
                times = IF effect[s[2]] = "grant" THEN applied[s] ELSE applied[s] + 1
          BY <2>2
        <4>3. effect[s[2]] = "task" => applied[s] = 0
          BY <2>2, <3>3
        <4> QED BY <3>3, <4>1, <4>2, <4>3
      <3> QED BY <1>10, <3>1, <3>2, <3>3 DEF Apply
    <2>4. /\ kernel[s] # "none" /\ kernel'[s] = now /\ applied'[s] = times
          /\ \A x \in Submissions \ {s} : kernel'[x] = kernel[x] /\ applied'[x] = applied[x]
      BY <2>2, <2>3
    <2>5. submission[s] \notin {"none", "rejected"} /\ mode[s[1]] # "validation"
      BY <1>a, <2>3, <2>4 DEF Unserved, AcceptedIsApplied, Effected
    <2>6. ProposalsTyped'
      BY <1>a, <2>1, <2>2, <2>3 DEF ProposalsTyped
    <2>7. s[2] \in Plans /\ applied[s] \in Nat
      BY <2>2
    <2>8. BeingServed'
      BY <1>a, <2>1, <2>3, <2>4 DEF BeingServed, Locked
    <2>9. /\ Unserved' /\ FirstRuns' /\ ToldIsLocked' /\ OneAccepted' /\ AnswersAgree'
          /\ AtLarge'
      BY <1>a, <2>1, <2>4, <2>5 DEF Unserved, FirstRuns, ToldIsLocked, OneAccepted,
         AnswersAgree, AtLarge
    <2>10. Effected'
      <3> SUFFICES ASSUME NEW x \in Submissions
                   PROVE  /\ kernel'[x] = "none" => applied'[x] = 0
                          /\ kernel'[x] \in {"refusal", "refused"} => effect[x[2]] # "grant"
                          /\ submission[x] = "rejected" => kernel'[x] \in {"none", "refused"}
                          /\ effect[x[2]] # "grant" =>
                               /\ kernel'[x] \in {"event", "refusal", "refused"} => applied'[x] = 0
                               /\ kernel'[x] \in {"applying", "applied"} => applied'[x] > 0
                          /\ effect[x[2]] = "reply" /\ kernel'[x] = "issued" =>
                               applied'[x] <= plannerCrashes
        BY <2>1 DEF Effected
      <3>1. CASE x # s
        BY <1>a, <2>4, <3>1 DEF Effected
      <3>2. CASE x = s
        BY <1>a, <2>3, <2>4, <2>5, <2>7, <3>2 DEF Effected
      <3> QED BY <3>1, <3>2
    <2>11. AcceptedIsApplied'
      BY <1>a, <2>1, <2>3, <2>4, <2>5, <2>7 DEF AcceptedIsApplied
    <2>12. TakesEffectOnce'
      <3>1. times <= IF effect[s[2]] = "reply" THEN 1 + plannerCrashes ELSE 1
        BY <1>a, <2>2, <2>3, <2>7 DEF TakesEffectOnce, Effected
      <3> QED BY <1>a, <2>1, <2>4, <3>1 DEF TakesEffectOnce
    <2> QED BY <2>6, <2>8, <2>9, <2>10, <2>11, <2>12 DEF ProposalsInv
  <1>11. ASSUME NEW s \in Submissions, ApplyFails(s) PROVE ProposalsInv'
    <2>1. ProposalsTyped'
      BY <1>a, <1>11 DEF ApplyFails, WorkflowRuns, ProposalsTyped
    <2>2. BeingServed' /\ Unserved'
      BY <1>a, <1>11 DEF ApplyFails, WorkflowRuns, ProposalsTyped, BeingServed, Unserved,
         Locked
    <2>3. Effected'
      BY <1>a, <1>11 DEF ApplyFails, WorkflowRuns, ProposalsTyped, BeingServed, Unserved,
         Effected
    <2>4. FirstRuns' /\ ToldIsLocked' /\ AtLarge'
      BY <1>a, <1>11 DEF ApplyFails, WorkflowRuns, ProposalsTyped, FirstRuns, ToldIsLocked, AtLarge
    <2>5. OneAccepted' /\ AcceptedIsApplied' /\ TakesEffectOnce' /\ AnswersAgree'
      BY <1>a, <1>11 DEF ApplyFails, WorkflowRuns, ProposalsTyped, BeingServed, Unserved,
         Effected, OneAccepted, AcceptedIsApplied, TakesEffectOnce, AnswersAgree
    <2> QED BY <2>1, <2>2, <2>3, <2>4, <2>5 DEF ProposalsInv
  <1>12. ASSUME NEW s \in Submissions, Applied(s) PROVE ProposalsInv'
    <2>1. ProposalsTyped'
      BY <1>a, <1>12 DEF Applied, WorkflowRuns, ProposalsTyped
    <2>2. BeingServed' /\ Unserved'
      BY <1>a, <1>12 DEF Applied, WorkflowRuns, ProposalsTyped, BeingServed, Unserved, Locked
    <2>3. Effected'
      BY <1>a, <1>12 DEF Applied, WorkflowRuns, ProposalsTyped, BeingServed, Unserved,
         Effected
    <2>4. FirstRuns' /\ ToldIsLocked' /\ AtLarge'
      BY <1>a, <1>12 DEF Applied, WorkflowRuns, ProposalsTyped, FirstRuns, ToldIsLocked, AtLarge
    <2>5. OneAccepted' /\ AcceptedIsApplied' /\ TakesEffectOnce' /\ AnswersAgree'
      BY <1>a, <1>12 DEF Applied, WorkflowRuns, ProposalsTyped, BeingServed, Unserved,
         Effected, OneAccepted, AcceptedIsApplied, TakesEffectOnce, AnswersAgree
    <2> QED BY <2>1, <2>2, <2>3, <2>4, <2>5 DEF ProposalsInv
  <1>13. CASE CrashPlanners
    <2>1. ProposalsTyped'
      BY <1>a, <1>13, EmptySeq DEF CrashPlanners, ProposalsTyped
    <2>2. BeingServed' /\ Unserved'
      BY <1>a, <1>13, EmptySeq DEF CrashPlanners, ProposalsTyped, BeingServed, Unserved,
         Locked
    <2>3. Effected'
      BY <1>a, <1>13 DEF CrashPlanners, ProposalsTyped, Effected, TakesEffectOnce
    <2>4. FirstRuns' /\ ToldIsLocked' /\ AtLarge'
      BY <1>a, <1>13, EmptySeq DEF CrashPlanners, ProposalsTyped, FirstRuns, ToldIsLocked, AtLarge
    <2>5. OneAccepted' /\ AcceptedIsApplied' /\ TakesEffectOnce' /\ AnswersAgree'
      BY <1>a, <1>13, EmptySeq DEF CrashPlanners, ProposalsTyped, BeingServed, Unserved,
         Effected, OneAccepted, AcceptedIsApplied, TakesEffectOnce, AnswersAgree
    <2> QED BY <2>1, <2>2, <2>3, <2>4, <2>5 DEF ProposalsInv
  <1>14. CASE Started
    <2>1. ProposalsTyped'
      BY <1>a, <1>14 DEF Started, ProposalsTyped
    <2>2. BeingServed' /\ Unserved'
      BY <1>a, <1>14 DEF Started, ProposalsTyped, BeingServed, Unserved, Locked
    <2>3. Effected'
      BY <1>a, <1>14 DEF Started, ProposalsTyped, BeingServed, Unserved, Effected
    <2>4. FirstRuns' /\ ToldIsLocked' /\ AtLarge'
      BY <1>a, <1>14 DEF Started, ProposalsTyped, FirstRuns, ToldIsLocked, AtLarge
    <2>5. OneAccepted' /\ AcceptedIsApplied' /\ TakesEffectOnce' /\ AnswersAgree'
      BY <1>a, <1>14 DEF Started, ProposalsTyped, BeingServed, Unserved, Effected,
         OneAccepted, AcceptedIsApplied, TakesEffectOnce, AnswersAgree
    <2> QED BY <2>1, <2>2, <2>3, <2>4, <2>5 DEF ProposalsInv
  <1>15. CASE UNCHANGED proposals
    <2>1. ProposalsTyped'
      BY <1>a, <1>15 DEF proposals, ProposalsTyped
    <2>2. BeingServed' /\ Unserved'
      BY <1>a, <1>15 DEF proposals, ProposalsTyped, BeingServed, Unserved, Locked
    <2>3. Effected'
      BY <1>a, <1>15 DEF proposals, ProposalsTyped, BeingServed, Unserved, Effected
    <2>4. FirstRuns' /\ ToldIsLocked' /\ AtLarge'
      BY <1>a, <1>15 DEF proposals, ProposalsTyped, FirstRuns, ToldIsLocked, AtLarge
    <2>5. OneAccepted' /\ AcceptedIsApplied' /\ TakesEffectOnce' /\ AnswersAgree'
      BY <1>a, <1>15 DEF proposals, ProposalsTyped, BeingServed, Unserved, Effected,
         OneAccepted, AcceptedIsApplied, TakesEffectOnce, AnswersAgree
    <2> QED BY <2>1, <2>2, <2>3, <2>4, <2>5 DEF ProposalsInv
  <1>16. ASSUME NEW t \in Turns, PlannerExits(t) PROVE ProposalsInv'
    <2>1. /\ alive' = alive \ {t} /\ told' = [told EXCEPT ![t] = "none"]
          /\ UNCHANGED << mode, effect, planner, prompts, requests, serving, accepted, submission,
                          kernel, applied, answers, starting, plannerCrashes >>
      BY <1>16 DEF PlannerExits
    <2>2. ProposalsTyped'
      BY <1>a, <2>1 DEF ProposalsTyped
    <2>3. ToldIsLocked' /\ AtLarge'
      BY <1>a, <2>1 DEF ProposalsTyped, ToldIsLocked, AtLarge
    <2> QED BY <1>a, <2>1, <2>2, <2>3 DEF ProposalsInv, BeingServed, Unserved, Effected, FirstRuns,
       Locked, OneAccepted, AcceptedIsApplied, TakesEffectOnce, AnswersAgree
  <1>17. ASSUME NEW t \in Turns, Resolves(t) PROVE ProposalsInv'
    <2>1. Settles(t, "resolved", alive \ {t}) /\ told[t] = "accepted"
      BY <1>17 DEF Resolves
    <2> QED BY <1>2, <2>1
  <1>18. ASSUME NEW t \in Turns, Fails(t) PROVE ProposalsInv'
    <2>1. PICK S \in SUBSET alive : Settles(t, "failed", S)
      BY <1>18 DEF Fails
    <2> QED BY <1>2, <2>1
  <1> QED BY <1>1, <1>3, <1>4, <1>5, <1>6, <1>7, <1>8, <1>9, <1>10, <1>11, <1>12,
     <1>13, <1>14, <1>15, <1>16, <1>17, <1>18 DEF NextProposals

LEMMA ProposalsInductive == ProposalsSpec => []ProposalsInv
  BY ProposalsStart, ProposalsStep, PTL DEF ProposalsSpec

\* Turns, submissions and what the Kernel has done with them keep their shapes,
\* for all sets of turns and plans and every number of crashes.
THEOREM ProposalsTypeCorrect == ProposalsSpec => []ProposalsTyped
  <1>1. ProposalsInv => ProposalsTyped
    BY DEF ProposalsInv
  <1> QED BY <1>1, ProposalsInductive, PTL

\* However Planners replay and revise, runs time out and the program stops: a
\* turn accepts one submission, which has taken effect, no submission takes
\* effect twice without a crash, its final answers agree, and the runs follow one
\* another, whatever the Planners that outlive theirs go on to submit.
THEOREM ProposalsAreExact == ProposalsSpec => []ProposalIsExact
  <1>1. ProposalsInv => RunsFollow
    <2> SUFFICES ASSUME ProposalsInv PROVE RunsFollow
      OBVIOUS
    <2>1. PICK S : S = {t \in Rpc : planner[t] = "running"}
      OBVIOUS
    <2>2. \A t, u \in S : t = u
      BY <2>1 DEF ProposalsInv, FirstRuns
    <2>3. Cardinality(S) <= 1
      <3>1. CASE S = {}
        BY <3>1, FS_EmptySet
      <3>2. CASE S # {}
        <4>1. PICK t : S = {t}
          BY <2>2, <3>2
        <4> QED BY <4>1, FS_Singleton
      <3> QED BY <3>1, <3>2
    <2> QED BY <2>1, <2>3 DEF RunsFollow, ProposalsInv, ToldIsLocked, AtLarge
  <1>2. ProposalsInv => ProposalIsExact
    BY <1>1 DEF ProposalsInv, ProposalIsExact
  <1> QED BY <1>2, ProposalsInductive, PTL

(***************************************************************************)
(* The chat.                                                               *)
(***************************************************************************)

Handling == {"downloading", "reacting", "waiting", "completing", "leading", "following",
             "awaiting result", "resolving permission", "replied"}
Handlers == [state : Handling \cup {"none", "initializing", "resolving", "ended"},
             before : Int, target : Messages \cup {NoTask}]
OutputLines == Messages \X {"answer", "created", "queued", "ended"}

(* The chat's variables are of their types.                                    *)
ChatTypeOK ==
    /\ kind \in [Messages -> {"text", "file", "verdict"}] /\ auto \in BOOLEAN
    /\ session \in {"none", "starting", "ready"}
    /\ handler \in [Deliveries -> Handlers]
    /\ seen \subseteq Messages /\ resources \subseteq Messages
    /\ received \subseteq Messages /\ overlapped \subseteq Messages
    /\ output \in Seq(OutputLines) /\ promotions \in Seq(Messages)
    /\ answering \in [Messages -> {"none", "planning", "answered", "running", "queued", "done",
                                   "parked", "blocked", "denied", "publishing"}]
    /\ submitted \in [Messages -> Nat] /\ carried \in [Messages -> SUBSET Messages]

(* The gateway remembers a message before it does anything about it, and one   *)
(* delivery of the message only does it.                                       *)
OneHandler ==
    /\ \A d \in Deliveries : handler[d].state \in Handling => d[1] \in seen
    /\ \A d, e \in Deliveries :
          handler[d].state \in Handling /\ handler[e].state \in Handling /\ d[1] = e[1] => d = e

(* A handler that has not submitted its text yet.                              *)
NotYet ==
    /\ \A d \in Deliveries : handler[d].state \in {"none", "initializing", "resolving"} =>
          handler[d].before = NotSubmitted
    /\ \A d \in Deliveries : handler[d].state = "reacting" =>
          d[1] \in TextMessages /\ submitted[d[1]] = 0 /\ handler[d].target = NoTask
    /\ \A m \in Messages : m \notin seen => submitted[m] = 0
    /\ \A m \in Messages : submitted[m] = 0 => carried[m] = {}

(* The files of a chat are those that the text in submission named, and those  *)
(* that came meanwhile.                                                        *)
Named == \A d \in Deliveries : handler[d].state = "waiting" =>
    /\ d[1] \in TextMessages /\ handler[d].before \in 0..Len(output)
    /\ resources \subseteq carried[d[1]] \cup overlapped

(* While a text is submitted alone, every Task that is created is its own.     *)
WaitsAlone == \A d \in Deliveries :
    handler[d].state = "waiting" /\ d[1] \notin overlapped =>
       /\ Planning \subseteq {d[1]}
       /\ \A i \in (handler[d].before + 1)..Len(output) :
             output[i][2] = "created" => output[i][1] = d[1]

ChatInv == /\ ChatTypeOK /\ OneHandler /\ NotYet /\ Named /\ WaitsAlone
           /\ SubmittedOnce /\ FilesAreKept /\ OwnReply /\ OneLeader
LEMMA DeliveryOf == \A d \in Deliveries : d[1] \in Messages
  BY ChatAssumption DEF Deliveries

LEMMA ChatStart == InitChat => ChatInv
  <1> SUFFICES ASSUME InitChat PROVE ChatInv
    OBVIOUS
  <1>1. PICK mix \in Mixes : kind = mix.kinds /\ auto = mix.auto
    BY DEF InitChat
  <1>2. Unreceived \in Handlers /\ Unreceived.state = "none" /\ Unreceived.before = NotSubmitted
    BY DEF Unreceived, Handlers, NotSubmitted
  <1>3. \A d \in Deliveries : handler[d] = Unreceived
    BY DEF InitChat
  <1>4. ChatTypeOK
    BY <1>1, <1>2, ChatAssumption DEF InitChat, ChatTypeOK
  <1>5. OneHandler /\ OneLeader
    BY <1>2, <1>3 DEF OneHandler, OneLeader, Handling
  <1>6. NotYet /\ Named /\ WaitsAlone /\ OwnReply
    BY <1>2, <1>3 DEF InitChat, NotYet, Named, WaitsAlone, OwnReply
  <1>7. SubmittedOnce /\ FilesAreKept
    BY DEF InitChat, SubmittedOnce, FilesAreKept
  <1> QED BY <1>4, <1>5, <1>6, <1>7 DEF ChatInv

HandlerStates == Handling \cup {"none", "initializing", "resolving", "ended"}

\* A handler goes on, and no other one does.
LEMMA GoesIs ==
  ASSUME ChatTypeOK, NEW d \in Deliveries, NEW s \in HandlerStates
  PROVE  /\ Goes(d, s) \in [Deliveries -> Handlers]
         /\ Goes(d, s)[d].state = s
         /\ s = "ended" => Goes(d, s)[d].before = NotSubmitted
         /\ s # "ended" => /\ Goes(d, s)[d].before = handler[d].before
                           /\ Goes(d, s)[d].target = handler[d].target
         /\ \A e \in Deliveries \ {d} : Goes(d, s)[e] = handler[e]
  <1>1. PICK h \in Handlers : handler[d] = h
    BY DEF ChatTypeOK
  <1>2. [h EXCEPT !.state = s] \in Handlers /\ [h EXCEPT !.state = s].state = s
        /\ [h EXCEPT !.state = s].before = h.before /\ [h EXCEPT !.state = s].target = h.target
    BY DEF Handlers, HandlerStates
  <1>3. Served \in Handlers /\ Served.state = "ended" /\ Served.before = NotSubmitted
    BY DEF Served, Unreceived, Handlers, NotSubmitted
  <1>4. handler \in [Deliveries -> Handlers]
    BY DEF ChatTypeOK
  <1> QED BY <1>1, <1>2, <1>3, <1>4 DEF Goes

\* A step that neither admits, downloads, submits, plans nor replies.
Onward ==
  /\ UNCHANGED << kind, auto, seen, resources, submitted, carried, received, overlapped >>
  /\ \A e \in Deliveries :
        /\ handler'[e].state \in Handling => handler[e].state \in Handling
        /\ handler'[e].state \in {"none", "initializing", "resolving"} =>
              handler'[e].before = NotSubmitted
        /\ handler'[e].state \in {"reacting", "waiting"} => handler'[e] = handler[e]
        /\ handler'[e].before # NotSubmitted =>
              handler'[e].target = handler[e].target /\ handler[e].before # NotSubmitted
  /\ \A m \in Messages : answering'[m] = "planning" => answering[m] = "planning"
  /\ Len(output) <= Len(output')
  /\ \A i \in 1..Len(output') : output'[i][2] = "created" =>
        i \in 1..Len(output) /\ output'[i] = output[i]

LEMMA OnwardKeeps ==
  ASSUME ChatInv, Onward, ChatTypeOK', OneLeader'
  PROVE  ChatInv'
  <1>1. OneHandler'
    BY DEF ChatInv, OneHandler, Onward
  <1>2. NotYet'
    BY DEF ChatInv, NotYet, Onward, TextMessages, NotSubmitted
  <1>3. Named'
    <2> SUFFICES ASSUME NEW d \in Deliveries, handler'[d].state = "waiting"
                 PROVE  /\ d[1] \in TextMessages' /\ handler'[d].before \in 0..Len(output')
                        /\ resources' \subseteq carried'[d[1]] \cup overlapped'
      BY DEF Named
    <2>1. handler'[d] = handler[d]
      BY DEF Onward
    <2>2. /\ d[1] \in TextMessages /\ handler[d].before \in 0..Len(output)
          /\ resources \subseteq carried[d[1]] \cup overlapped
      BY <2>1 DEF ChatInv, Named
    <2>3. Len(output) \in Nat /\ Len(output') \in Nat /\ Len(output) <= Len(output')
      BY DEF ChatInv, ChatTypeOK, Onward
    <2> QED BY <2>1, <2>2, <2>3 DEF Onward, TextMessages
  <1>4. WaitsAlone'
    <2> SUFFICES ASSUME NEW d \in Deliveries, handler'[d].state = "waiting", d[1] \notin overlapped'
                 PROVE  /\ Planning' \subseteq {d[1]}
                        /\ \A i \in (handler'[d].before + 1)..Len(output') :
                              output'[i][2] = "created" => output'[i][1] = d[1]
      BY DEF WaitsAlone
    <2>1. handler'[d] = handler[d] /\ overlapped' = overlapped
      BY DEF Onward
    <2>2. /\ Planning \subseteq {d[1]} /\ handler[d].before \in Nat
          /\ \A i \in (handler[d].before + 1)..Len(output) :
                 output[i][2] = "created" => output[i][1] = d[1]
      BY <2>1 DEF ChatInv, WaitsAlone, Named
    <2>3. Planning' \subseteq Planning
      BY DEF Planning, TextMessages, Onward
    <2>4. Len(output) \in Nat /\ Len(output') \in Nat
      BY DEF ChatInv, ChatTypeOK
    <2>5. ASSUME NEW i \in (handler[d].before + 1)..Len(output'), output'[i][2] = "created"
          PROVE  output'[i][1] = d[1]
      <3>1. i \in 1..Len(output')
        BY <2>2, <2>4
      <3>2. i \in 1..Len(output) /\ output'[i] = output[i]
        BY <3>1, <2>5 DEF Onward
      <3> QED BY <3>2, <2>2, <2>4, <2>5
    <2> QED BY <2>1, <2>2, <2>3, <2>5
  <1>5. SubmittedOnce' /\ FilesAreKept'
    BY DEF ChatInv, SubmittedOnce, FilesAreKept, Onward, TextMessages
  <1>6. OwnReply'
    BY DEF ChatInv, OwnReply, Onward
  <1> QED BY <1>1, <1>2, <1>3, <1>4, <1>5, <1>6 DEF ChatInv
LEMMA OnwardIs ==
  ASSUME ChatInv,
         UNCHANGED << kind, auto, seen, resources, submitted, carried, received, overlapped, output >>,
         \A m \in Messages : answering'[m] = "planning" => answering[m] = "planning",
         \A e \in Deliveries :
            \/ handler'[e] = handler[e]
            \/ /\ handler'[e].state \notin {"reacting", "waiting"}
               /\ handler'[e].state \in Handling => handler[e].state \in Handling
               /\ \/ handler'[e].before = NotSubmitted
                  \/ /\ handler'[e].before = handler[e].before
                     /\ handler'[e].target = handler[e].target
                     /\ handler'[e].state \notin {"none", "initializing", "resolving"}
  PROVE  Onward
  <1>1. \A e \in Deliveries : handler[e].state \in {"none", "initializing", "resolving"} =>
           handler[e].before = NotSubmitted
    BY DEF ChatInv, NotYet
  <1>2. \A e \in Deliveries :
        /\ handler'[e].state \in Handling => handler[e].state \in Handling
        /\ handler'[e].state \in {"none", "initializing", "resolving"} =>
              handler'[e].before = NotSubmitted
        /\ handler'[e].state \in {"reacting", "waiting"} => handler'[e] = handler[e]
        /\ handler'[e].before # NotSubmitted =>
              handler'[e].target = handler[e].target /\ handler[e].before # NotSubmitted
    BY <1>1
  <1>3. Len(output) \in Nat
    BY DEF ChatInv, ChatTypeOK
  <1> QED BY <1>2, <1>3 DEF Onward

LEMMA LeadersStay ==
  ASSUME OneLeader,
         \A e \in Deliveries : handler'[e].state = "leading" =>
            handler[e].state = "leading" /\ handler'[e].target = handler[e].target
  PROVE  OneLeader'
  BY DEF OneLeader

LEMMA ReceiveKeeps ==
  ASSUME ChatInv, NEW d \in Deliveries, Receive(d)
  PROVE  ChatInv'
  <1>0. ChatTypeOK
    BY DEF ChatInv
  <1>1. PICK s \in {"initializing", "resolving"} : handler' = Goes(d, s)
    BY DEF Receive
  <1>2. s \in HandlerStates /\ s # "ended" /\ s \notin Handling
    BY <1>1 DEF HandlerStates, Handling
  <1>3. /\ handler' \in [Deliveries -> Handlers]
        /\ handler'[d].state = s /\ handler'[d].before = handler[d].before
        /\ handler'[d].target = handler[d].target
        /\ \A e \in Deliveries \ {d} : handler'[e] = handler[e]
    BY <1>0, <1>1, <1>2, GoesIs
  <1>4. handler[d].before = NotSubmitted
    BY DEF ChatInv, NotYet, Receive
  <1>5. ChatTypeOK'
    BY <1>0, <1>3 DEF Receive, ChatTypeOK
  <1>6. Onward
    BY <1>1, <1>2, <1>3, <1>4, OnwardIs DEF Receive
  <1>7. OneLeader'
    BY <1>1, <1>3, LeadersStay DEF ChatInv
  <1> QED BY <1>5, <1>6, <1>7, OnwardKeeps

LEMMA InitializedKeeps ==
  ASSUME ChatInv, Initialized
  PROVE  ChatInv'
  <1>0. ChatTypeOK
    BY DEF ChatInv
  <1>1. \A e \in Deliveries :
           \/ handler'[e] = handler[e] /\ handler[e].state # "initializing"
           \/ /\ handler[e].state = "initializing" /\ handler'[e].state = "resolving"
              /\ handler'[e] \in Handlers
              /\ handler'[e].before = handler[e].before /\ handler'[e].target = handler[e].target
    <2> SUFFICES ASSUME NEW e \in Deliveries, handler[e].state = "initializing"
                 PROVE  /\ handler'[e].state = "resolving" /\ handler'[e] \in Handlers
                        /\ handler'[e].before = handler[e].before
                        /\ handler'[e].target = handler[e].target
      BY DEF Initialized
    <2>1. PICK h \in Handlers : handler[e] = h
      BY <1>0 DEF ChatTypeOK
    <2>2. /\ [h EXCEPT !.state = "resolving"] \in Handlers
          /\ [h EXCEPT !.state = "resolving"].state = "resolving"
          /\ [h EXCEPT !.state = "resolving"].before = h.before
          /\ [h EXCEPT !.state = "resolving"].target = h.target
      BY DEF Handlers
    <2> QED BY <2>1, <2>2 DEF Initialized
  <1>2. handler' \in [Deliveries -> Handlers]
    BY <1>0, <1>1 DEF Initialized, ChatTypeOK
  <1>3. ChatTypeOK'
    BY <1>0, <1>2 DEF Initialized, ChatTypeOK
  <1>4. Onward
    <2>1. \A e \in Deliveries : handler[e].state = "initializing" =>
             handler'[e].before = NotSubmitted /\ handler'[e].state \notin Handling
      BY <1>1 DEF ChatInv, NotYet, Handling
    <2> QED BY <1>1, <2>1, OnwardIs DEF Initialized
  <1>5. OneLeader'
    BY <1>1, LeadersStay DEF ChatInv
  <1> QED BY <1>3, <1>4, <1>5, OnwardKeeps

\* The rest of a handler, after its message is admitted.
LEMMA HandlerKeeps ==
  ASSUME ChatInv, NEW d \in Deliveries,
         NEW s \in {"ended", "replied", "leading", "following", "awaiting result"},
         handler' = Goes(d, s), handler[d].state \in Handling, s = "leading" => LeadsTask(d),
         promotions' \in Seq(Messages),
         answering' \in [Messages -> {"none", "planning", "answered", "running", "queued",
            "done", "parked", "blocked", "denied", "publishing"}],
         \A m \in Messages : answering'[m] = "planning" => answering[m] = "planning",
         UNCHANGED << kind, auto, session, seen, resources, output, submitted, carried,
                      received, overlapped >>
  PROVE  ChatInv'
  <1>0. ChatTypeOK
    BY DEF ChatInv
  <1>1. s \in HandlerStates /\ s \notin {"reacting", "waiting", "none", "initializing", "resolving"}
    BY DEF HandlerStates, Handling
  <1>2. /\ handler' \in [Deliveries -> Handlers]
        /\ handler'[d].state = s
        /\ s = "ended" => handler'[d].before = NotSubmitted
        /\ s # "ended" => /\ handler'[d].before = handler[d].before
                          /\ handler'[d].target = handler[d].target
        /\ \A e \in Deliveries \ {d} : handler'[e] = handler[e]
    <2>1. /\ Goes(d, s) \in [Deliveries -> Handlers]
          /\ Goes(d, s)[d].state = s
          /\ s = "ended" => Goes(d, s)[d].before = NotSubmitted
          /\ s # "ended" => /\ Goes(d, s)[d].before = handler[d].before
                            /\ Goes(d, s)[d].target = handler[d].target
          /\ \A e \in Deliveries \ {d} : Goes(d, s)[e] = handler[e]
      BY <1>0, <1>1, GoesIs
    <2> QED BY <2>1
  <1>3. ChatTypeOK'
    BY <1>0, <1>2 DEF ChatTypeOK
  <1>4. Onward
    BY <1>1, <1>2, OnwardIs
  <1>5. OneLeader'
    <2>1. CASE s # "leading"
      BY <1>2, <2>1, LeadersStay DEF ChatInv
    <2>2. CASE s = "leading"
      BY <1>2, <2>2 DEF ChatInv, OneLeader, LeadsTask
    <2> QED BY <2>1, <2>2
  <1> QED BY <1>3, <1>4, <1>5, OnwardKeeps

LEMMA WithoutTyped ==
  ASSUME promotions \in Seq(Messages), NEW t, PromotionOf(t)
  PROVE  WithoutPromotion(t) \in Seq(Messages)
  <1>1. PICK i \in DOMAIN promotions : i = CHOOSE j \in DOMAIN promotions : promotions[j] = t
    BY DEF PromotionOf
  <1>2. i \in 1..Len(promotions) /\ Len(promotions) \in Nat
    BY <1>1
  <1>3. SubSeq(promotions, 1, i - 1) \in Seq(Messages)
    BY <1>2, SubSeqProperties
  <1>4. SubSeq(promotions, i + 1, Len(promotions)) \in Seq(Messages)
    BY <1>2, SubSeqProperties
  <1> QED BY <1>1, <1>3, <1>4, ConcatProperties DEF WithoutPromotion, RemoveAt

LEMMA LaterKeeps ==
  ASSUME ChatInv, NEW d \in Deliveries,
         \/ DownloadFails(d) \/ Result(d) \/ Lead(d)
         \/ \E verdict \in {"approve", "deny"} : ResolvePermission(d, verdict)
  PROVE  ChatInv'
  <1>0. ChatTypeOK
    BY DEF ChatInv
  <1>1. CASE DownloadFails(d)
    BY <1>0, <1>1, HandlerKeeps DEF DownloadFails, ChatTypeOK, Handling
  <1>2. CASE Result(d)
    BY <1>0, <1>2, HandlerKeeps DEF Result, ChatTypeOK, Handling
  <1>3. CASE Lead(d)
    BY <1>0, <1>3, HandlerKeeps DEF Lead, ChatTypeOK, Handling
  <1>4. ASSUME NEW verdict \in {"approve", "deny"}, ResolvePermission(d, verdict)
        PROVE  ChatInv'
    <2> DEFINE t == handler[d].target
    <2>1. handler[d].state \in Handling
      BY <1>4 DEF ResolvePermission, Handling
    <2>2. CASE ~PromotionOf(t)
      BY <1>0, <1>4, <2>1, <2>2, HandlerKeeps DEF ResolvePermission, ChatTypeOK
    <2>3. CASE PromotionOf(t)
      <3>1. promotions' \in Seq(Messages)
        <4>1. promotions \in Seq(Messages) /\ promotions' = WithoutPromotion(t)
          BY <1>0, <1>4, <2>3 DEF ResolvePermission, ChatTypeOK
        <4> QED BY <2>3, <4>1, WithoutTyped
      <3>2. /\ answering' \in [Messages -> {"none", "planning", "answered", "running", "queued",
                   "done", "parked", "blocked", "denied", "publishing"}]
            /\ \A m \in Messages : answering'[m] = "planning" => answering[m] = "planning"
        BY <1>0, <1>4, <2>3 DEF ResolvePermission, ChatTypeOK
      <3>3. handler' = Goes(d, IF verdict = "deny" THEN "ended" ELSE "awaiting result")
        BY <1>4, <2>3 DEF ResolvePermission
      <3> QED BY <1>4, <2>1, <3>1, <3>2, <3>3, HandlerKeeps DEF ResolvePermission
    <2> QED BY <2>2, <2>3
  <1> QED BY <1>1, <1>2, <1>3, <1>4

LEMMA AutoApproveKeeps ==
  ASSUME ChatInv, NEW d \in Deliveries, AutoApprove(d)
  PROVE  ChatInv'
  <1>0. ChatTypeOK
    BY DEF ChatInv
  <1>1. promotions' \in Seq(Messages)
    BY <1>0, WithoutTyped DEF AutoApprove, ChatTypeOK
  <1>2. ChatTypeOK' /\ \A m \in Messages : answering'[m] = "planning" => answering[m] = "planning"
    BY <1>0, <1>1 DEF AutoApprove, ChatTypeOK
  <1>3. Onward
    BY <1>2, OnwardIs DEF AutoApprove
  <1>4. OneLeader'
    BY LeadersStay DEF ChatInv, AutoApprove
  <1> QED BY <1>2, <1>3, <1>4, OnwardKeeps

LEMMA CompletedKeeps ==
  ASSUME ChatInv, NEW d \in Deliveries, Completed(d)
  PROVE  ChatInv'
  <1>0. ChatTypeOK
    BY DEF ChatInv
  <1>1. Served \in Handlers /\ Served.state = "ended" /\ Served.before = NotSubmitted
    BY DEF Served, Unreceived, Handlers, NotSubmitted
  <1>2. /\ handler'[d] \in Handlers
        /\ handler[d].state = "leading" /\ handler'[d].state = "replied"
        /\ handler'[d].before = handler[d].before /\ handler'[d].target = handler[d].target
    <2>1. PICK h \in Handlers : handler[d] = h
      BY <1>0 DEF ChatTypeOK
    <2>2. /\ [h EXCEPT !.state = "replied"] \in Handlers
          /\ [h EXCEPT !.state = "replied"].state = "replied"
          /\ [h EXCEPT !.state = "replied"].before = h.before
          /\ [h EXCEPT !.state = "replied"].target = h.target
      BY DEF Handlers, Handling
    <2> QED BY <2>1, <2>2 DEF Completed
  <1>3. \A e \in Deliveries \ {d} : handler'[e] \in {handler[e], Served}
    BY DEF Completed
  <1>4. handler' \in [Deliveries -> Handlers]
    BY <1>0, <1>1, <1>2, <1>3 DEF Completed, ChatTypeOK
  <1>5. ChatTypeOK'
    BY <1>0, <1>4 DEF Completed, ChatTypeOK
  <1>6. Onward
    <2>1. "leading" \in Handling /\ "ended" \notin Handling
      BY DEF Handling
    <2> QED BY <1>1, <1>2, <1>3, <2>1, OnwardIs DEF Completed
  <1>7. OneLeader'
    BY <1>1, <1>2, <1>3, LeadersStay DEF ChatInv
  <1> QED BY <1>5, <1>6, <1>7, OnwardKeeps

LEMMA RunKeeps ==
  ASSUME ChatInv, NEW m \in TextMessages, NEW outcome \in {"done", "parked", "blocked"},
         RunTask(m, outcome)
  PROVE  ChatInv'
  <1>0. ChatTypeOK /\ m \in Messages
    BY DEF ChatInv, TextMessages
  <1>1. promotions' \in Seq(Messages)
    BY <1>0, AppendProperties DEF RunTask, ChatTypeOK
  <1>2. << m, "ended" >> \in OutputLines
    BY <1>0 DEF OutputLines
  <1>3. /\ output' \in Seq(OutputLines) /\ Len(output) <= Len(output')
        /\ \A i \in 1..Len(output') : output'[i][2] = "created" =>
              i \in 1..Len(output) /\ output'[i] = output[i]
    <2>1. CASE outcome = "done"
      <3>1. output' = Append(output, << m, "ended" >>) /\ output \in Seq(OutputLines)
        BY <1>0, <2>1 DEF RunTask, Prints, ChatTypeOK
      <3>2. /\ output' \in Seq(OutputLines) /\ Len(output') = Len(output) + 1
            /\ \A i \in 1..Len(output) : output'[i] = output[i]
            /\ output'[Len(output) + 1] = << m, "ended" >> /\ Len(output) \in Nat
        BY <1>2, <3>1, AppendProperties
      <3> QED BY <3>2
    <2>2. CASE outcome # "done"
      BY <1>0, <2>2 DEF RunTask, ChatTypeOK
    <2> QED BY <2>1, <2>2
  <1>4. ChatTypeOK' /\ \A x \in Messages : answering'[x] = "planning" => answering[x] = "planning"
    BY <1>0, <1>1, <1>3 DEF RunTask, ChatTypeOK
  <1>5. Onward
    BY <1>3, <1>4 DEF ChatInv, NotYet, RunTask, Onward
  <1>6. OneLeader'
    BY LeadersStay DEF ChatInv, RunTask
  <1> QED BY <1>4, <1>5, <1>6, OnwardKeeps
LEMMA FirstIs ==
  ASSUME NEW S \in SUBSET Nat, S # {}
  PROVE  (CHOOSE i \in S : \A j \in S : i <= j) \in S
  <1> DEFINE R == OpToRel(<, Nat)
  <1>1. IsWellFoundedOn(R, Nat)
    BY NatLessThanWellFounded
  <1>2. PICK x \in S : \A y \in S : << y, x >> \notin R
    BY <1>1, WFMin
  <1>3. \A y \in S : ~(y < x)
    BY <1>2 DEF OpToRel
  <1>4. \A y \in S : x <= y
    BY <1>3
  <1> QED BY <1>4

\* A text that was submitted alone is answered for its own Task, or for none.
LEMMA TargetIsOwn ==
  ASSUME ChatInv, NEW d \in Deliveries, handler[d].state = "waiting"
  PROVE  Target(d) \in Messages \cup {NoTask} /\ (Target(d) \in {NoTask, d[1]} \/ d[1] \in overlapped)
  <1> DEFINE b == handler[d].before
  <1>1. /\ output \in Seq(OutputLines) /\ b \in 0..Len(output) /\ Len(output) \in Nat
        /\ d[1] \notin overlapped => \A i \in (b + 1)..Len(output) :
              output[i][2] = "created" => output[i][1] = d[1]
    BY DEF ChatInv, ChatTypeOK, Named, WaitsAlone
  <1> HIDE DEF b
  <1>2. /\ NewLines(d) = SubSeq(output, b + 1, Len(output))
    BY DEF NewLines, b
  <1>3. \A i \in (b + 1)..Len(output) : output[i] \in OutputLines
    BY <1>1
  <1>4. b + 1 \in Int /\ Len(output) \in Int
    BY <1>1
  <1>5. /\ NewLines(d) \in Seq(OutputLines)
        /\ \A i \in 1..(Len(output) - (b + 1) + 1) : NewLines(d)[i] = output[(b + 1) + i - 1]
        /\ Len(NewLines(d)) = IF b + 1 <= Len(output) THEN Len(output) - (b + 1) + 1 ELSE 0
    BY <1>2, <1>3, <1>4, SubSeqProperties
  <1> DEFINE named == {i \in DOMAIN NewLines(d) : NewLines(d)[i][2] = "created"}
  <1>6. CASE named = {}
    BY <1>6 DEF Target
  <1>7. CASE named # {}
    <2>1. named \in SUBSET Nat
      BY <1>5
    <2>2. PICK i \in named : i = CHOOSE x \in named : \A j \in named : x <= j
      BY <1>7, <2>1, FirstIs
    <2>3. Target(d) = NewLines(d)[i][1]
      BY <1>7, <2>2 DEF Target
    <2>4. i \in 1..Len(NewLines(d)) /\ NewLines(d)[i] \in OutputLines /\ NewLines(d)[i][2] = "created"
      BY <1>5, <2>2
    <2>5. NewLines(d)[i] = output[b + i] /\ b + i \in (b + 1)..Len(output)
      BY <1>1, <1>5, <2>4
    <2> QED BY <1>1, <2>3, <2>4, <2>5 DEF OutputLines
  <1> QED BY <1>6, <1>7

\* A wait for a reply ends.
LEMMA ReplyKeeps ==
  ASSUME ChatInv, NEW d \in Deliveries, ReplyIsReady(d) \/ TimesOut(d)
  PROVE  ChatInv'
  <1>0. ChatTypeOK /\ handler[d].state = "waiting"
    BY DEF ChatInv, ReplyIsReady, TimesOut
  <1>1. /\ handler' \in [Deliveries -> Handlers]
        /\ handler'[d].state \in {"completing", "replied"} /\ handler'[d].before = 0
        /\ handler'[d].target = Target(d)
        /\ \A e \in Deliveries \ {d} : handler'[e] = handler[e]
    <2>1. Target(d) \in Messages \cup {NoTask}
      BY <1>0, TargetIsOwn
    <2>2. PICK s \in {"completing", "replied"} : handler' = Answered(d, s)
      BY DEF ReplyIsReady, TimesOut
    <2>3. [state |-> s, before |-> 0, target |-> Target(d)] \in Handlers
      <3>1. s \in Handling
        <4>1. {"completing", "replied"} \subseteq Handling
          BY DEF Handling
        <4> QED BY <2>2, <4>1
      <3>2. 0 \in Int
        OBVIOUS
      <3> QED BY <2>1, <3>1, <3>2 DEF Handlers
    <2>4. handler \in [Deliveries -> Handlers]
      BY <1>0 DEF ChatTypeOK
    <2> QED BY <2>2, <2>3, <2>4 DEF Answered
  <1>2. UNCHANGED << kind, auto, session, seen, output, answering, promotions, submitted, carried,
                     received, overlapped >> /\ resources' \in {{}, resources}
    BY DEF ReplyIsReady, TimesOut, ResourcesAfter
  <1>3. ChatTypeOK'
    BY <1>0, <1>1, <1>2 DEF ChatTypeOK
  <1>4. "waiting" \in Handling
    BY DEF Handling
  <1>5. OneHandler'
    BY <1>0, <1>1, <1>2, <1>4 DEF ChatInv, OneHandler
  <1>6. NotYet'
    BY <1>1, <1>2 DEF ChatInv, NotYet, TextMessages
  <1>7. Named' /\ WaitsAlone'
    BY <1>1, <1>2 DEF ChatInv, Named, WaitsAlone, TextMessages, Planning
  <1>8. SubmittedOnce'
    BY <1>2 DEF ChatInv, SubmittedOnce
  <1>9. FilesAreKept'
    <2> SUFFICES ASSUME NEW f \in received
                 PROVE  f \in resources' \/ f \in overlapped \/ \E m \in TextMessages : f \in carried[m]
      BY <1>2 DEF FilesAreKept, TextMessages
    <2>1. resources \subseteq carried[d[1]] \cup overlapped /\ d[1] \in TextMessages
      BY <1>0 DEF ChatInv, Named
    <2> QED BY <1>2, <2>1 DEF ChatInv, FilesAreKept
  <1>10. OwnReply'
    BY <1>0, <1>1, <1>2, TargetIsOwn DEF ChatInv, OwnReply
  <1>11. OneLeader'
    BY <1>1, LeadersStay DEF ChatInv
  <1> QED BY <1>3, <1>5, <1>6, <1>7, <1>8, <1>9, <1>10, <1>11 DEF ChatInv
LEMMA DownloadKeeps ==
  ASSUME ChatInv, NEW d \in Deliveries, Download(d)
  PROVE  ChatInv'
  <1>0. ChatTypeOK /\ handler[d].state = "downloading" /\ d[1] \in Messages
    BY DeliveryOf DEF ChatInv, Download
  <1>1. /\ handler' \in [Deliveries -> Handlers]
        /\ handler'[d].state = "ended" /\ handler'[d].before = NotSubmitted
        /\ \A e \in Deliveries \ {d} : handler'[e] = handler[e]
    <2>1. "ended" \in HandlerStates
      BY DEF HandlerStates
    <2> QED BY <1>0, <2>1, GoesIs DEF Download
  <1>2. UNCHANGED << kind, auto, session, seen, output, answering, promotions, submitted, carried >>
        /\ resources' = resources \cup {d[1]} /\ received' = received \cup {d[1]}
        /\ overlapped \subseteq overlapped' /\ overlapped' \subseteq overlapped \cup {d[1]}
    BY DEF Download
  <1>3. ChatTypeOK'
    BY <1>0, <1>1, <1>2 DEF ChatTypeOK
  <1>4. "ended" \notin Handling
    BY DEF Handling
  <1>5. OneHandler'
    BY <1>1, <1>2, <1>4 DEF ChatInv, OneHandler
  <1>6. NotYet'
    BY <1>1, <1>2 DEF ChatInv, NotYet, TextMessages
  <1>7. Named'
    <2> SUFFICES ASSUME NEW e \in Deliveries, handler'[e].state = "waiting"
                 PROVE  /\ e[1] \in TextMessages' /\ handler'[e].before \in 0..Len(output')
                        /\ resources' \subseteq carried'[e[1]] \cup overlapped'
      BY DEF Named
    <2>1. handler'[e] = handler[e] /\ e # d
      BY <1>1
    <2>2. e[1] \in Submitting
      BY <2>1 DEF Submitting
    <2>3. d[1] \in overlapped'
      BY <2>2 DEF Download
    <2> QED BY <1>2, <2>1, <2>3 DEF ChatInv, Named, TextMessages
  <1>8. WaitsAlone'
    BY <1>1, <1>2 DEF ChatInv, WaitsAlone, Planning, TextMessages
  <1>9. SubmittedOnce' /\ FilesAreKept'
    BY <1>2 DEF ChatInv, SubmittedOnce, FilesAreKept, TextMessages
  <1>10. OwnReply'
    BY <1>1, <1>2 DEF ChatInv, OwnReply
  <1>11. OneLeader'
    BY <1>1, LeadersStay DEF ChatInv
  <1> QED BY <1>3, <1>5, <1>6, <1>7, <1>8, <1>9, <1>10, <1>11 DEF ChatInv

LEMMA AdmitKeeps ==
  ASSUME ChatInv, NEW d \in Deliveries, NEW allowed \in BOOLEAN, AdmitMessage(d, allowed)
  PROVE  ChatInv'
  <1> DEFINE m == d[1]
  <1>0. ChatTypeOK /\ handler[d].state = "resolving" /\ m \in Messages
        /\ handler[d].before = NotSubmitted
    BY DeliveryOf DEF ChatInv, AdmitMessage, NotYet
  <1>1. UNCHANGED << kind, auto, session, resources, output, answering, promotions, submitted, carried,
                     received, overlapped >> /\ seen \subseteq seen' /\ seen' \subseteq Messages
    BY <1>0 DEF AdmitMessage, Remembered, ChatTypeOK
  <1>2. CASE handler' = Goes(d, "ended")
    <2>1. "ended" \in HandlerStates /\ "ended" \notin Handling
      BY DEF HandlerStates, Handling
    <2>2. /\ handler' \in [Deliveries -> Handlers]
          /\ handler'[d].state = "ended" /\ handler'[d].before = NotSubmitted
          /\ \A e \in Deliveries \ {d} : handler'[e] = handler[e]
      BY <1>0, <1>2, <2>1, GoesIs
    <2>3. ChatTypeOK'
      BY <1>0, <1>1, <2>2 DEF ChatTypeOK
    <2>4. OneHandler' /\ NotYet'
      BY <1>1, <2>1, <2>2 DEF ChatInv, OneHandler, NotYet, TextMessages
    <2>5. Named' /\ WaitsAlone'
      BY <1>1, <2>2 DEF ChatInv, Named, WaitsAlone, Planning, TextMessages
    <2>6. SubmittedOnce' /\ FilesAreKept' /\ OwnReply'
      BY <1>1, <2>2 DEF ChatInv, SubmittedOnce, FilesAreKept, TextMessages, OwnReply
    <2>7. OneLeader'
      BY <2>2, LeadersStay DEF ChatInv
    <2> QED BY <2>3, <2>4, <2>5, <2>6, <2>7 DEF ChatInv
  <1>3. CASE handler' # Goes(d, "ended")
    <2> DEFINE t == IF promotions # << >> /\ m \notin Files THEN promotions[Len(promotions)] ELSE NoTask
    <2>1. m \notin seen /\ seen' = seen \cup {m} /\ handler' = [Goes(d, Course(m)) EXCEPT ![d].target = t]
      BY <1>3 DEF AdmitMessage, Remembered
    <2>2. kind[m] \in {"text", "file", "verdict"} /\ promotions \in Seq(Messages)
      BY <1>0 DEF ChatTypeOK
    <2>3. /\ Course(m) \in {"ended", "resolving permission", "completing", "reacting", "downloading"}
          /\ Course(m) = "reacting" => kind[m] = "text" /\ promotions = << >>
      BY <2>2 DEF Course
    <2>4. t \in Messages \cup {NoTask}
      <3>1. CASE promotions # << >> /\ m \notin Files
        <4>1. Len(promotions) \in 1..Len(promotions)
          BY <2>2, <3>1, EmptySeq
        <4> QED BY <2>2, <3>1, <4>1
      <3>2. CASE ~(promotions # << >> /\ m \notin Files)
        BY <3>2
      <3> QED BY <3>1, <3>2
    <2>5. Course(m) = "reacting" => t = NoTask
      BY <2>3
    <2> HIDE DEF t
    <2>6. Course(m) \in HandlerStates
      BY <2>3 DEF HandlerStates, Handling
    <2>7. PICK h \in Handlers : /\ Goes(d, Course(m))[d] = h
                                /\ h.state = Course(m) /\ h.before = NotSubmitted
      <3>1. /\ Goes(d, Course(m)) \in [Deliveries -> Handlers]
            /\ Goes(d, Course(m))[d].state = Course(m)
            /\ Goes(d, Course(m))[d].before = NotSubmitted
        BY <1>0, <2>6, GoesIs
      <3> QED BY <3>1
    <2>8. /\ [h EXCEPT !.target = t] \in Handlers /\ [h EXCEPT !.target = t].target = t
          /\ [h EXCEPT !.target = t].state = h.state /\ [h EXCEPT !.target = t].before = h.before
      BY <2>4 DEF Handlers
    <2>9. /\ Goes(d, Course(m)) \in [Deliveries -> Handlers]
          /\ \A e \in Deliveries \ {d} : Goes(d, Course(m))[e] = handler[e]
      BY <1>0, <2>6, GoesIs
    <2>10. /\ handler' \in [Deliveries -> Handlers]
           /\ handler'[d].state = Course(m) /\ handler'[d].before = NotSubmitted
           /\ handler'[d].target = t
           /\ \A e \in Deliveries \ {d} : handler'[e] = handler[e]
      BY <2>1, <2>7, <2>8, <2>9
    <2>11. ChatTypeOK'
      BY <1>0, <1>1, <2>10 DEF ChatTypeOK
    <2>12. OneHandler'
      BY <2>1, <2>10 DEF ChatInv, OneHandler
    <2>13. submitted[m] = 0
      BY <1>0, <2>1 DEF ChatInv, NotYet
    <2>a. ASSUME NEW e \in Deliveries, handler'[e].state \in {"none", "initializing", "resolving"}
          PROVE  handler'[e].before = NotSubmitted
      BY <2>10, <2>a DEF ChatInv, NotYet
    <2>b. ASSUME NEW e \in Deliveries, handler'[e].state = "reacting"
          PROVE  e[1] \in TextMessages /\ submitted[e[1]] = 0 /\ handler'[e].target = NoTask
      <3>1. CASE e = d
        <4>1. Course(m) = "reacting" /\ handler'[e].target = t
          BY <2>10, <2>b, <3>1
        <4> QED BY <1>0, <2>3, <2>5, <2>13, <3>1, <4>1 DEF TextMessages
      <3>2. CASE e # d
        <4>1. handler'[e] = handler[e]
          BY <2>10, <3>2
        <4> QED BY <2>b, <4>1 DEF ChatInv, NotYet
      <3> QED BY <3>1, <3>2
    <2>c. ASSUME NEW x \in Messages
          PROVE  (x \notin seen' => submitted[x] = 0) /\ (submitted[x] = 0 => carried[x] = {})
      BY <1>1 DEF ChatInv, NotYet
    <2>d. UNCHANGED << submitted, carried, TextMessages >>
      BY <1>1 DEF TextMessages
    <2>14. NotYet'
      BY <2>a, <2>b, <2>c, <2>d DEF NotYet
    <2>15. Named' /\ WaitsAlone'
      BY <1>1, <2>3, <2>10 DEF ChatInv, Named, WaitsAlone, Planning, TextMessages
    <2>16. SubmittedOnce' /\ FilesAreKept' /\ OwnReply'
      BY <1>1, <2>10 DEF ChatInv, SubmittedOnce, FilesAreKept, TextMessages, OwnReply
    <2>17. OneLeader'
      BY <2>3, <2>10, LeadersStay DEF ChatInv
    <2> QED BY <2>11, <2>12, <2>14, <2>15, <2>16, <2>17 DEF ChatInv
  <1> QED BY <1>2, <1>3

LEMMA SubmitKeeps ==
  ASSUME ChatInv, NEW d \in Deliveries, SubmitText(d)
  PROVE  ChatInv'
  <1> DEFINE m == d[1]
  <1>0. /\ ChatTypeOK /\ handler[d].state = "reacting" /\ m \in Messages
        /\ m \in TextMessages /\ submitted[m] = 0 /\ handler[d].target = NoTask
    BY DeliveryOf DEF ChatInv, SubmitText, NotYet
  <1>1. UNCHANGED << kind, auto, session, seen, resources, output, promotions, received >>
        /\ submitted' = [submitted EXCEPT ![m] = @ + 1]
        /\ carried' = [carried EXCEPT ![m] = resources]
        /\ answering' = [answering EXCEPT ![m] = "planning"]
        /\ overlapped \subseteq overlapped' /\ overlapped' \subseteq Messages
    <2>1. Submitting \subseteq Messages
      BY DeliveryOf DEF Submitting
    <2> QED BY <1>0, <2>1 DEF SubmitText, ChatTypeOK
  <1>2. /\ handler' \in [Deliveries -> Handlers]
        /\ handler'[d].state = "waiting" /\ handler'[d].before = Len(output)
        /\ handler'[d].target = NoTask
        /\ \A e \in Deliveries \ {d} : handler'[e] = handler[e]
    <2>1. "waiting" \in HandlerStates
      BY DEF HandlerStates, Handling
    <2>2. /\ Goes(d, "waiting") \in [Deliveries -> Handlers]
          /\ Goes(d, "waiting")[d].state = "waiting"
          /\ Goes(d, "waiting")[d].target = NoTask
          /\ \A e \in Deliveries \ {d} : Goes(d, "waiting")[e] = handler[e]
      BY <1>0, <2>1, GoesIs
    <2>3. PICK h \in Handlers : Goes(d, "waiting")[d] = h
      BY <2>2
    <2>4. Len(output) \in Int
      BY <1>0 DEF ChatTypeOK
    <2>5. /\ [h EXCEPT !.before = Len(output)] \in Handlers
          /\ [h EXCEPT !.before = Len(output)].state = h.state
          /\ [h EXCEPT !.before = Len(output)].target = h.target
          /\ [h EXCEPT !.before = Len(output)].before = Len(output)
      BY <2>4 DEF Handlers
    <2>6. handler' = [Goes(d, "waiting") EXCEPT ![d].before = Len(output)]
      BY DEF SubmitText, OutputLength
    <2> QED BY <2>2, <2>3, <2>5, <2>6
  <1>3. ChatTypeOK'
    BY <1>0, <1>1, <1>2 DEF ChatTypeOK
  <1>4. {"reacting", "waiting"} \subseteq Handling
    BY DEF Handling
  <1>5. OneHandler'
    BY <1>0, <1>1, <1>2, <1>4 DEF ChatInv, OneHandler
  <1>6. \A e \in Deliveries \ {d} : handler[e].state \in Handling => e[1] # m
    BY <1>0, <1>4 DEF ChatInv, OneHandler
  <1>7. m \in seen
    BY <1>0, <1>4 DEF ChatInv, OneHandler
  <1>8. NotYet'
    <2>1. \A x \in Messages \ {m} : submitted'[x] = submitted[x] /\ carried'[x] = carried[x]
      BY <1>0, <1>1 DEF ChatTypeOK
    <2>2. submitted'[m] = 1
      BY <1>0, <1>1 DEF ChatTypeOK
    <2>3. \A e \in Deliveries : e[1] \in Messages
      BY DeliveryOf
    <2>4. TextMessages' = TextMessages
      BY <1>1 DEF TextMessages
    <2>5. \A e \in Deliveries : handler'[e].state \in {"none", "initializing", "resolving"} =>
             handler'[e].before = NotSubmitted
      BY <1>2 DEF ChatInv, NotYet
    <2>6. \A e \in Deliveries : handler'[e].state = "reacting" =>
             e[1] \in TextMessages /\ submitted'[e[1]] = 0 /\ handler'[e].target = NoTask
      <3> SUFFICES ASSUME NEW e \in Deliveries, handler'[e].state = "reacting"
                   PROVE  e[1] \in TextMessages /\ submitted'[e[1]] = 0 /\ handler'[e].target = NoTask
        OBVIOUS
      <3>1. e # d /\ handler'[e] = handler[e]
        BY <1>2
      <3>2. e[1] # m
        BY <3>1, <1>4, <1>6
      <3> QED BY <2>1, <2>3, <3>1, <3>2 DEF ChatInv, NotYet
    <2>7. \A x \in Messages : x \notin seen' => submitted'[x] = 0
      BY <1>1, <1>7, <2>1 DEF ChatInv, NotYet
    <2>8. \A x \in Messages : submitted'[x] = 0 => carried'[x] = {}
      BY <2>1, <2>2 DEF ChatInv, NotYet
    <2> QED BY <2>4, <2>5, <2>6, <2>7, <2>8 DEF NotYet
  <1>9. Named'
    <2> SUFFICES ASSUME NEW e \in Deliveries, handler'[e].state = "waiting"
                 PROVE  /\ e[1] \in TextMessages' /\ handler'[e].before \in 0..Len(output')
                        /\ resources' \subseteq carried'[e[1]] \cup overlapped'
      BY DEF Named
    <2>1. CASE e = d
      <3>1. Len(output) \in Nat /\ carried'[m] = resources
        BY <1>0, <1>1 DEF ChatTypeOK
      <3> QED BY <1>0, <1>1, <1>2, <2>1, <3>1 DEF TextMessages
    <2>2. CASE e # d
      <3>1. handler'[e] = handler[e] /\ e[1] # m /\ e[1] \in Messages
        BY <1>2, <1>4, <1>6, <2>2, DeliveryOf
      <3>2. carried'[e[1]] = carried[e[1]]
        BY <1>0, <1>1, <3>1 DEF ChatTypeOK
      <3> QED BY <1>1, <3>1, <3>2 DEF ChatInv, Named, TextMessages
    <2> QED BY <2>1, <2>2
  <1>10. WaitsAlone'
    <2> SUFFICES ASSUME NEW e \in Deliveries, handler'[e].state = "waiting", e[1] \notin overlapped'
                 PROVE  /\ Planning' \subseteq {e[1]}
                        /\ \A i \in (handler'[e].before + 1)..Len(output') :
                              output'[i][2] = "created" => output'[i][1] = e[1]
      BY DEF WaitsAlone
    <2>1. e = d
      <3> SUFFICES ASSUME e # d PROVE FALSE
        OBVIOUS
      <3>1. handler[e].state = "waiting"
        BY <1>2
      <3>2. e[1] \in Submitting
        BY <3>1 DEF Submitting
      <3> QED BY <3>2 DEF SubmitText
    <2>2. Planning = {}
      BY <2>1 DEF SubmitText
    <2>3. Planning' \subseteq {m}
      BY <1>0, <1>1, <2>2 DEF Planning, TextMessages, ChatTypeOK
    <2>4. Len(output) \in Nat
      BY <1>0 DEF ChatTypeOK
    <2> QED BY <1>1, <1>2, <2>1, <2>3, <2>4
  <1>11. SubmittedOnce'
    BY <1>0, <1>1 DEF ChatInv, SubmittedOnce, ChatTypeOK
  <1>12. FilesAreKept'
    <2> SUFFICES ASSUME NEW f \in received
                 PROVE  \/ f \in resources \/ f \in overlapped'
                        \/ \E x \in TextMessages : f \in carried'[x]
      BY <1>1 DEF FilesAreKept, TextMessages
    <2>1. carried[m] = {}
      BY <1>0 DEF ChatInv, NotYet
    <2>2. \A x \in TextMessages \ {m} : carried'[x] = carried[x]
      BY <1>0, <1>1 DEF ChatTypeOK, TextMessages
    <2> QED BY <1>1, <2>1, <2>2 DEF ChatInv, FilesAreKept
  <1>13. OwnReply'
    BY <1>1, <1>2 DEF ChatInv, OwnReply
  <1>14. OneLeader'
    BY <1>2, LeadersStay DEF ChatInv
  <1> QED BY <1>3, <1>5, <1>8, <1>9, <1>10, <1>11, <1>12, <1>13, <1>14 DEF ChatInv

LEMMA PlanKeeps ==
  ASSUME ChatInv, NEW m \in TextMessages, NEW outcome \in {"answered", "running", "queued"},
         Plan(m, outcome)
  PROVE  ChatInv'
  <1>0. ChatTypeOK /\ m \in Messages /\ m \in Planning
    BY DEF ChatInv, TextMessages, Plan, Planning
  <1>1. UNCHANGED << kind, auto, session, seen, handler, resources, promotions, submitted,
                     carried, received, overlapped >>
        /\ answering' = [answering EXCEPT ![m] = outcome]
    BY DEF Plan
  <1> DEFINE one == << <<m, "answer">> >>
             two == << <<m, "created">> >>
             both == << <<m, "created">>, <<m, "queued">> >>
  <1>a. /\ one \in Seq(OutputLines) /\ two \in Seq(OutputLines) /\ both \in Seq(OutputLines)
        /\ \A i \in 1..Len(one) : one[i][1] = m
        /\ \A i \in 1..Len(two) : two[i][1] = m
        /\ \A i \in 1..Len(both) : both[i][1] = m
    <2>1. <<m, "answer">> \in OutputLines /\ <<m, "created">> \in OutputLines
          /\ <<m, "queued">> \in OutputLines
      BY <1>0 DEF OutputLines
    <2>2. \A i \in 1..2 : i = 1 \/ i = 2
      OBVIOUS
    <2> QED BY <2>1, <2>2
  <1>b. output' \in {output \o one, output \o two, output \o both}
    BY DEF Plan
  <1> HIDE DEF one, two, both
  <1>2. PICK new \in Seq(OutputLines) : /\ output' = output \o new
                                        /\ \A i \in 1..Len(new) : new[i][1] = m
    BY <1>a, <1>b
  <1>3. output \in Seq(OutputLines) /\ Len(output) \in Nat /\ Len(new) \in Nat
    BY <1>0 DEF ChatTypeOK
  <1>4. /\ output' \in Seq(OutputLines) /\ Len(output') = Len(output) + Len(new)
        /\ \A i \in 1..Len(output) + Len(new) :
              output'[i] = IF i <= Len(output) THEN output[i] ELSE new[i - Len(output)]
    BY <1>2, <1>3, ConcatProperties
  <1>5. ChatTypeOK'
    BY <1>0, <1>1, <1>4 DEF ChatTypeOK
  <1>6. OneHandler' /\ NotYet'
    BY <1>1 DEF ChatInv, OneHandler, NotYet, TextMessages
  <1>7. Named'
    BY <1>1, <1>3, <1>4 DEF ChatInv, Named, TextMessages
  <1>8. WaitsAlone'
    <2> SUFFICES ASSUME NEW e \in Deliveries, handler[e].state = "waiting", e[1] \notin overlapped
                 PROVE  /\ Planning' \subseteq {e[1]}
                        /\ \A i \in (handler[e].before + 1)..Len(output') :
                              output'[i][2] = "created" => output'[i][1] = e[1]
      BY <1>1 DEF WaitsAlone
    <2>1. Planning \subseteq {e[1]} /\ m = e[1] /\ handler[e].before \in Nat
          /\ \A i \in (handler[e].before + 1)..Len(output) :
                output[i][2] = "created" => output[i][1] = e[1]
      BY <1>0 DEF ChatInv, WaitsAlone, Named
    <2>2. Planning' \subseteq Planning
      BY <1>0, <1>1 DEF Planning, TextMessages, ChatTypeOK
    <2>3. ASSUME NEW i \in (handler[e].before + 1)..Len(output'), output'[i][2] = "created"
          PROVE  output'[i][1] = e[1]
      <3>1. CASE i <= Len(output)
        BY <1>3, <1>4, <2>1, <2>3, <3>1
      <3>2. CASE i > Len(output)
        <4>1. i - Len(output) \in 1..Len(new) /\ output'[i] = new[i - Len(output)]
          BY <1>3, <1>4, <2>1, <2>3, <3>2
        <4> QED BY <1>2, <2>1, <4>1
      <3> QED BY <1>3, <1>4, <2>1, <3>1, <3>2
    <2> QED BY <2>1, <2>2, <2>3
  <1>9. SubmittedOnce' /\ FilesAreKept' /\ OwnReply' /\ OneLeader'
    BY <1>1 DEF ChatInv, SubmittedOnce, FilesAreKept, TextMessages, OwnReply, OneLeader
  <1> QED BY <1>5, <1>6, <1>7, <1>8, <1>9 DEF ChatInv

LEMMA ChatStep ==
  ASSUME ChatInv, [NextChat]_chat
  PROVE  ChatInv'
  <1>1. CASE Initialized
    BY <1>1, InitializedKeeps
  <1>2. ASSUME NEW d \in Deliveries, Handle(d) PROVE ChatInv'
    BY <1>2, ReceiveKeeps, DownloadKeeps, SubmitKeeps, ReplyKeeps, LaterKeeps, AutoApproveKeeps,
       CompletedKeeps, AdmitKeeps DEF Handle
  <1>3. ASSUME NEW m \in TextMessages, NEW outcome \in {"answered", "running", "queued"},
               Plan(m, outcome)
        PROVE  ChatInv'
    BY <1>3, PlanKeeps
  <1>4. ASSUME NEW m \in TextMessages, NEW outcome \in {"done", "parked", "blocked"},
               RunTask(m, outcome)
        PROVE  ChatInv'
    BY <1>4, RunKeeps
  <1>5. CASE UNCHANGED chat
    <2>1. ChatTypeOK' /\ OneHandler' /\ NotYet' /\ Named'
      BY <1>5 DEF chat, ChatInv, ChatTypeOK, OneHandler, NotYet, Named, TextMessages
    <2>2. WaitsAlone' /\ SubmittedOnce' /\ FilesAreKept' /\ OwnReply' /\ OneLeader'
      BY <1>5 DEF chat, ChatInv, WaitsAlone, Planning, TextMessages, SubmittedOnce, FilesAreKept,
         OwnReply, OneLeader
    <2> QED BY <2>1, <2>2 DEF ChatInv
  <1> QED BY <1>1, <1>2, <1>3, <1>4, <1>5 DEF NextChat

LEMMA ChatInductive == ChatSpec => []ChatInv
  BY ChatStart, ChatStep, PTL DEF ChatSpec

\* Handlers, files, lines and promotions of a chat keep their shapes, for every
\* set of messages, of any kinds.
THEOREM ChatTypeCorrect == ChatSpec => []ChatTypeOK
  <1>1. ChatInv => ChatTypeOK
    BY DEF ChatInv
  <1> QED BY <1>1, ChatInductive, PTL

\* However many messages come, repeat and overlap: each is submitted once, a file
\* is kept until a text names it unless it came while one was being submitted,
\* a text that was submitted and planned alone is answered for its own Task, and
\* one handler at a time completes a Task.
THEOREM ChatsAreServed == ChatSpec => []ChatIsServed
  <1>1. ChatInv => ChatIsServed
    BY DEF ChatInv, ChatIsServed
  <1> QED BY <1>1, ChatInductive, PTL
-----------------------------------------------------------------------------
(***************************************************************************)
(* The admission of plans.                                                 *)
(***************************************************************************)

Progress == {"none", "ready", "running", "done", "blocked", "cancelled"}
PlanParts == {[deps |-> plan.deps, contracts |-> plan.contracts] : plan \in WorkGraphs}
KeptLists == [Subtasks -> SUBSET Classes]
Offers ==
  [state : {"idle", "asked", "authorized", "deferred", "scheduled", "applied", "over"},
   source : {"none", "initial", "replan"}, revision : Nat,
   plan : PlanParts \cup {<<>>}, lists : KeptLists \cup {<<>>}, recorded : BOOLEAN]

AdmissionTyped ==
  /\ proposed \in [Ids -> Offers]
  /\ graph.revision \in Nat
  /\ progress \in [Subtasks -> Progress] /\ tried \in [Subtasks -> Seq(Classes)]
  /\ evidence \subseteq finished /\ finished \subseteq Nat \X Subtasks
  /\ classHealth \in [Classes -> {"healthy", "error"}]
  /\ streak \in [Classes -> 0 .. Threshold]
  /\ cooled \in [Classes -> BOOLEAN] /\ probing \in [Classes -> BOOLEAN]
  /\ closing.revision \in Nat /\ closing.nodes \subseteq Subtasks
  /\ mishaps \in 0 .. MaxMishaps

\* A plan with its lists as the Kernel lets it through: its structure holds with
\* the lists that are left, and what is left was on the list of the contract.
Whole(plan) == \A n \in Subtasks : Routed(plan.contracts[n])
Admitted(plan, lists) ==
  /\ plan \in PlanParts /\ lists \in KeptLists
  /\ Whole(plan) /\ ValidStructure(plan, lists)
  /\ \A n \in Subtasks : lists[n] # {} /\ lists[n] \subseteq ToSet(plan.contracts[n].list)

\* What is applied later, by the session or by a recovered class, was let through.
OfferIsAdmitted(p) ==
  /\ p.state \in {"authorized", "scheduled", "applied"} => Admitted(p.plan, p.lists)
  /\ p.state = "deferred" => p.plan \in PlanParts /\ Whole(p.plan)
OffersAreAdmitted == \A i \in Ids : OfferIsAdmitted(proposed[i])

\* The rows are an admitted plan; without any, nothing has started.
GraphIsAdmitted ==
  \/ /\ graph = NoGraph
     /\ \A n \in Subtasks : progress[n] = "none"
  \/ /\ graph # NoGraph
     /\ Admitted([deps |-> graph.needs, contracts |-> graph.contracts], graph.lists)
     /\ \A n \in Subtasks : progress[n] # "none"

\* Results belong to the active revision or an earlier one, and what is done in
\* the active one is among them.
ResultsAreDated ==
  /\ \A f \in finished : f[1] <= graph.revision
  /\ \A n \in Subtasks : progress[n] = "done" => << graph.revision, n >> \in finished

\* Who depends on a cancelled Subtask is cancelled, and so will it be when a
\* cancellation that was decided on the active revision is applied.
CancelledDownwards ==
  /\ \A n \in Subtasks : progress[n] = "cancelled" =>
       \A m \in Children(graph.needs, n) : progress[m] = "cancelled"
  /\ closing.revision <= graph.revision /\ (graph = NoGraph => closing.nodes = {})
  /\ closing.revision = graph.revision => Closed(graph.needs, closing.nodes)
  /\ \A n \in closing.nodes : closing.expected[n] \notin {"done", "cancelled"}

TriedWhereAdmitted ==
  \A n \in Subtasks :
    /\ progress[n] = "running" => tried[n] # <<>>
    /\ tried[n] # <<>> => ToSet(tried[n]) \subseteq graph.lists[n]

AdmissionInv ==
  /\ AdmissionTyped /\ OffersAreAdmitted /\ GraphIsAdmitted /\ InDependencyOrder
  /\ ResultsAreKept /\ ResultsAreDated /\ CancelledDownwards /\ TriedWhereAdmitted
-----------------------------------------------------------------------------
\* The least position of a list that holds what is left of it.
LEMMA FirstIsKept ==
  ASSUME NEW list \in Seq(Classes), NEW kept, kept \subseteq ToSet(list), kept # {}
  PROVE  First(list, kept) \in kept
  <1> DEFINE positions == {k \in DOMAIN list : list[k] \in kept}
  <1>1. positions \in SUBSET Nat
    BY LenProperties
  <1>2. positions # {}
    BY DEF ToSet
  <1>3. Min(positions) \in positions
    BY <1>1, <1>2, FirstIs DEF Min
  <1> QED BY <1>3 DEF First

LEMMA DownstreamIs ==
  ASSUME NEW deps, NEW T \in SUBSET Subtasks
  PROVE  /\ Downstream(deps, T) \in SUBSET Subtasks
         /\ T \subseteq Downstream(deps, T)
         /\ Closed(deps, Downstream(deps, T))
         /\ \A C \in SUBSET Subtasks : T \subseteq C /\ Closed(deps, C) => Downstream(deps, T) \subseteq C
  <1>1. /\ Downstream(deps, T) \in SUBSET Subtasks
        /\ T \subseteq Downstream(deps, T)
        /\ \A C \in SUBSET Subtasks : T \subseteq C /\ Closed(deps, C) => Downstream(deps, T) \subseteq C
    BY DEF Downstream
  <1>2. Closed(deps, Downstream(deps, T))
    <2> SUFFICES ASSUME NEW n \in Downstream(deps, T), NEW m \in Children(deps, n)
                 PROVE  m \in Downstream(deps, T)
      BY DEF Closed
    <2>1. m \in Subtasks
      BY DEF Children
    <2>2. ASSUME NEW C \in SUBSET Subtasks, T \subseteq C, Closed(deps, C)
          PROVE  m \in C
      BY <1>1, <2>2 DEF Closed
    <2> QED BY <2>1, <2>2 DEF Downstream
  <1> QED BY <1>1, <1>2

\* Whoever depends on a node is above it: what is above the dependent is above
\* the node, which is not above itself.
LEMMA DependentsAreAbove ==
  ASSUME NEW deps, Acyclic(deps), NEW n \in Subtasks, NEW m \in Subtasks, m \in deps[n]
  PROVE  /\ Downstream(deps, Children(deps, n)) \subseteq Downstream(deps, Children(deps, m))
         /\ n \in Downstream(deps, Children(deps, m))
         /\ n \notin Downstream(deps, Children(deps, n))
  <1>1. \A k \in Subtasks : Children(deps, k) \in SUBSET Subtasks
    BY DEF Children
  <1>2. n \in Children(deps, m)
    BY DEF Children
  <1>3. n \in Downstream(deps, Children(deps, m))
    BY <1>1, <1>2, DownstreamIs
  <1>4. Children(deps, n) \subseteq Downstream(deps, Children(deps, m))
    BY <1>1, <1>3, DownstreamIs DEF Closed
  <1>5. /\ Closed(deps, Downstream(deps, Children(deps, m)))
        /\ Downstream(deps, Children(deps, m)) \in SUBSET Subtasks
    BY <1>1, DownstreamIs
  <1>6. Downstream(deps, Children(deps, n)) \subseteq Downstream(deps, Children(deps, m))
    BY <1>1, <1>4, <1>5, DownstreamIs
  <1> QED BY <1>3, <1>6 DEF Acyclic

\* In an acyclic graph some node of every set depends on none of it.
LEMMA SomeoneIsFirst ==
  ASSUME NEW deps, Acyclic(deps), NEW R \in SUBSET Subtasks, R # {}
  PROVE  \E n \in R : deps[n] \cap R = {}
  <1> DEFINE Beside(n) == Subtasks \ Downstream(deps, Children(deps, n))
             Besides == {Beside(n) : n \in R}
  <1>1. IsWellFoundedOn(StrictSubsetOrdering(Subtasks), SUBSET Subtasks)
    BY FS_StrictSubsetOrderingWellFounded, FS_FiniteSubsetsOfFinite, AdmissionAssumption
  <1>2. Besides \subseteq SUBSET Subtasks /\ Besides # {}
    OBVIOUS
  <1>3. PICK B \in Besides : \A C \in Besides : << C, B >> \notin StrictSubsetOrdering(Subtasks)
    <2> HIDE DEF Besides
    <2> QED BY <1>1, <1>2, WFMin
  <1>4. PICK n \in R : B = Beside(n)
    BY <1>3
  <1>5. ASSUME NEW m \in R, m \in deps[n]
        PROVE  FALSE
    <2>1. /\ Downstream(deps, Children(deps, n)) \subseteq Downstream(deps, Children(deps, m))
          /\ n \in Downstream(deps, Children(deps, m))
          /\ n \notin Downstream(deps, Children(deps, n))
      BY <1>5, DependentsAreAbove
    <2>2. Beside(m) \subseteq B /\ Beside(m) # B /\ Beside(m) \in SUBSET Subtasks /\ B \in SUBSET Subtasks
      BY <1>4, <2>1
    <2>3. << Beside(m), B >> \in StrictSubsetOrdering(Subtasks)
      BY <2>2 DEF StrictSubsetOrdering
    <2> QED BY <1>3, <2>3
  <1> QED BY <1>5

-----------------------------------------------------------------------------
\* How the parts of the invariant follow from what an action does to the state.

LEMMA NothingRuns ==
  ASSUME AdmissionInv
  PROVE  /\ graph.revision \in Nat
         /\ Results = {graph.revision} \X {n \in Subtasks : progress[n] = "done"}
         /\ Results \subseteq finished
  <1>1. \A n \in Subtasks : progress[n] = "done" => << graph.revision, n >> \in finished
    BY DEF AdmissionInv, ResultsAreDated
  <1>2. Results = {graph.revision} \X {n \in Subtasks : progress[n] = "done"}
    BY DEF Results, Done
  <1> QED BY <1>1, <1>2 DEF AdmissionInv, AdmissionTyped

\* A proposal takes its next state.
LEMMA OfferKeeps ==
  ASSUME AdmissionInv, NEW i \in Ids, NEW r \in Offers, OfferIsAdmitted(r),
         proposed' = [proposed EXCEPT ![i] = r]
  PROVE  proposed' \in [Ids -> Offers] /\ OffersAreAdmitted'
  <1>1. proposed \in [Ids -> Offers] /\ \A j \in Ids : OfferIsAdmitted(proposed[j])
    BY DEF AdmissionInv, AdmissionTyped, OffersAreAdmitted
  <1>2. proposed' \in [Ids -> Offers] /\ \A j \in Ids : proposed'[j] \in {r, proposed[j]}
    BY <1>1
  <1> QED BY <1>1, <1>2 DEF OffersAreAdmitted

\* The rows and the Subtasks stay as they are; results may become evidence.
LEMMA WorkKeeps ==
  ASSUME AdmissionInv, UNCHANGED << graph, progress, tried, finished >>,
         evidence' = evidence \/ evidence' = evidence \cup Results,
         closing' = closing
  PROVE  /\ evidence' \subseteq finished'
         /\ GraphIsAdmitted' /\ InDependencyOrder' /\ ResultsAreKept'
         /\ ResultsAreDated' /\ CancelledDownwards' /\ TriedWhereAdmitted'
  <1>1. evidence' \subseteq finished'
    BY NothingRuns DEF AdmissionInv, AdmissionTyped
  <1>2. GraphIsAdmitted'
    BY DEF AdmissionInv, GraphIsAdmitted
  <1>3. InDependencyOrder'
    BY DEF AdmissionInv, InDependencyOrder, DependenciesDone
  <1>4. ResultsAreKept'
    BY <1>1 DEF AdmissionInv, ResultsAreKept
  <1>5. ResultsAreDated'
    BY DEF AdmissionInv, ResultsAreDated
  <1>6. CancelledDownwards'
    BY DEF AdmissionInv, CancelledDownwards, Children, Closed
  <1>7. TriedWhereAdmitted'
    BY DEF AdmissionInv, TriedWhereAdmitted
  <1> QED BY <1>1, <1>2, <1>3, <1>4, <1>5, <1>6, <1>7

\* An admitted plan becomes the next revision.
LEMMA ReplaceKeeps ==
  ASSUME AdmissionInv, NEW plan, NEW lists, Admitted(plan, lists),
         graph' = [revision |-> graph.revision + 1, needs |-> plan.deps,
                   contracts |-> plan.contracts, lists |-> lists],
         progress' = [n \in Subtasks |-> "ready"], tried' = [n \in Subtasks |-> <<>>],
         finished' = finished, closing' = closing,
         evidence' = evidence \/ evidence' = evidence \cup Results
  PROVE  /\ graph'.revision \in Nat /\ progress' \in [Subtasks -> Progress]
         /\ tried' \in [Subtasks -> Seq(Classes)] /\ evidence' \subseteq finished'
         /\ GraphIsAdmitted' /\ InDependencyOrder' /\ ResultsAreKept'
         /\ ResultsAreDated' /\ CancelledDownwards' /\ TriedWhereAdmitted'
  <1>1. /\ graph.revision \in Nat /\ closing.revision \in Nat
        /\ evidence' \subseteq finished
        /\ finished \subseteq Nat \X Subtasks
        /\ \A f \in finished : f[1] <= graph.revision
        /\ closing.revision <= graph.revision
        /\ \A n \in closing.nodes : closing.expected[n] \notin {"done", "cancelled"}
    BY NothingRuns DEF AdmissionInv, AdmissionTyped, ResultsAreDated, CancelledDownwards
  <1>2. graph'.revision = graph.revision + 1 /\ graph'.needs = plan.deps
        /\ graph'.contracts = plan.contracts /\ graph'.lists = lists
    OBVIOUS
  <1>3. \A n \in Subtasks : progress'[n] = "ready" /\ tried'[n] = <<>>
    OBVIOUS
  <1>4. graph'.revision \in Nat /\ progress' \in [Subtasks -> Progress]
    BY <1>1, <1>2 DEF Progress
  <1>5. tried' \in [Subtasks -> Seq(Classes)] /\ evidence' \subseteq finished'
    BY <1>1
  <1>6. GraphIsAdmitted'
    <2>1. graph' # NoGraph
      BY <1>1, <1>2 DEF NoGraph
    <2>2. [deps |-> plan.deps, contracts |-> plan.contracts] = plan
      BY DEF Admitted, PlanParts
    <2> QED BY <1>2, <1>3, <2>1, <2>2 DEF GraphIsAdmitted, NoGraph
  <1>7. InDependencyOrder'
    BY <1>3 DEF InDependencyOrder
  <1>8. \A n \in Subtasks : << graph'.revision, n >> \notin finished'
    BY <1>1, <1>2
  <1>9. ResultsAreKept' /\ ResultsAreDated'
    <2>1. \A f \in finished : f[1] \in Nat
      BY <1>1
    <2>2. \A f \in finished : f[1] <= graph.revision + 1
      BY <1>1, <2>1
    <2>3. ResultsAreKept'
      BY <1>5, <1>8 DEF ResultsAreKept
    <2>4. ResultsAreDated'
      BY <1>2, <1>3, <2>2 DEF ResultsAreDated
    <2> QED BY <2>3, <2>4
  <1>10. CancelledDownwards'
    <2>1. /\ closing.revision <= graph'.revision /\ closing.revision # graph'.revision
          /\ graph' # NoGraph
      BY <1>1, <1>2 DEF NoGraph
    <2> QED BY <1>1, <1>3, <2>1 DEF CancelledDownwards
  <1>11. TriedWhereAdmitted'
    BY <1>3 DEF TriedWhereAdmitted
  <1> QED BY <1>4, <1>5, <1>6, <1>7, <1>9, <1>10, <1>11

\* The status of some Subtasks changes: none becomes or was done but the one
\* that has succeeded, none is uncancelled, and none comes out of nothing.
LEMMA ProgressKeeps ==
  ASSUME AdmissionInv, graph' = graph, evidence' = evidence,
         NEW n,
         progress' \in [Subtasks -> Progress],
         \A m \in Subtasks :
           /\ (progress[m] = "none") <=> (progress'[m] = "none")
           /\ progress[m] = "done" => progress'[m] = "done"
           /\ progress'[m] = "done" => progress[m] = "done" \/ m = n
           /\ progress'[m] \in {"running", "done"} =>
                progress[m] \in {"running", "done"} \/ DependenciesDone(m),
         n \in Subtasks => progress'[n] = "done",
         finished' = finished \cup ({graph.revision} \X ({n} \cap Subtasks))
  PROVE  /\ finished' \subseteq Nat \X Subtasks /\ evidence' \subseteq finished'
         /\ GraphIsAdmitted' /\ InDependencyOrder' /\ ResultsAreKept' /\ ResultsAreDated'
  <1>1. /\ graph.revision \in Nat /\ finished \subseteq Nat \X Subtasks
        /\ evidence \subseteq finished
    BY DEF AdmissionInv, AdmissionTyped
  <1>2. finished' \subseteq Nat \X Subtasks /\ evidence' \subseteq finished'
    BY <1>1
  <1>3. GraphIsAdmitted'
    <2>1. CASE graph = NoGraph
      BY <2>1 DEF AdmissionInv, GraphIsAdmitted
    <2>2. CASE graph # NoGraph
      BY <2>2 DEF AdmissionInv, GraphIsAdmitted
    <2> QED BY <2>1, <2>2
  <1>4. InDependencyOrder'
    <2> SUFFICES ASSUME NEW m \in Subtasks, progress'[m] \in {"running", "done"}
                 PROVE  DependenciesDone(m)'
      BY DEF InDependencyOrder
    <2>1. DependenciesDone(m)
      BY DEF AdmissionInv, InDependencyOrder
    <2>2. graph # NoGraph
      BY DEF AdmissionInv, GraphIsAdmitted
    <2>3. graph.needs[m] \subseteq Subtasks
      BY <2>2 DEF AdmissionInv, GraphIsAdmitted, Admitted, ValidStructure
    <2> QED BY <2>1, <2>3 DEF DependenciesDone
  <1>5. ResultsAreKept'
    <2> SUFFICES ASSUME NEW m \in Subtasks, << graph.revision, m >> \in finished'
                 PROVE  progress'[m] = "done"
      BY <1>2 DEF ResultsAreKept
    <2>1. CASE << graph.revision, m >> \in finished
      BY <2>1 DEF AdmissionInv, ResultsAreKept
    <2>2. CASE m = n
      BY <2>2
    <2> QED BY <2>1, <2>2
  <1>6. ResultsAreDated'
    <2>1. \A f \in finished' : f \in finished \/ f[1] = graph.revision
      OBVIOUS
    <2>2. \A f \in finished' : f[1] <= graph.revision
      BY <1>1, <2>1 DEF AdmissionInv, ResultsAreDated
    <2>3. \A m \in Subtasks : progress'[m] = "done" => << graph.revision, m >> \in finished'
      BY DEF AdmissionInv, ResultsAreDated
    <2> QED BY <2>2, <2>3 DEF ResultsAreDated
  <1> QED BY <1>2, <1>3, <1>4, <1>5, <1>6

\* Nobody is cancelled or uncancelled.
LEMMA NobodyCancelled ==
  ASSUME AdmissionInv, graph' = graph, closing' = closing,
         \A m \in Subtasks : (progress[m] = "cancelled") <=> (progress'[m] = "cancelled")
  PROVE  CancelledDownwards'
  <1>1. \A m \in Subtasks : Children(graph.needs, m) \subseteq Subtasks
    BY DEF Children
  <1>2. \A m \in Subtasks : progress'[m] = "cancelled" =>
          \A k \in Children(graph.needs, m) : progress'[k] = "cancelled"
    BY <1>1 DEF AdmissionInv, CancelledDownwards
  <1> QED BY <1>2 DEF AdmissionInv, CancelledDownwards, Children, Closed

\* What is left of the list of an admitted Subtask has a first class.
LEMMA FirstOfIsKept ==
  ASSUME AdmissionInv, graph # NoGraph, NEW n \in Subtasks, NEW kept, kept # {},
         kept \subseteq graph.lists[n]
  PROVE  FirstOf(n, kept) \in kept /\ FirstOf(n, kept) \in Classes
  <1>1. /\ [deps |-> graph.needs, contracts |-> graph.contracts] \in PlanParts
        /\ graph.lists \in [Subtasks -> SUBSET Classes]
        /\ graph.lists[n] \subseteq ToSet(graph.contracts[n].list)
    BY DEF AdmissionInv, GraphIsAdmitted, Admitted, KeptLists
  <1>2. graph.contracts[n].list \in Seq(Classes)
    BY <1>1, AdmissionAssumption DEF PlanParts
  <1>3. First(graph.contracts[n].list, kept) \in kept
    BY <1>1, <1>2, FirstIsKept
  <1> QED BY <1>1, <1>3 DEF FirstOf

\* A Subtask is tried with one more class of its list.
LEMMA TriedNext ==
  ASSUME AdmissionInv, graph # NoGraph, NEW n \in Subtasks, NEW c \in Classes,
         c \in graph.lists[n]
  PROVE  /\ Append(tried[n], c) \in Seq(Classes) /\ Append(tried[n], c) # <<>>
         /\ ToSet(Append(tried[n], c)) \subseteq graph.lists[n]
  <1>1. tried[n] \in Seq(Classes) /\ (tried[n] # <<>> => ToSet(tried[n]) \subseteq graph.lists[n])
    BY DEF AdmissionInv, AdmissionTyped, TriedWhereAdmitted
  <1>2. Append(tried[n], c) \in Seq(Classes) /\ Append(tried[n], c) # <<>>
    BY <1>1, AppendProperties
  <1>3. \A k \in DOMAIN Append(tried[n], c) : Append(tried[n], c)[k] \in graph.lists[n]
    <2> SUFFICES ASSUME NEW k \in DOMAIN Append(tried[n], c)
                 PROVE  Append(tried[n], c)[k] \in graph.lists[n]
      OBVIOUS
    <2>1. Len(Append(tried[n], c)) = Len(tried[n]) + 1 /\ Len(tried[n]) \in Nat
      BY <1>1, AppendProperties, LenProperties
    <2>2. k \in 1 .. Len(tried[n]) + 1
      BY <1>2, <2>1, LenProperties
    <2>3. CASE k = Len(tried[n]) + 1
      BY <1>1, <2>3, AppendProperties
    <2>4. CASE k \in 1 .. Len(tried[n])
      <3>1. tried[n] # <<>> /\ tried[n][k] \in ToSet(tried[n])
        BY <1>1, <2>4, LenProperties DEF ToSet
      <3>2. Append(tried[n], c)[k] = tried[n][k]
        BY <1>1, <2>4, AppendProperties
      <3> QED BY <1>1, <3>1, <3>2
    <2> QED BY <2>1, <2>2, <2>3, <2>4
  <1> QED BY <1>2, <1>3 DEF ToSet

-----------------------------------------------------------------------------
\* The first state, and the steps of a proposal.

LEMMA NewOffer ==
  ASSUME NEW state \in {"idle", "asked", "over"}, NEW source \in {"none", "initial", "replan"},
         NEW revision \in Nat
  PROVE  Proposal(state, source, revision) \in Offers /\ OfferIsAdmitted(Proposal(state, source, revision))
  <1>1. Proposal(state, source, revision) \in Offers
    BY DEF Proposal, Offers
  <1> QED BY <1>1 DEF Proposal, OfferIsAdmitted

LEMMA FirstAdmission == InitAdmission => AdmissionInv
  <1> SUFFICES ASSUME InitAdmission PROVE AdmissionInv
    OBVIOUS
  <1>1. NoProposal \in Offers /\ OfferIsAdmitted(NoProposal)
    BY NewOffer DEF NoProposal
  <1>2. OffersAreAdmitted /\ proposed \in [Ids -> Offers]
    BY <1>1 DEF InitAdmission, OffersAreAdmitted
  <1>3. graph.revision = 0 /\ closing.revision = 0 /\ closing.nodes = {}
    BY DEF InitAdmission, NoGraph, NoClosing
  <1>4. AdmissionTyped
    BY <1>2, <1>3, AdmissionAssumption DEF InitAdmission, AdmissionTyped, Progress
  <1>5. GraphIsAdmitted
    BY DEF InitAdmission, GraphIsAdmitted
  <1>6. InDependencyOrder /\ ResultsAreKept /\ ResultsAreDated
    BY DEF InitAdmission, InDependencyOrder, ResultsAreKept, ResultsAreDated
  <1>7. CancelledDownwards
    BY <1>3 DEF InitAdmission, CancelledDownwards, Closed
  <1>8. TriedWhereAdmitted
    BY DEF InitAdmission, TriedWhereAdmitted
  <1> QED BY <1>2, <1>4, <1>5, <1>6, <1>7, <1>8 DEF AdmissionInv

\* A step that only moves a proposal on.
LEMMA OfferStepKeeps ==
  ASSUME AdmissionInv, NEW i \in Ids, NEW r \in Offers, OfferIsAdmitted(r),
         proposed' = [proposed EXCEPT ![i] = r],
         UNCHANGED << graph, progress, tried, finished, availability, closing, mishaps >>,
         evidence' = evidence \/ evidence' = evidence \cup Results
  PROVE  AdmissionInv'
  <1>1. proposed' \in [Ids -> Offers] /\ OffersAreAdmitted'
    BY OfferKeeps
  <1>2. /\ evidence' \subseteq finished'
        /\ GraphIsAdmitted' /\ InDependencyOrder' /\ ResultsAreKept'
        /\ ResultsAreDated' /\ CancelledDownwards' /\ TriedWhereAdmitted'
    BY WorkKeeps
  <1>3. AdmissionTyped'
    BY <1>1, <1>2 DEF AdmissionInv, AdmissionTyped, availability
  <1> QED BY <1>1, <1>2, <1>3 DEF AdmissionInv

LEMMA AskFirstKeeps ==
  ASSUME AdmissionInv, NEW i \in Ids, AskFirst(i)
  PROVE  AdmissionInv'
  <1>1. Proposal("asked", "initial", 1) \in Offers /\ OfferIsAdmitted(Proposal("asked", "initial", 1))
    BY NewOffer
  <1>2. /\ proposed' = [proposed EXCEPT ![i] = Proposal("asked", "initial", 1)]
        /\ UNCHANGED << graph, progress, tried, finished, availability, closing, mishaps >>
        /\ evidence' = evidence
    BY DEF AskFirst, work
  <1> QED BY <1>1, <1>2, OfferStepKeeps

LEMMA AskReplanKeeps ==
  ASSUME AdmissionInv, NEW i \in Ids, AskReplan(i)
  PROVE  AdmissionInv'
  <1>1. graph.revision + 1 \in Nat
    BY NothingRuns
  <1>2. /\ Proposal("asked", "replan", graph.revision + 1) \in Offers
        /\ OfferIsAdmitted(Proposal("asked", "replan", graph.revision + 1))
    BY <1>1, NewOffer
  <1>3. /\ proposed' = [proposed EXCEPT ![i] = Proposal("asked", "replan", graph.revision + 1)]
        /\ UNCHANGED << graph, progress, tried, finished, availability, closing, mishaps >>
        /\ evidence' = evidence \cup Results
    BY DEF AskReplan
  <1> QED BY <1>2, <1>3, OfferStepKeeps

LEMMA OverIsFine ==
  Spent \in Offers /\ OfferIsAdmitted(Spent)
  BY NewOffer DEF Spent

\* The state of a proposal changes within an admitted plan's way to its rows.
LEMMA MoveIsFine ==
  ASSUME AdmissionInv, NEW i \in Ids, NEW state \in {"authorized", "scheduled", "applied"},
         proposed[i].state \in {"authorized", "scheduled", "applied"}
  PROVE  /\ [proposed[i] EXCEPT !.state = state] \in Offers
         /\ OfferIsAdmitted([proposed[i] EXCEPT !.state = state])
  <1>1. PICK p \in Offers : p = proposed[i]
    BY DEF AdmissionInv, AdmissionTyped
  <1>2. Admitted(p.plan, p.lists)
    BY <1>1 DEF AdmissionInv, OffersAreAdmitted, OfferIsAdmitted
  <1>3. p.state \in {"authorized", "scheduled", "applied"}
    BY <1>1
  <1>4. [p EXCEPT !.state = state] \in Offers
    BY DEF Offers
  <1>5. /\ [p EXCEPT !.state = state].state = state /\ [p EXCEPT !.state = state].plan = p.plan
        /\ [p EXCEPT !.state = state].lists = p.lists
    BY DEF Offers
  <1>6. OfferIsAdmitted([p EXCEPT !.state = state])
    BY <1>2, <1>5 DEF OfferIsAdmitted
  <1> QED BY <1>1, <1>4, <1>6

LEMMA ScheduleRunKeeps ==
  ASSUME AdmissionInv, NEW i \in Ids, ScheduleRun(i)
  PROVE  AdmissionInv'
  <1>1. /\ [proposed[i] EXCEPT !.state = "scheduled"] \in Offers
        /\ OfferIsAdmitted([proposed[i] EXCEPT !.state = "scheduled"])
    BY MoveIsFine DEF ScheduleRun
  <1>2. /\ proposed' = [proposed EXCEPT ![i] = [proposed[i] EXCEPT !.state = "scheduled"]]
        /\ UNCHANGED << graph, progress, tried, finished, availability, closing, mishaps >>
        /\ evidence' = evidence
    BY DEF ScheduleRun, Set, work
  <1> QED BY <1>1, <1>2, OfferStepKeeps

LEMMA RecordApplicationKeeps ==
  ASSUME AdmissionInv, NEW i \in Ids, RecordApplication(i)
  PROVE  AdmissionInv'
  <1>1. /\ UNCHANGED << graph, progress, tried, finished, availability, closing, mishaps >>
        /\ evidence' = evidence
    BY DEF RecordApplication, work
  <1>2. CASE proposed' = [proposed EXCEPT ![i] = Spent]
    BY <1>1, <1>2, OverIsFine, OfferStepKeeps
  <1>3. CASE proposed' = [proposed EXCEPT ![i].recorded = TRUE]
    <2>1. PICK p \in Offers : p = proposed[i]
      BY DEF AdmissionInv, AdmissionTyped
    <2>2. [p EXCEPT !.recorded = TRUE] \in Offers
      BY DEF Offers
    <2>3. /\ [p EXCEPT !.recorded = TRUE].state = p.state /\ [p EXCEPT !.recorded = TRUE].plan = p.plan
          /\ [p EXCEPT !.recorded = TRUE].lists = p.lists
      BY DEF Offers
    <2>4. OfferIsAdmitted([p EXCEPT !.recorded = TRUE])
      BY <2>1, <2>3 DEF AdmissionInv, OffersAreAdmitted, OfferIsAdmitted
    <2>5. proposed' = [proposed EXCEPT ![i] = [p EXCEPT !.recorded = TRUE]]
      BY <1>3, <2>1
    <2> QED BY <1>1, <2>2, <2>4, <2>5, OfferStepKeeps
  <1>4. \/ proposed' = [proposed EXCEPT ![i] = Spent]
        \/ proposed' = [proposed EXCEPT ![i].recorded = TRUE]
    BY DEF RecordApplication, End
  <1> QED BY <1>2, <1>3, <1>4

\* The lists that are left of a plan the Planner may propose.
LEMMA FilteredIs ==
  ASSUME NEW plan \in WorkGraphs \cup PlanParts, NEW out
  PROVE  /\ Filtered(plan, out) \in KeptLists
         /\ \A n \in Subtasks : Filtered(plan, out)[n] \subseteq ToSet(plan.contracts[n].list)
  <1>1. \A n \in Subtasks : plan.contracts[n].list \in Seq(Classes)
    BY AdmissionAssumption DEF PlanParts
  <1>2. \A n \in Subtasks : ToSet(plan.contracts[n].list) \subseteq Classes
    BY <1>1, LenProperties DEF ToSet
  <1> QED BY <1>2 DEF Filtered, KeptLists

LEMMA DecidedIsFine ==
  ASSUME AdmissionInv, NEW i \in Ids, NEW plan \in WorkGraphs, NEW state \in {"authorized", "deferred"},
         NEW lists \in KeptLists \cup {<<>>}, Decided(i, state, plan, lists),
         \A n \in Subtasks : Routed(plan.contracts[n]),
         state = "authorized" =>
            /\ lists \in KeptLists /\ ValidStructure(plan, lists)
            /\ \A n \in Subtasks : lists[n] # {} /\ lists[n] \subseteq ToSet(plan.contracts[n].list)
  PROVE  \E r \in Offers : OfferIsAdmitted(r) /\ proposed' = [proposed EXCEPT ![i] = r]
  <1> DEFINE parts == [deps |-> plan.deps, contracts |-> plan.contracts]
             r == [state |-> state, source |-> proposed[i].source, revision |-> proposed[i].revision,
                   plan |-> parts, lists |-> lists, recorded |-> FALSE]
  <1>1. parts \in PlanParts /\ parts.deps = plan.deps /\ parts.contracts = plan.contracts
    BY DEF PlanParts
  <1>2. proposed \in [Ids -> Offers]
    BY DEF AdmissionInv, AdmissionTyped
  <1>3. proposed[i].source \in {"none", "initial", "replan"} /\ proposed[i].revision \in Nat
    BY <1>2 DEF Offers
  <1>4. proposed' = [proposed EXCEPT ![i] = r]
    BY <1>2 DEF Decided
  <1>5. r \in Offers /\ r.state = state /\ r.plan = parts /\ r.lists = lists
    <2> HIDE DEF parts
    <2> QED BY <1>1, <1>3 DEF Offers
  <1>6. Whole(parts)
    BY DEF Whole
  <1>7. ValidStructure(parts, lists) <=> ValidStructure(plan, lists)
    BY DEF ValidStructure, MergeableChain
  <1>8. state = "authorized" => Admitted(parts, lists)
    <2> HIDE DEF parts
    <2> QED BY <1>1, <1>6, <1>7 DEF Admitted
  <1>9. OfferIsAdmitted(r)
    <2> HIDE DEF parts, r
    <2> QED BY <1>1, <1>5, <1>6, <1>8 DEF OfferIsAdmitted
  <1> HIDE DEF r
  <1> QED BY <1>4, <1>5, <1>9

LEMMA DecidePlanKeeps ==
  ASSUME AdmissionInv, NEW i \in Ids, NEW plan \in WorkGraphs, NEW other \in BOOLEAN,
         DecidePlan(i, plan, other)
  PROVE  AdmissionInv'
  <1>1. /\ UNCHANGED << graph, progress, tried, finished, availability, closing, mishaps >>
        /\ evidence' = evidence
    BY DEF DecidePlan, work
  <1>2. CASE End(i)
    BY <1>1, <1>2, OverIsFine, OfferStepKeeps DEF End
  <1>3. CASE ValidPlan(plan) /\ Admit(i, plan)
    <2> DEFINE lists == Filtered(plan, Unavailable(classHealth))
    <2>1. /\ lists \in KeptLists
          /\ \A n \in Subtasks : lists[n] \subseteq ToSet(plan.contracts[n].list)
      BY FilteredIs
    <2>2. \A n \in Subtasks : Routed(plan.contracts[n])
      BY <1>3 DEF ValidPlan
    <2>3. \/ Decided(i, "deferred", plan, <<>>)
          \/ End(i)
          \/ /\ \A n \in Subtasks : lists[n] # {}
             /\ ValidStructure(plan, lists) /\ Decided(i, "authorized", plan, lists)
      BY <1>3 DEF Admit, Authorized, Deferred
    <2> HIDE DEF lists
    <2>4. CASE Decided(i, "deferred", plan, <<>>)
      <3>1. \E r \in Offers : OfferIsAdmitted(r) /\ proposed' = [proposed EXCEPT ![i] = r]
        BY <2>2, <2>4, DecidedIsFine
      <3> QED BY <1>1, <3>1, OfferStepKeeps
    <2>5. CASE /\ \A n \in Subtasks : lists[n] # {}
               /\ ValidStructure(plan, lists) /\ Decided(i, "authorized", plan, lists)
      <3>1. \E r \in Offers : OfferIsAdmitted(r) /\ proposed' = [proposed EXCEPT ![i] = r]
        BY <2>1, <2>2, <2>5, DecidedIsFine
      <3> QED BY <1>1, <3>1, OfferStepKeeps
    <2> QED BY <1>2, <2>3, <2>4, <2>5
  <1>4. End(i) \/ (ValidPlan(plan) /\ Admit(i, plan))
    BY DEF DecidePlan
  <1> QED BY <1>2, <1>3, <1>4

-----------------------------------------------------------------------------
\* The rows, and the Subtasks.

LEMMA ActivateKeeps ==
  ASSUME AdmissionInv, NEW i \in Ids, Activate(i)
  PROVE  AdmissionInv'
  <1>1. UNCHANGED << finished, availability, closing, mishaps >>
    BY DEF Activate
  <1>2. PICK r \in Offers : OfferIsAdmitted(r) /\ proposed' = [proposed EXCEPT ![i] = r]
    <2>1. CASE proposed' = [proposed EXCEPT ![i] = Spent]
      BY <2>1, OverIsFine
    <2>2. CASE proposed' = [proposed EXCEPT ![i].state = "applied"]
      <3>1. /\ [proposed[i] EXCEPT !.state = "applied"] \in Offers
            /\ OfferIsAdmitted([proposed[i] EXCEPT !.state = "applied"])
        BY MoveIsFine DEF Activate
      <3>2. proposed' = [proposed EXCEPT ![i] = [proposed[i] EXCEPT !.state = "applied"]]
        BY <2>2
      <3> QED BY <3>1, <3>2
    <2>3. \/ proposed' = [proposed EXCEPT ![i] = Spent]
          \/ proposed' = [proposed EXCEPT ![i].state = "applied"]
      BY DEF Activate, End, Set
    <2> QED BY <2>1, <2>2, <2>3
  <1>3. CASE UNCHANGED << graph, progress, tried, evidence >>
    BY <1>1, <1>2, <1>3, OfferStepKeeps
  <1>4. CASE Activates(i) /\ Replace(i)
    <2>1. PICK p \in Offers : p = proposed[i]
      BY DEF AdmissionInv, AdmissionTyped
    <2>2. Admitted(p.plan, p.lists)
      BY <2>1 DEF AdmissionInv, OffersAreAdmitted, OfferIsAdmitted, Activate
    <2>3. p.revision = graph.revision + 1
      BY <1>4, <2>1 DEF Activates, Fits, NoGraph
    <2>4. graph' = [revision |-> graph.revision + 1, needs |-> p.plan.deps,
                    contracts |-> p.plan.contracts, lists |-> p.lists]
      BY <1>4, <2>1, <2>3 DEF Replace, Rows
    <2>5. /\ evidence' = evidence \/ evidence' = evidence \cup Results
          /\ progress' = [n \in Subtasks |-> "ready"] /\ tried' = [n \in Subtasks |-> <<>>]
      BY <1>4 DEF Replace
    <2>6. /\ graph'.revision \in Nat /\ progress' \in [Subtasks -> Progress]
          /\ tried' \in [Subtasks -> Seq(Classes)] /\ evidence' \subseteq finished'
          /\ GraphIsAdmitted' /\ InDependencyOrder' /\ ResultsAreKept'
          /\ ResultsAreDated' /\ CancelledDownwards' /\ TriedWhereAdmitted'
      BY <1>1, <2>2, <2>4, <2>5, ReplaceKeeps
    <2>7. proposed' \in [Ids -> Offers] /\ OffersAreAdmitted'
      BY <1>2, OfferKeeps
    <2>8. AdmissionTyped'
      BY <1>1, <2>6, <2>7 DEF AdmissionInv, AdmissionTyped, availability
    <2> QED BY <2>6, <2>7, <2>8 DEF AdmissionInv
  <1>5. UNCHANGED << graph, progress, tried, evidence >> \/ (Activates(i) /\ Replace(i))
    BY DEF Activate
  <1> QED BY <1>3, <1>4, <1>5

LEMMA DispatchBatchKeeps ==
  ASSUME AdmissionInv, NEW batch \in SUBSET Subtasks, DispatchBatch(batch)
  PROVE  AdmissionInv'
  <1> DEFINE started == {n \in batch : Usable(n) # {}}
  <1>1. /\ UNCHANGED << proposed, graph, evidence, finished, availability, closing, mishaps >>
        /\ started \subseteq Frontier
        /\ progress' = [n \in Subtasks |-> IF n \in started THEN "running" ELSE progress[n]]
        /\ tried' = [n \in Subtasks |->
             IF n \in started THEN Append(tried[n], FirstOf(n, Usable(n))) ELSE tried[n]]
    BY DEF DispatchBatch
  <1>2. \A n \in started : n \in Subtasks /\ progress[n] = "ready" /\ DependenciesDone(n)
                             /\ graph # NoGraph /\ Usable(n) # {}
    BY <1>1 DEF Frontier
  <1> HIDE DEF started
  <1>3. progress \in [Subtasks -> Progress] /\ tried \in [Subtasks -> Seq(Classes)]
    BY DEF AdmissionInv, AdmissionTyped
  <1>4. progress' \in [Subtasks -> Progress]
    BY <1>1, <1>3 DEF Progress
  <1>5. \A m \in Subtasks :
          /\ (progress[m] = "none") <=> (progress'[m] = "none")
          /\ (progress[m] = "cancelled") <=> (progress'[m] = "cancelled")
          /\ progress[m] = "done" <=> progress'[m] = "done"
          /\ progress'[m] \in {"running", "done"} =>
               progress[m] \in {"running", "done"} \/ DependenciesDone(m)
    BY <1>1, <1>2
  <1>6. PICK x : x \notin Subtasks
    <2>1. (CHOOSE y : y \notin Subtasks) \notin Subtasks
      BY NoSetContainsEverything
    <2> QED BY <2>1
  <1>7. finished' = finished \cup ({graph.revision} \X ({x} \cap Subtasks))
    BY <1>1, <1>6
  <1>8. GraphIsAdmitted' /\ InDependencyOrder' /\ ResultsAreKept' /\ ResultsAreDated'
    BY <1>1, <1>4, <1>5, <1>6, <1>7, ProgressKeeps
  <1>9. CancelledDownwards'
    BY <1>1, <1>5, NobodyCancelled
  <1>10. \A n \in started : /\ Append(tried[n], FirstOf(n, Usable(n))) \in Seq(Classes)
                            /\ Append(tried[n], FirstOf(n, Usable(n))) # <<>>
                            /\ ToSet(Append(tried[n], FirstOf(n, Usable(n)))) \subseteq graph.lists[n]
    <2> SUFFICES ASSUME NEW n \in started
                 PROVE  /\ Append(tried[n], FirstOf(n, Usable(n))) \in Seq(Classes)
                        /\ Append(tried[n], FirstOf(n, Usable(n))) # <<>>
                        /\ ToSet(Append(tried[n], FirstOf(n, Usable(n)))) \subseteq graph.lists[n]
      OBVIOUS
    <2>1. Usable(n) \subseteq graph.lists[n]
      BY DEF Usable
    <2>2. FirstOf(n, Usable(n)) \in Usable(n) /\ FirstOf(n, Usable(n)) \in Classes
      BY <1>2, <2>1, FirstOfIsKept
    <2> QED BY <1>2, <2>1, <2>2, TriedNext
  <1>11. tried' \in [Subtasks -> Seq(Classes)]
    BY <1>1, <1>3, <1>10
  <1>12. TriedWhereAdmitted'
    BY <1>1, <1>10 DEF AdmissionInv, TriedWhereAdmitted
  <1>13. AdmissionTyped'
    BY <1>1, <1>4, <1>11 DEF AdmissionInv, AdmissionTyped, availability
  <1>14. OffersAreAdmitted'
    BY <1>1 DEF AdmissionInv, OffersAreAdmitted
  <1> QED BY <1>8, <1>9, <1>12, <1>13, <1>14 DEF AdmissionInv

LEMMA SucceedKeeps ==
  ASSUME AdmissionInv, NEW n \in Subtasks, Succeed(n)
  PROVE  AdmissionInv'
  <1>1. /\ UNCHANGED << proposed, graph, evidence, probing, closing, mishaps >>
        /\ progress[n] = "running" /\ progress' = [progress EXCEPT ![n] = "done"]
        /\ finished' = finished \cup {<< graph.revision, n >>}
        /\ tried' = [tried EXCEPT ![n] = <<>>]
    BY DEF Succeed
  <1>2. /\ progress \in [Subtasks -> Progress] /\ tried \in [Subtasks -> Seq(Classes)]
        /\ classHealth \in [Classes -> {"healthy", "error"}]
        /\ streak \in [Classes -> 0 .. Threshold] /\ cooled \in [Classes -> BOOLEAN]
    BY DEF AdmissionInv, AdmissionTyped
  <1>3. progress' \in [Subtasks -> Progress]
    BY <1>1, <1>2 DEF Progress
  <1>4. \A m \in Subtasks :
          /\ (progress[m] = "none") <=> (progress'[m] = "none")
          /\ (progress[m] = "cancelled") <=> (progress'[m] = "cancelled")
          /\ progress[m] = "done" => progress'[m] = "done"
          /\ progress'[m] = "done" => progress[m] = "done" \/ m = n
          /\ progress'[m] \in {"running", "done"} => progress[m] \in {"running", "done"}
    BY <1>1, <1>2
  <1>5. progress'[n] = "done"
    BY <1>1, <1>2
  <1>6. finished' = finished \cup ({graph.revision} \X ({n} \cap Subtasks))
    BY <1>1
  <1>7. /\ finished' \subseteq Nat \X Subtasks /\ evidence' \subseteq finished'
        /\ GraphIsAdmitted' /\ InDependencyOrder' /\ ResultsAreKept' /\ ResultsAreDated'
    BY <1>1, <1>3, <1>4, <1>5, <1>6, ProgressKeeps
  <1>8. CancelledDownwards'
    BY <1>1, <1>4, NobodyCancelled
  <1>9. TriedWhereAdmitted'
    BY <1>1, <1>2 DEF AdmissionInv, TriedWhereAdmitted
  <1>10. tried' \in [Subtasks -> Seq(Classes)]
    BY <1>1, <1>2
  <1>11. /\ classHealth' \in [Classes -> {"healthy", "error"}]
         /\ streak' \in [Classes -> 0 .. Threshold] /\ cooled' \in [Classes -> BOOLEAN]
    <2>1. classHealth' \in [Classes -> {"healthy", "error"}] /\ cooled' \in [Classes -> BOOLEAN]
      BY <1>2 DEF Succeed
    <2>2. 0 \in 0 .. Threshold
      BY AdmissionAssumption
    <2>3. streak' = [streak EXCEPT ![Last(tried[n])] = 0]
      BY DEF Succeed
    <2> QED BY <1>2, <2>1, <2>2, <2>3, Zenon
  <1>12. AdmissionTyped'
    BY <1>1, <1>3, <1>7, <1>10, <1>11 DEF AdmissionInv, AdmissionTyped
  <1>13. OffersAreAdmitted'
    BY <1>1 DEF AdmissionInv, OffersAreAdmitted
  <1> QED BY <1>7, <1>8, <1>9, <1>12, <1>13 DEF AdmissionInv

\* The class a Subtask falls back on is one of its own.
LEMMA FallbackIsOwn ==
  ASSUME AdmissionInv, NEW n \in Subtasks, progress[n] = "running", NEW fault, NextClasses(n, fault) # {}
  PROVE  /\ FirstOf(n, NextClasses(n, fault)) \in Classes
         /\ FirstOf(n, NextClasses(n, fault)) \in graph.lists[n] /\ graph # NoGraph
  <1>1. graph # NoGraph
    BY DEF AdmissionInv, GraphIsAdmitted
  <1>2. tried[n] \in Seq(Classes) /\ tried[n] # <<>> /\ ToSet(tried[n]) \subseteq graph.lists[n]
    BY DEF AdmissionInv, AdmissionTyped, TriedWhereAdmitted
  <1>3. NextClasses(n, fault) \subseteq graph.lists[n]
    <2>1. CASE tried[n] = << FirstOf(n, graph.lists[n]) >>
      <3>1. tried[n][1] \in ToSet(tried[n])
        BY <1>2, <2>1, LenProperties DEF ToSet
      <3> QED BY <1>2, <2>1, <3>1 DEF NextClasses, Usable
    <2>2. CASE tried[n] # << FirstOf(n, graph.lists[n]) >>
      BY <2>2 DEF NextClasses, Usable
    <2> QED BY <2>1, <2>2
  <1>4. /\ FirstOf(n, NextClasses(n, fault)) \in NextClasses(n, fault)
        /\ FirstOf(n, NextClasses(n, fault)) \in Classes
    BY <1>1, <1>3, FirstOfIsKept
  <1> QED BY <1>1, <1>3, <1>4

LEMMA FailKeeps ==
  ASSUME AdmissionInv, NEW n \in Subtasks, NEW fault \in {"transient", "permanent", "attempt"},
         Fail(n, fault)
  PROVE  AdmissionInv'
  <1> DEFINE next == NextClasses(n, fault)
  <1>1. /\ UNCHANGED << proposed, graph, evidence, finished, probing, closing >>
        /\ mishaps < MaxMishaps /\ mishaps' = mishaps + 1 /\ progress[n] = "running"
        /\ progress' = [progress EXCEPT ![n] = IF next = {} THEN "blocked" ELSE @]
        /\ tried' = [tried EXCEPT ![n] = IF next = {} THEN <<>> ELSE Append(@, FirstOf(n, next))]
    BY DEF Fail
  <1>2. /\ progress \in [Subtasks -> Progress] /\ tried \in [Subtasks -> Seq(Classes)]
        /\ classHealth \in [Classes -> {"healthy", "error"}]
        /\ streak \in [Classes -> 0 .. Threshold] /\ cooled \in [Classes -> BOOLEAN]
        /\ mishaps \in 0 .. MaxMishaps
    BY DEF AdmissionInv, AdmissionTyped
  <1>3. next # {} => /\ Append(tried[n], FirstOf(n, next)) \in Seq(Classes)
                     /\ Append(tried[n], FirstOf(n, next)) # <<>>
                     /\ ToSet(Append(tried[n], FirstOf(n, next))) \subseteq graph.lists[n]
    <2> SUFFICES ASSUME next # {}
                 PROVE  /\ Append(tried[n], FirstOf(n, next)) \in Seq(Classes)
                        /\ Append(tried[n], FirstOf(n, next)) # <<>>
                        /\ ToSet(Append(tried[n], FirstOf(n, next))) \subseteq graph.lists[n]
      OBVIOUS
    <2>1. FirstOf(n, next) \in Classes /\ FirstOf(n, next) \in graph.lists[n] /\ graph # NoGraph
      BY <1>1, FallbackIsOwn
    <2> HIDE DEF next
    <2> QED BY <2>1, TriedNext
  <1> HIDE DEF next
  <1>4. progress' \in [Subtasks -> Progress]
    BY <1>1, <1>2 DEF Progress
  <1>5. \A m \in Subtasks :
          /\ (progress[m] = "none") <=> (progress'[m] = "none")
          /\ (progress[m] = "cancelled") <=> (progress'[m] = "cancelled")
          /\ progress[m] = "done" <=> progress'[m] = "done"
          /\ progress'[m] \in {"running", "done"} => progress[m] \in {"running", "done"}
    BY <1>1, <1>2
  <1>6. PICK x : x \notin Subtasks
    <2>1. (CHOOSE y : y \notin Subtasks) \notin Subtasks
      BY NoSetContainsEverything
    <2> QED BY <2>1
  <1>7. finished' = finished \cup ({graph.revision} \X ({x} \cap Subtasks))
    BY <1>1, <1>6
  <1>8. GraphIsAdmitted' /\ InDependencyOrder' /\ ResultsAreKept' /\ ResultsAreDated'
    BY <1>1, <1>4, <1>5, <1>6, <1>7, ProgressKeeps
  <1>9. CancelledDownwards'
    BY <1>1, <1>5, NobodyCancelled
  <1>10. \A m \in Subtasks : m # n => tried'[m] = tried[m] /\ progress'[m] = progress[m]
    BY <1>1, <1>2
  <1>11. /\ tried'[n] = IF next = {} THEN <<>> ELSE Append(tried[n], FirstOf(n, next))
         /\ progress'[n] = IF next = {} THEN "blocked" ELSE "running"
    BY <1>1, <1>2
  <1>12. TriedWhereAdmitted'
    BY <1>1, <1>3, <1>10, <1>11 DEF AdmissionInv, TriedWhereAdmitted
  <1>13. tried' \in [Subtasks -> Seq(Classes)]
    BY <1>1, <1>2, <1>3
  <1>14. classHealth' \in [Classes -> {"healthy", "error"}] /\ cooled' \in [Classes -> BOOLEAN]
    BY <1>2 DEF Fail
  <1>15. streak' \in [Classes -> 0 .. Threshold]
    <2> DEFINE c == Last(tried[n])
               streaks == 0 .. Threshold
               worse == IF fault # "transient" THEN 0
                        ELSE IF streak[c] < Threshold THEN streak[c] + 1 ELSE streak[c]
    <2>1. streak' = [streak EXCEPT ![c] = worse]
      BY DEF Fail
    <2>2. ASSUME c \in Classes PROVE worse \in streaks
      <3>1. streak[c] \in 0 .. Threshold
        BY <1>2, <2>2
      <3> QED BY <3>1, AdmissionAssumption
    <2>3. streak \in [Classes -> streaks]
      BY <1>2
    <2> HIDE DEF c, worse, streaks
    <2>4. streak' \in [Classes -> streaks]
      BY <2>1, <2>2, <2>3
    <2> QED BY <2>4 DEF streaks
  <1>16. mishaps' \in 0 .. MaxMishaps
    BY <1>1, <1>2, AdmissionAssumption
  <1>17. AdmissionTyped'
    BY <1>1, <1>4, <1>13, <1>14, <1>15, <1>16 DEF AdmissionInv, AdmissionTyped
  <1>18. OffersAreAdmitted'
    BY <1>1 DEF AdmissionInv, OffersAreAdmitted
  <1> QED BY <1>8, <1>9, <1>12, <1>17, <1>18 DEF AdmissionInv

LEMMA RetryKeeps ==
  ASSUME AdmissionInv, Retry
  PROVE  AdmissionInv'
  <1>1. /\ UNCHANGED << proposed, graph, tried, evidence, finished, availability, closing, mishaps >>
        /\ progress' = [n \in Subtasks |-> IF progress[n] = "blocked" THEN "ready" ELSE progress[n]]
    BY DEF Retry
  <1>2. progress \in [Subtasks -> Progress]
    BY DEF AdmissionInv, AdmissionTyped
  <1>3. progress' \in [Subtasks -> Progress]
    BY <1>1, <1>2 DEF Progress
  <1>4. \A m \in Subtasks :
          /\ (progress[m] = "none") <=> (progress'[m] = "none")
          /\ (progress[m] = "cancelled") <=> (progress'[m] = "cancelled")
          /\ progress[m] = "done" <=> progress'[m] = "done"
          /\ progress'[m] = "running" <=> progress[m] = "running"
    BY <1>1
  <1>5. \A m \in Subtasks : progress'[m] \in {"running", "done"} => progress[m] \in {"running", "done"}
    BY <1>4
  <1>6. PICK x : x \notin Subtasks
    <2>1. (CHOOSE y : y \notin Subtasks) \notin Subtasks
      BY NoSetContainsEverything
    <2> QED BY <2>1
  <1>7. finished' = finished \cup ({graph.revision} \X ({x} \cap Subtasks))
    BY <1>1, <1>6
  <1>8. GraphIsAdmitted' /\ InDependencyOrder' /\ ResultsAreKept' /\ ResultsAreDated'
    BY <1>1, <1>3, <1>4, <1>5, <1>6, <1>7, ProgressKeeps
  <1>9. CancelledDownwards'
    BY <1>1, <1>4, NobodyCancelled
  <1>10. TriedWhereAdmitted'
    BY <1>1, <1>4 DEF AdmissionInv, TriedWhereAdmitted
  <1>11. AdmissionTyped'
    BY <1>1, <1>3 DEF AdmissionInv, AdmissionTyped, availability
  <1>12. OffersAreAdmitted'
    BY <1>1 DEF AdmissionInv, OffersAreAdmitted
  <1> QED BY <1>8, <1>9, <1>10, <1>11, <1>12 DEF AdmissionInv

LEMMA DecideCancelKeeps ==
  ASSUME AdmissionInv, NEW n \in Subtasks, DecideCancel({n})
  PROVE  AdmissionInv'
  <1> DEFINE nodes == Closure({n})
  <1>1. /\ UNCHANGED << proposed, graph, progress, tried, evidence, finished, availability, mishaps >>
        /\ \A m \in nodes : progress[m] \notin {"done", "cancelled"}
        /\ closing' = [revision |-> graph.revision, nodes |-> nodes,
                       expected |-> [m \in nodes |-> progress[m]]]
    BY DEF DecideCancel, work
  <1>2. nodes \in SUBSET Subtasks /\ Closed(graph.needs, nodes)
    BY DownstreamIs DEF Closure
  <1> HIDE DEF nodes
  <1>3. /\ closing'.revision = graph.revision /\ closing'.nodes = nodes
        /\ \A m \in nodes : closing'.expected[m] = progress[m]
    BY <1>1
  <1>4. graph.revision \in Nat
    BY NothingRuns
  <1>5. AdmissionTyped'
    BY <1>1, <1>2, <1>3, <1>4 DEF AdmissionInv, AdmissionTyped, availability
  <1>6. GraphIsAdmitted' /\ InDependencyOrder' /\ ResultsAreKept' /\ ResultsAreDated'
    BY <1>1 DEF AdmissionInv, GraphIsAdmitted, InDependencyOrder, DependenciesDone, ResultsAreKept, ResultsAreDated
  <1>7. CancelledDownwards'
    <2>1. graph' # NoGraph
      BY <1>1 DEF DecideCancel
    <2>2. \A m \in nodes : closing'.expected[m] \notin {"done", "cancelled"}
      BY <1>1, <1>3
    <2>3. closing'.revision <= graph'.revision /\ Closed(graph.needs, closing'.nodes)
      BY <1>1, <1>2, <1>3, <1>4
    <2> QED BY <1>1, <1>3, <2>1, <2>2, <2>3 DEF AdmissionInv, CancelledDownwards, Children, Closed
  <1>8. OffersAreAdmitted' /\ TriedWhereAdmitted'
    BY <1>1 DEF AdmissionInv, OffersAreAdmitted, TriedWhereAdmitted
  <1> QED BY <1>5, <1>6, <1>7, <1>8 DEF AdmissionInv

LEMMA ApplyCancelKeeps ==
  ASSUME AdmissionInv, ApplyCancel
  PROVE  AdmissionInv'
  <1>1. /\ UNCHANGED << proposed, graph, tried, evidence, finished, availability, mishaps >>
        /\ closing' = NoClosing
        /\ progress' = IF StillAsDecided
                       THEN [n \in Subtasks |-> IF n \in closing.nodes THEN "cancelled" ELSE progress[n]]
                       ELSE progress
    BY DEF ApplyCancel
  <1>2. progress \in [Subtasks -> Progress] /\ closing.nodes \subseteq Subtasks
    BY DEF AdmissionInv, AdmissionTyped
  <1>3. closing'.revision = 0 /\ closing'.nodes = {}
    BY <1>1 DEF NoClosing
  <1>4. progress' \in [Subtasks -> Progress]
    BY <1>1, <1>2 DEF Progress
  <1>5. StillAsDecided => /\ closing.revision = graph.revision
                          /\ \A m \in closing.nodes : progress[m] \notin {"done", "cancelled"}
    BY DEF AdmissionInv, CancelledDownwards, StillAsDecided
  <1>6. \A m \in Subtasks :
          /\ (progress[m] = "none") <=> (progress'[m] = "none")
          /\ progress[m] = "done" <=> progress'[m] = "done"
          /\ progress'[m] = "running" => progress[m] = "running"
    <2>1. CASE graph = NoGraph
      BY <1>1, <2>1 DEF AdmissionInv, CancelledDownwards
    <2>2. CASE graph # NoGraph
      <3>1. \A m \in Subtasks : progress[m] # "none"
        BY <2>2 DEF AdmissionInv, GraphIsAdmitted
      <3> QED BY <1>1, <1>5, <3>1
    <2> QED BY <2>1, <2>2
  <1>7. \A m \in Subtasks : progress'[m] \in {"running", "done"} => progress[m] \in {"running", "done"}
    BY <1>6
  <1>8. PICK x : x \notin Subtasks
    <2>1. (CHOOSE y : y \notin Subtasks) \notin Subtasks
      BY NoSetContainsEverything
    <2> QED BY <2>1
  <1>9. finished' = finished \cup ({graph.revision} \X ({x} \cap Subtasks))
    BY <1>1, <1>8
  <1>10. GraphIsAdmitted' /\ InDependencyOrder' /\ ResultsAreKept' /\ ResultsAreDated'
    BY <1>1, <1>4, <1>6, <1>7, <1>8, <1>9, ProgressKeeps
  <1>11. CancelledDownwards'
    <2>1. \A m \in Subtasks : progress[m] = "cancelled" =>
            \A k \in Children(graph.needs, m) : progress[k] = "cancelled"
      BY DEF AdmissionInv, CancelledDownwards
    <2>2. StillAsDecided => Closed(graph.needs, closing.nodes)
      BY <1>5 DEF AdmissionInv, CancelledDownwards
    <2>3. \A m \in Subtasks : Children(graph.needs, m) \subseteq Subtasks
      BY DEF Children
    <2>4. \A m \in Subtasks : progress'[m] = "cancelled" =>
            \A k \in Children(graph.needs, m) : progress'[k] = "cancelled"
      <3>1. CASE StillAsDecided
        <4>1. \A m \in Subtasks : progress'[m] = IF m \in closing.nodes THEN "cancelled" ELSE progress[m]
          BY <1>1, <3>1
        <4>2. \A m \in closing.nodes : Children(graph.needs, m) \subseteq closing.nodes
          BY <2>2, <3>1 DEF Closed
        <4> QED BY <2>1, <2>3, <4>1, <4>2
      <3>2. CASE ~ StillAsDecided
        BY <1>1, <2>1, <3>2
      <3> QED BY <3>1, <3>2
    <2>5. graph.revision \in Nat
      BY NothingRuns
    <2> QED BY <1>1, <1>3, <2>4, <2>5 DEF CancelledDownwards, Children, Closed
  <1>12. TriedWhereAdmitted'
    BY <1>1, <1>6 DEF AdmissionInv, TriedWhereAdmitted
  <1>13. AdmissionTyped'
    BY <1>1, <1>3, <1>4 DEF AdmissionInv, AdmissionTyped, availability
  <1>14. OffersAreAdmitted'
    BY <1>1 DEF AdmissionInv, OffersAreAdmitted
  <1> QED BY <1>10, <1>11, <1>12, <1>13, <1>14 DEF AdmissionInv

-----------------------------------------------------------------------------
\* Availability, and a restart.

LEMMA AvailabilityKeeps ==
  ASSUME AdmissionInv, UNCHANGED << proposed, work, closing, mishaps >>,
         /\ classHealth' \in [Classes -> {"healthy", "error"}]
         /\ streak' \in [Classes -> 0 .. Threshold]
         /\ cooled' \in [Classes -> BOOLEAN] /\ probing' \in [Classes -> BOOLEAN]
  PROVE  AdmissionInv'
  <1>1. UNCHANGED << proposed, graph, progress, tried, evidence, finished, closing, mishaps >>
    BY DEF work
  <1>2. AdmissionTyped'
    BY <1>1 DEF AdmissionInv, AdmissionTyped
  <1>3. /\ GraphIsAdmitted' /\ InDependencyOrder' /\ ResultsAreKept'
        /\ ResultsAreDated' /\ CancelledDownwards' /\ TriedWhereAdmitted'
    BY <1>1, WorkKeeps
  <1>4. OffersAreAdmitted'
    BY <1>1 DEF AdmissionInv, OffersAreAdmitted
  <1> QED BY <1>2, <1>3, <1>4 DEF AdmissionInv

LEMMA AvailabilityStepsKeep ==
  ASSUME AdmissionInv, NEW c \in Classes,
         Cooldown(c) \/ LeaveWindow(c) \/ StartProbe(c) \/ ProbeFails(c)
  PROVE  AdmissionInv'
  <1>1. /\ classHealth \in [Classes -> {"healthy", "error"}]
        /\ streak \in [Classes -> 0 .. Threshold]
        /\ cooled \in [Classes -> BOOLEAN] /\ probing \in [Classes -> BOOLEAN]
    BY DEF AdmissionInv, AdmissionTyped
  <1>2. 0 \in 0 .. Threshold
    BY AdmissionAssumption
  <1>3. UNCHANGED << proposed, work, classHealth, closing, mishaps >>
    BY DEF Cooldown, LeaveWindow, StartProbe, ProbeFails
  <1>4. streak' = streak \/ streak' = [streak EXCEPT ![c] = 0]
    BY DEF Cooldown, LeaveWindow, StartProbe, ProbeFails
  <1>5. /\ cooled' = cooled \/ cooled' = [cooled EXCEPT ![c] = TRUE] \/ cooled' = [cooled EXCEPT ![c] = FALSE]
        /\ probing' = probing \/ probing' = [probing EXCEPT ![c] = TRUE] \/ probing' = [probing EXCEPT ![c] = FALSE]
    BY DEF Cooldown, LeaveWindow, StartProbe, ProbeFails
  <1>6. streak' \in [Classes -> 0 .. Threshold]
    BY <1>1, <1>2, <1>4, Zenon
  <1>7. cooled' \in [Classes -> BOOLEAN] /\ probing' \in [Classes -> BOOLEAN]
    BY <1>1, <1>5
  <1> QED BY <1>1, <1>3, <1>6, <1>7, AvailabilityKeeps

LEMMA ProbeRecoversKeeps ==
  ASSUME AdmissionInv, NEW c \in Classes, ProbeRecovers(c)
  PROVE  AdmissionInv'
  <1> DEFINE out == Unavailable(classHealth')
  <1>1. /\ UNCHANGED << finished, streak, cooled, closing, mishaps >>
        /\ probing' = [probing EXCEPT ![c] = FALSE]
        /\ classHealth' = [classHealth EXCEPT ![c] = "healthy"]
    BY DEF ProbeRecovers
  <1>2. /\ classHealth' \in [Classes -> {"healthy", "error"}]
        /\ streak' \in [Classes -> 0 .. Threshold]
        /\ cooled' \in [Classes -> BOOLEAN] /\ probing' \in [Classes -> BOOLEAN]
    BY <1>1 DEF AdmissionInv, AdmissionTyped
  <1>3. CASE UNCHANGED << proposed, graph, progress, tried, evidence >>
    BY <1>1, <1>2, <1>3, AvailabilityKeeps DEF work
  <1>4. ASSUME NEW i \in Revivable(out), Revive(i, out)
        PROVE  AdmissionInv'
    <2>1. i \in Ids
      BY <1>4 DEF Revivable
    <2>2. PICK p \in Offers : p = proposed[i]
      BY <2>1 DEF AdmissionInv, AdmissionTyped
    <2>3. p.plan \in PlanParts /\ Whole(p.plan)
      BY <1>4, <2>1, <2>2 DEF AdmissionInv, OffersAreAdmitted, OfferIsAdmitted, Revivable
    <2>4. /\ p.revision = graph.revision + 1
          /\ \A n \in Subtasks : Filtered(p.plan, out)[n] # {}
          /\ ValidStructure(p.plan, Filtered(p.plan, out))
      BY <1>4, <2>2 DEF Revivable
    <2>5. /\ proposed' = [proposed EXCEPT ![i] = Spent]
          /\ graph' = [revision |-> graph.revision + 1, needs |-> p.plan.deps,
                       contracts |-> p.plan.contracts, lists |-> Filtered(p.plan, out)]
          /\ evidence' = evidence \cup Results
          /\ progress' = [n \in Subtasks |-> "ready"] /\ tried' = [n \in Subtasks |-> <<>>]
      BY <1>4, <2>2, <2>4 DEF Revive, End, Rows
    <2> HIDE DEF out
    <2>6. Admitted(p.plan, Filtered(p.plan, out))
      BY <2>3, <2>4, FilteredIs DEF Admitted
    <2>7. /\ graph'.revision \in Nat /\ progress' \in [Subtasks -> Progress]
          /\ tried' \in [Subtasks -> Seq(Classes)] /\ evidence' \subseteq finished'
          /\ GraphIsAdmitted' /\ InDependencyOrder' /\ ResultsAreKept'
          /\ ResultsAreDated' /\ CancelledDownwards' /\ TriedWhereAdmitted'
      BY <1>1, <2>5, <2>6, ReplaceKeeps
    <2>8. proposed' \in [Ids -> Offers] /\ OffersAreAdmitted'
      BY <2>1, <2>5, OverIsFine, OfferKeeps
    <2>9. AdmissionTyped'
      BY <1>1, <1>2, <2>7, <2>8 DEF AdmissionInv, AdmissionTyped
    <2> QED BY <2>7, <2>8, <2>9 DEF AdmissionInv
  <1>5. \/ \E i \in Revivable(out) : Revive(i, out)
        \/ UNCHANGED << proposed, graph, progress, tried, evidence >>
    BY DEF ProbeRecovers
  <1> QED BY <1>3, <1>4, <1>5

LEMMA RestartHostKeeps ==
  ASSUME AdmissionInv, RestartHost
  PROVE  AdmissionInv'
  <1>1. /\ UNCHANGED << graph, evidence, finished, classHealth, streak, cooled, closing >>
        /\ mishaps < MaxMishaps /\ mishaps' = mishaps + 1
        /\ proposed' = [i \in Ids |-> AfterCrash(proposed[i])]
        /\ progress' = [n \in Subtasks |-> IF n \in Running THEN "blocked" ELSE progress[n]]
        /\ probing' = [c \in Classes |-> FALSE] /\ tried' = [n \in Subtasks |-> <<>>]
    BY DEF RestartHost
  <1>2. progress \in [Subtasks -> Progress] /\ mishaps \in 0 .. MaxMishaps
    BY DEF AdmissionInv, AdmissionTyped
  <1>3. \A i \in Ids : AfterCrash(proposed[i]) \in Offers /\ OfferIsAdmitted(AfterCrash(proposed[i]))
    <2> SUFFICES ASSUME NEW i \in Ids
                 PROVE  AfterCrash(proposed[i]) \in Offers /\ OfferIsAdmitted(AfterCrash(proposed[i]))
      OBVIOUS
    <2>1. proposed[i] \in Offers /\ OfferIsAdmitted(proposed[i])
      BY DEF AdmissionInv, AdmissionTyped, OffersAreAdmitted
    <2>2. CASE AfterCrash(proposed[i]) = proposed[i]
      BY <2>1, <2>2
    <2>3. CASE AfterCrash(proposed[i]) = Spent
      BY <2>3, OverIsFine
    <2>4. CASE /\ proposed[i].state \in {"scheduled", "applied"}
               /\ AfterCrash(proposed[i]) = [proposed[i] EXCEPT !.state = "authorized"]
      BY <2>4, MoveIsFine
    <2> QED BY <2>2, <2>3, <2>4 DEF AfterCrash
  <1>4. proposed' \in [Ids -> Offers] /\ OffersAreAdmitted'
    BY <1>1, <1>3 DEF OffersAreAdmitted
  <1>5. progress' \in [Subtasks -> Progress]
    BY <1>1, <1>2 DEF Progress
  <1>6. \A m \in Subtasks :
          /\ (progress[m] = "none") <=> (progress'[m] = "none")
          /\ (progress[m] = "cancelled") <=> (progress'[m] = "cancelled")
          /\ progress[m] = "done" <=> progress'[m] = "done"
          /\ progress'[m] # "running"
    BY <1>1 DEF Running
  <1>7. PICK x : x \notin Subtasks
    <2>1. (CHOOSE y : y \notin Subtasks) \notin Subtasks
      BY NoSetContainsEverything
    <2> QED BY <2>1
  <1>8. finished' = finished \cup ({graph.revision} \X ({x} \cap Subtasks))
    BY <1>1, <1>7
  <1>9. GraphIsAdmitted' /\ InDependencyOrder' /\ ResultsAreKept' /\ ResultsAreDated'
    BY <1>1, <1>5, <1>6, <1>7, <1>8, ProgressKeeps
  <1>10. CancelledDownwards'
    BY <1>1, <1>6, NobodyCancelled
  <1>11. TriedWhereAdmitted'
    BY <1>1, <1>6 DEF TriedWhereAdmitted
  <1>12. mishaps' \in 0 .. MaxMishaps
    BY <1>1, <1>2, AdmissionAssumption
  <1>13. tried' \in [Subtasks -> Seq(Classes)] /\ probing' \in [Classes -> BOOLEAN]
    BY <1>1
  <1>14. AdmissionTyped'
    BY <1>1, <1>4, <1>5, <1>12, <1>13 DEF AdmissionInv, AdmissionTyped
  <1> QED BY <1>4, <1>9, <1>10, <1>11, <1>14 DEF AdmissionInv

LEMMA AdmissionStutters ==
  ASSUME AdmissionInv, UNCHANGED admission
  PROVE  AdmissionInv'
  <1>1. UNCHANGED << proposed, work, closing, mishaps, classHealth, streak, cooled, probing >>
    BY DEF admission, work
  <1>2. /\ classHealth' \in [Classes -> {"healthy", "error"}]
        /\ streak' \in [Classes -> 0 .. Threshold]
        /\ cooled' \in [Classes -> BOOLEAN] /\ probing' \in [Classes -> BOOLEAN]
    BY <1>1 DEF AdmissionInv, AdmissionTyped
  <1> QED BY <1>1, <1>2, AvailabilityKeeps

LEMMA AdmissionStepKeeps == AdmissionInv /\ [NextAdmission]_admission => AdmissionInv'
  <1> SUFFICES ASSUME AdmissionInv, [NextAdmission]_admission
               PROVE  AdmissionInv'
    OBVIOUS
  <1>1. ASSUME NEW i \in Ids,
               AskFirst(i) \/ AskReplan(i) \/ ScheduleRun(i) \/ RecordApplication(i) \/ Activate(i)
        PROVE  AdmissionInv'
    BY <1>1, AskFirstKeeps, AskReplanKeeps, ScheduleRunKeeps, RecordApplicationKeeps, ActivateKeeps
  <1>2. ASSUME NEW i \in Ids, NEW plan \in WorkGraphs, NEW other \in BOOLEAN, DecidePlan(i, plan, other)
        PROVE  AdmissionInv'
    BY <1>2, DecidePlanKeeps
  <1>3. ASSUME NEW batch \in SUBSET Subtasks, DispatchBatch(batch)
        PROVE  AdmissionInv'
    BY <1>3, DispatchBatchKeeps
  <1>4. ASSUME NEW n \in Subtasks, Succeed(n) \/ DecideCancel({n})
        PROVE  AdmissionInv'
    BY <1>4, SucceedKeeps, DecideCancelKeeps
  <1>5. ASSUME NEW n \in Subtasks, NEW fault \in {"transient", "permanent", "attempt"}, Fail(n, fault)
        PROVE  AdmissionInv'
    BY <1>5, FailKeeps
  <1>6. ASSUME NEW c \in Classes,
               Cooldown(c) \/ LeaveWindow(c) \/ StartProbe(c) \/ ProbeFails(c) \/ ProbeRecovers(c)
        PROVE  AdmissionInv'
    <2>1. CASE ProbeRecovers(c)
      BY <2>1, ProbeRecoversKeeps
    <2>2. CASE Cooldown(c) \/ LeaveWindow(c) \/ StartProbe(c) \/ ProbeFails(c)
      BY <2>2, AvailabilityStepsKeep
    <2> QED BY <1>6, <2>1, <2>2
  <1>7. CASE Retry \/ ApplyCancel \/ RestartHost
    BY <1>7, RetryKeeps, ApplyCancelKeeps, RestartHostKeeps
  <1>8. CASE UNCHANGED admission
    BY <1>8, AdmissionStutters
  <1> QED BY <1>1, <1>2, <1>3, <1>4, <1>5, <1>6, <1>7, <1>8 DEF NextAdmission

\* The invariant of the admission holds in every behaviour.
THEOREM AdmissionInductive == SpecAdmission => []AdmissionInv
  BY FirstAdmission, AdmissionStepKeeps, PTL DEF SpecAdmission

\* Every proposal, row, status, list of tried classes, projected health and
\* closing cancellation stays within its type (ParallelPlan, the subtask rows and
\* the availability projection of src/kernel and src/storage).
THEOREM AdmissionTypeCorrect == SpecAdmission => []AdmissionTyped
  <1>1. AdmissionInv => AdmissionTyped
    BY DEF AdmissionInv
  <1> QED BY <1>1, AdmissionInductive, PTL

\* Some Subtask of an admitted graph that is ready waits for none that is ready,
\* and nothing it waits for was cancelled.
LEMMA SomeoneIsReady == AdmissionInv => NeverStalls
  <1> SUFFICES ASSUME AdmissionInv, \E n \in Subtasks : progress[n] = "ready",
                      \A n \in Subtasks : progress[n] \notin {"running", "blocked"}
               PROVE  Frontier # {}
    BY DEF NeverStalls
  <1> DEFINE R == {n \in Subtasks : progress[n] = "ready"}
  <1>1. graph # NoGraph
    BY DEF AdmissionInv, GraphIsAdmitted
  <1>2. /\ \A n \in Subtasks : graph.needs[n] \subseteq Subtasks \ {n}
        /\ Acyclic(graph.needs)
        /\ \A n \in Subtasks : progress[n] # "none"
    BY <1>1 DEF AdmissionInv, GraphIsAdmitted, Admitted, ValidStructure
  <1>3. PICK n \in R : graph.needs[n] \cap R = {}
    <2>1. R \in SUBSET Subtasks /\ R # {}
      OBVIOUS
    <2> HIDE DEF R
    <2> QED BY <1>2, <2>1, SomeoneIsFirst
  <1>4. \A m \in Subtasks : progress[m] \in {"ready", "done", "cancelled"}
    BY <1>2 DEF AdmissionInv, AdmissionTyped, Progress
  <1>5. ASSUME NEW m \in graph.needs[n] PROVE progress[m] = "done"
    <2>1. m \in Subtasks /\ m \notin R
      BY <1>2, <1>3
    <2>2. n \in Children(graph.needs, m)
      BY <1>3 DEF Children
    <2>3. progress[m] # "cancelled"
      BY <1>3, <2>1, <2>2 DEF AdmissionInv, CancelledDownwards
    <2> QED BY <1>4, <2>1, <2>3
  <1> QED BY <1>1, <1>3, <1>5 DEF Frontier, DependenciesDone

\* What the Kernel admits can be executed to its end, once, in order, on classes
\* it admitted (ControlKernel's validation and filtering of a work graph, the
\* activation of a revision, the frontier, the fallback of an attempt and the
\* closure of a cancellation).
THEOREM AdmissionsAreSound == SpecAdmission => []AdmissionIsSound
  <1>1. AdmissionInv => AdmissionIsSound
    <2> SUFFICES ASSUME AdmissionInv PROVE AdmissionIsSound
      OBVIOUS
    <2>1. InDependencyOrder /\ ResultsAreKept
      BY DEF AdmissionInv
    <2>2. RowsAreAdmitted
      <3> SUFFICES ASSUME graph # NoGraph
                   PROVE  /\ ValidStructure([deps |-> graph.needs, contracts |-> graph.contracts], graph.lists)
                          /\ \A n \in Subtasks : /\ graph.lists[n] # {}
                                                 /\ graph.lists[n] \subseteq Eligible(graph.contracts[n].needs)
        BY DEF RowsAreAdmitted
      <3>1. Admitted([deps |-> graph.needs, contracts |-> graph.contracts], graph.lists)
        BY DEF AdmissionInv, GraphIsAdmitted
      <3> QED BY <3>1 DEF Admitted, Whole, Routed
    <2>3. RunsWhereAdmitted
      <3> SUFFICES ASSUME NEW n \in Subtasks, progress[n] = "running"
                   PROVE  tried[n] # <<>> /\ Last(tried[n]) \in graph.lists[n]
        BY DEF RunsWhereAdmitted
      <3>1. tried[n] \in Seq(Classes) /\ tried[n] # <<>> /\ ToSet(tried[n]) \subseteq graph.lists[n]
        BY DEF AdmissionInv, AdmissionTyped, TriedWhereAdmitted
      <3>2. Len(tried[n]) \in DOMAIN tried[n]
        BY <3>1, EmptySeq, LenProperties
      <3> QED BY <3>1, <3>2 DEF Last, ToSet
    <2> QED BY <2>1, <2>2, <2>3, SomeoneIsReady DEF AdmissionIsSound
  <1> QED BY <1>1, AdmissionInductive, PTL
===============================================================================
