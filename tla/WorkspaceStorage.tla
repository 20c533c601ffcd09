--------------------------- MODULE WorkspaceStorage ---------------------------
(* The workspaces of the attempts and their checkpoints: content-addressed     *)
(* files written by execution/workspace-store.ts, rows and reference counts in *)
(* storage/workspace-repo.ts, and the two that remove them: the retention      *)
(* sweep (execution/workspace-retention-service.ts) and /task purge            *)
(* (task/task-purge-service.ts). A transaction is one step; the files of a     *)
(* checkpoint are written before its transaction, and the files a removal has  *)
(* unlinked go after its transaction, one await each.                          *)
EXTENDS Integers, FiniteSets

CONSTANTS Workspaces, Checkpoints, Objects,
          Owner,                 \* the Task of each workspace
          MaxStorageCrashes      \* bound on crashes of the process

ASSUME NobodyAssumption == "none" \notin Workspaces \cup Checkpoints

VARIABLES taskStatus,  \* tasks.status: running, done, cancelled or purged
          records,     \* workspace_records.status of each workspace, or none
          checkpoints, \* workspace_checkpoints: the workspace of each, or none
          links,       \* workspace_checkpoint_objects
          counts,      \* workspace_objects.reference_count, or NoRow
          files,       \* object files in the store
          repositories, \* Tasks whose managed repository is on disk
          attempt,     \* the checkpoint each workspace's attempt is making
          cleaner,     \* of the sweep and of the purge: what is still to remove
          raced,       \* checkpoints whose object was being removed when recorded
          storageCrashes

storage == << taskStatus, records, checkpoints, links, counts, files, repositories,
              attempt, cleaner, raced, storageCrashes >>

NoRow == -1
Nobody == "none"
OwnerTasks == {Owner[w] : w \in Workspaces}
Cleaners == {"sweep", "purge"}
Resting == [state |-> "resting", objects |-> {}, repositories |-> {}, due |-> {}]
Idle == [state |-> "idle", checkpoint |-> Nobody, todo |-> {}, stored |-> {}]
WorkspacesOf(t) == {w \in Workspaces : Owner[w] = t}
CheckpointsOf(W) == {c \in Checkpoints : checkpoints[c] \in W}
LinksOf(o) == Cardinality({l \in links : l[2] = o})
BeingRemoved(o) == \E k \in Cleaners : o \in cleaner[k].objects
-------------------------------------------------------------------------------
(* The record is active again, whatever it was scheduled for.                  *)
Saved(w) == [records EXCEPT ![w] = "active"]

(* An attempt makes its workspace and its repository, and records it.          *)
Prepare(w) ==
    /\ attempt[w].state = "idle" /\ taskStatus[Owner[w]] = "running"
    /\ attempt' = [attempt EXCEPT ![w].state = "working"]
    /\ records' = Saved(w)
    /\ repositories' = repositories \cup {Owner[w]}
    /\ UNCHANGED << taskStatus, checkpoints, links, counts, files, cleaner, raced, storageCrashes >>

(* The files of a workspace; two that are equal are one object.                *)
Contents == SUBSET Objects \ {{}}

(* createCheckpoint scans the files of the workspace.                          *)
Scan(w, c, content) ==
    /\ attempt[w].state = "working" /\ checkpoints[c] = Nobody
    /\ \A v \in Workspaces : attempt[v].checkpoint # c
    /\ attempt' = [attempt EXCEPT ![w] = [state |-> "storing", checkpoint |-> c,
                                          todo |-> content, stored |-> {}]]
    /\ UNCHANGED << taskStatus, records, checkpoints, links, counts, files, repositories,
                    cleaner, raced, storageCrashes >>

(* storeObject renames its copy over the file, be it there or not.             *)
Store(w, o) ==
    /\ attempt[w].state = "storing" /\ o \in attempt[w].todo
    /\ attempt' = [attempt EXCEPT ![w].todo = @ \ {o}, ![w].stored = @ \cup {o}]
    /\ files' = files \cup {o}
    /\ UNCHANGED << taskStatus, records, checkpoints, links, counts, repositories, cleaner,
                    raced, storageCrashes >>

(* Faulty: the row of an object that is already known is left as it is.        *)
CountedOnce(o) == IF counts[o] = NoRow THEN 1 ELSE counts[o]

Counted(o) == (IF counts[o] = NoRow THEN 0 ELSE counts[o]) + 1

(* recordCheckpoint.                                                           *)
Record(w) ==
    LET c == attempt[w].checkpoint   S == attempt[w].stored IN
    /\ attempt[w].state = "storing" /\ attempt[w].todo = {}
    /\ checkpoints' = [checkpoints EXCEPT ![c] = w]
    /\ links' = links \cup ({c} \X S)
    /\ counts' = [o \in Objects |-> IF o \in S THEN Counted(o) ELSE counts[o]]
    /\ raced' = IF \E o \in S : BeingRemoved(o) \/ o \notin files
                THEN raced \cup {c} ELSE raced
    /\ attempt' = [attempt EXCEPT ![w] = [Idle EXCEPT !.state = "working"]]
    /\ UNCHANGED << taskStatus, records, files, repositories, cleaner, storageCrashes >>

EndAttempt(w) ==
    /\ attempt[w].state = "working"
    /\ attempt' = [attempt EXCEPT ![w] = Idle]
    /\ UNCHANGED << taskStatus, records, checkpoints, links, counts, files, repositories,
                    cleaner, raced, storageCrashes >>

(* The Task ends; a cancelled one while its attempts still run.                *)
EndTask(t, status) ==
    /\ taskStatus[t] = "running"
    /\ status = "done" => \A w \in WorkspacesOf(t) : attempt[w].state = "idle"
    /\ taskStatus' = [taskStatus EXCEPT ![t] = status]
    /\ UNCHANGED << records, checkpoints, links, counts, files, repositories, attempt,
                    cleaner, raced, storageCrashes >>
-------------------------------------------------------------------------------
(* The sweep.                                                                  *)

(* reconcileTaskStatuses, on every tick: a done Task schedules nothing.        *)
Schedule(t) ==
    /\ taskStatus[t] = "cancelled"
    /\ \E w \in WorkspacesOf(t) : records[w] = "active"
    /\ records' = [w \in Workspaces |-> IF Owner[w] = t /\ records[w] # Nobody
                                        THEN "cancelled" ELSE records[w]]
    /\ UNCHANGED << taskStatus, checkpoints, links, counts, files, repositories, attempt,
                    cleaner, raced, storageCrashes >>

(* listCleanupDue: seven days later, when the attempts have long ended, some   *)
(* of those that were scheduled.                                               *)
StartSweep(W) ==
    /\ cleaner["sweep"].state = "resting"
    /\ W # {} /\ W \subseteq {w \in Workspaces : records[w] = "cancelled" /\ attempt[w].state = "idle"}
    /\ cleaner' = [cleaner EXCEPT !["sweep"] = [Resting EXCEPT !.state = "listed", !.due = W]]
    /\ UNCHANGED << taskStatus, records, checkpoints, links, counts, files, repositories,
                    attempt, raced, storageCrashes >>

LinksIn(C, o) == Cardinality({l \in links : l[1] \in C /\ l[2] = o})

(* Faulty: an object counts once, in however many checkpoints it is.           *)
DecrementedOnce(C, o) == IF LinksIn(C, o) = 0 THEN counts[o] ELSE counts[o] - 1

Decremented(C, o) == IF LinksIn(C, o) = 0 THEN counts[o] ELSE counts[o] - LinksIn(C, o)

(* Faulty: every object of the removed checkpoints.                            *)
UnreferencedOrShared(C) == {o \in Objects : LinksIn(C, o) > 0}

(* The objects of the removed checkpoints that no other checkpoint refers to.  *)
Unreferenced(C) == {o \in Objects : LinksIn(C, o) > 0 /\ Decremented(C, o) = 0}

(* The rows of W's checkpoints, in one transaction.                            *)
Unlink(W) ==
    LET C == CheckpointsOf(W) IN
    /\ checkpoints' = [c \in Checkpoints |-> IF c \in C THEN Nobody ELSE checkpoints[c]]
    /\ links' = {l \in links : l[1] \notin C}
    /\ counts' = [o \in Objects |-> IF o \in Unreferenced(C) THEN NoRow ELSE Decremented(C, o)]
    /\ records' = [w \in Workspaces |-> IF w \in W THEN Nobody ELSE records[w]]
    /\ raced' = raced \ C

(* deleteWorkspace; a record that became active again is left.                 *)
SweepOne(w) ==
    /\ cleaner["sweep"].state = "listed" /\ w \in cleaner["sweep"].due
    /\ IF records[w] = "cancelled"
       THEN /\ Unlink({w})
            /\ cleaner' = [cleaner EXCEPT !["sweep"] =
                 [state |-> "removing", due |-> cleaner["sweep"].due \ {w},
                  objects |-> Unreferenced(CheckpointsOf({w})),
                  repositories |-> IF \E v \in WorkspacesOf(Owner[w]) \ {w} : records[v] # Nobody
                                   THEN {} ELSE {Owner[w]}]]
       ELSE /\ cleaner' = [cleaner EXCEPT !["sweep"].due = @ \ {w}]
            /\ UNCHANGED << checkpoints, links, counts, records, raced >>
    /\ UNCHANGED << taskStatus, files, repositories, attempt, storageCrashes >>

SweepEnds ==
    /\ cleaner["sweep"].state = "listed" /\ cleaner["sweep"].due = {}
    /\ cleaner' = [cleaner EXCEPT !["sweep"] = Resting]
    /\ UNCHANGED << taskStatus, records, checkpoints, links, counts, files, repositories,
                    attempt, raced, storageCrashes >>

(* /task purge: a finished Task, none of whose attempts is active.             *)
Purgeable(t) ==
    /\ taskStatus[t] \in {"done", "cancelled"}
    /\ \A w \in WorkspacesOf(t) : attempt[w].state = "idle"

DeleteTaskFacts(t) ==
    /\ Unlink(WorkspacesOf(t))
    /\ taskStatus' = [taskStatus EXCEPT ![t] = "purged"]

Purge(t) ==
    /\ cleaner["purge"].state = "resting" /\ Purgeable(t)
    /\ DeleteTaskFacts(t)
    /\ cleaner' = [cleaner EXCEPT !["purge"] =
         [state |-> "removing", due |-> {},
          objects |-> Unreferenced(CheckpointsOf(WorkspacesOf(t))),
          repositories |-> IF \E w \in WorkspacesOf(t) : records[w] # Nobody THEN {t} ELSE {}]]
    /\ UNCHANGED << files, repositories, attempt, storageCrashes >>

(* removeObjectUri, rm: the file goes, whoever has stored it again since.      *)
RemoveObject(k, o) ==
    /\ cleaner[k].state = "removing" /\ o \in cleaner[k].objects
    /\ files' = files \ {o}
    /\ cleaner' = [cleaner EXCEPT ![k].objects = @ \ {o}]
    /\ UNCHANGED << taskStatus, records, checkpoints, links, counts, repositories, attempt,
                    raced, storageCrashes >>

RemoveRepositories(k) ==
    /\ cleaner[k].state = "removing" /\ cleaner[k].objects = {}
    /\ repositories' = repositories \ cleaner[k].repositories
    /\ cleaner' = [cleaner EXCEPT ![k] = IF k = "sweep" THEN [Resting EXCEPT !.state = "listed", !.due = cleaner[k].due]
                                                   ELSE Resting]
    /\ UNCHANGED << taskStatus, records, checkpoints, links, counts, files, attempt, raced,
                    storageCrashes >>

(* The process dies and starts again: nobody takes up what was to be removed.  *)
CrashStorage ==
    /\ storageCrashes < MaxStorageCrashes /\ storageCrashes' = storageCrashes + 1
    /\ attempt' = [w \in Workspaces |-> Idle]
    /\ cleaner' = [k \in Cleaners |-> Resting]
    /\ UNCHANGED << taskStatus, records, checkpoints, links, counts, files, repositories, raced >>
-------------------------------------------------------------------------------
InitStorage ==
    /\ taskStatus = [t \in OwnerTasks |-> "running"]
    /\ records = [w \in Workspaces |-> Nobody]
    /\ checkpoints = [c \in Checkpoints |-> Nobody]
    /\ links = {} /\ counts = [o \in Objects |-> NoRow]
    /\ files = {} /\ repositories = {}
    /\ attempt = [w \in Workspaces |-> Idle]
    /\ cleaner = [k \in Cleaners |-> Resting]
    /\ raced = {} /\ storageCrashes = 0

NextStorage ==
    \/ \E w \in Workspaces :
         \/ Prepare(w) \/ Record(w) \/ EndAttempt(w) \/ SweepOne(w)
         \/ \E c \in Checkpoints, content \in Contents : Scan(w, c, content)
         \/ \E o \in Objects : Store(w, o)
    \/ \E t \in OwnerTasks : \/ Schedule(t) \/ Purge(t)
                        \/ \E status \in {"done", "cancelled"} : EndTask(t, status)
    \/ \E W \in SUBSET Workspaces : StartSweep(W)
    \/ \E k \in Cleaners : RemoveRepositories(k) \/ \E o \in Objects : RemoveObject(k, o)
    \/ SweepEnds \/ CrashStorage

StorageSpec == InitStorage /\ [][NextStorage]_storage
-------------------------------------------------------------------------------
(* The reference count of an object is the number of checkpoints that hold it. *)
CountsAreLinks == \A o \in Objects :
    LinksOf(o) = IF counts[o] = NoRow THEN 0 ELSE counts[o]

(* A recorded checkpoint can be restored, but for one that was recorded while  *)
(* a removal had its object's file still to delete.                            *)
Restorable == \A l \in links : l[2] \in files \/ l[1] \in raced

(* The repository of a workspace is there as long as the workspace is.         *)
RepositoryKept == \A w \in Workspaces : records[w] # Nobody => Owner[w] \in repositories

(* The rows and the files of the store agree, however checkpoints, sweeps,     *)
(* purges and crashes interleave (workspace-retention-service.ts: "removes     *)
(* only metadata-expired, unreferenced data").                                 *)
StoreIsConsistent == CountsAreLinks /\ Restorable /\ RepositoryKept
===============================================================================
