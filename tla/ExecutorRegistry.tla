---------------------------- MODULE ExecutorRegistry ----------------------------
(* The Executors a user registers: executors.yaml, the table                     *)
(* executor_verifications, the health of each Executor, and the snapshot that    *)
(* the registry of a running session holds of them                               *)
(* (executor/executor-registration-service.ts, executor-registry-service.ts).    *)
(* Verifying an Executor runs its program for minutes, so commands overlap. A    *)
(* configuration says of each Executor whether it is absent, off or on; its      *)
(* digest stands for it. What a verification finds is external.                  *)
EXTENDS Integers, FiniteSets

CONSTANTS Executors,
          Commands,          \* commands that are under way
          Hosts,             \* where they may run: Commands -> {"session", "cli"}
          MaxRegistrations,  \* bound on commands that begin
          MaxDisturbances    \* bound on edits of executors.yaml by hand, and crashes

VARIABLES hostOf,        \* of each command
          file,          \* executors.yaml, or Broken
          verifications, \* rows (Executor, configuration) of the last success ...
          failing,       \* ... and those whose last verification failed
          health,        \* class_health in kernel_executor_status, or none
          snapshot,      \* of the registry of the session
          command,       \* what each command is doing
          proved,        \* (Executor, configuration) that passed a verification
          attempts,      \* Executors an attempt is running on
          checks,        \* Executors a recovery check of the session is probing
          registered,    \* whose registration was confirmed to the user
          overwritten,   \* a command wrote over a file it had not read
          torn,          \* a hand edit, or a crash before the rows were written
          byHand,        \* Executors verified by a command of their own
          begun, disturbances

registry == << hostOf, file, verifications, failing, health, snapshot, command, proved,
               attempts, checks, registered, overwritten, torn, byHand, begun, disturbances >>

Configs == [Executors -> {"absent", "off", "on"}]
Broken == [x \in Executors |-> "invalid"]
Processes == {"session", "cli"}
ASSUME HostsAssumption == Hosts \subseteq [Commands -> Processes]
Enabled(config) == {x \in Executors : config[x] = "on"}
Waiting == [state |-> "waiting", does |-> "none", target |-> "none", base |-> Broken,
            next |-> Broken, todo |-> {}]
Does(c, state) == [command EXCEPT ![c].state = state]

(* verificationMatches: a successful row for this Executor and this digest.      *)
Matches(x, config, rows) == <<x, config>> \in rows

(* createExecutorRegistrySnapshot: routable are the enabled Executors verified   *)
(* under this very configuration.                                                *)
SnapshotOf(config, rows) ==
    [config |-> config, routable |-> {x \in Enabled(config) : Matches(x, config, rows)}]

(* reload: a file that does not load leaves the snapshot.                        *)
Reloaded(rows) == IF file = Broken THEN snapshot ELSE SnapshotOf(file, rows)

(* The registry of a command line process ends with it.                          *)
AtHome(c, next) == IF hostOf[c] = "cli" THEN snapshot ELSE next

Upsert(x, config, success) ==
    /\ verifications' = IF success THEN verifications \cup {<<x, config>>}
                                   ELSE verifications \ {<<x, config>>}
    /\ failing' = IF success THEN failing \ {<<x, config>>} ELSE failing \cup {<<x, config>>}
--------------------------------------------------------------------------------
(* Commands.                                                                     *)

(* What a command makes of the configuration it starts from.                     *)
Candidate(does, x, config) ==
    CASE does \in {"register", "enable"} -> [config EXCEPT ![x] = "on"]
      [] does = "disable" -> [config EXCEPT ![x] = "off"]
      [] OTHER -> config

(* register, verify or setEnabled, up to its first await. A command line process *)
(* has just loaded the file, and does not start on a broken one.                 *)
BeginCommand(c, does, x) ==
    LET current == IF hostOf[c] = "cli" THEN file ELSE snapshot.config
        next == Candidate(does, x, current)
    IN /\ command[c].state = "waiting" /\ current # Broken
       /\ begun < MaxRegistrations /\ begun' = begun + 1
       /\ does # "register" => current[x] # "absent"
       /\ command' = [command EXCEPT ![c] =
            [state |-> "verifying", does |-> does, target |-> x, base |-> current, next |-> next,
             todo |-> IF does = "verify" THEN {x} ELSE Enabled(next)]]
       /\ UNCHANGED << hostOf, proved, file, verifications, failing, health, snapshot, attempts, checks,
                       registered, overwritten, torn, byHand, disturbances >>

(* Faulty: a verification is recorded for the configuration that is current when *)
(* it ends.                                                                      *)
RecordedForCurrent(c) == snapshot.config

RecordedFor(c) == command[c].next

Passed(c, x, success) ==
    proved' = IF success THEN proved \cup {<<x, command[c].next>>} ELSE proved

(* The verification of a verify command ends.                                    *)
Verified(c, success) ==
    LET x == command[c].target IN
    /\ command[c].state = "verifying" /\ command[c].does = "verify"
    /\ Upsert(x, RecordedFor(c), success) /\ Passed(c, x, success)
    /\ health' = [health EXCEPT ![x] = IF success THEN "healthy" ELSE "error"]
    /\ snapshot' = AtHome(c, Reloaded(verifications'))
    /\ byHand' = byHand \cup {x}
    /\ command' = [command EXCEPT ![c] = Waiting]
    /\ UNCHANGED << hostOf, file, attempts, checks, registered, overwritten, torn, begun,
                    disturbances >>

(* verifyCandidateConfig, one enabled Executor after the other: the first that   *)
(* fails is recorded, and the command with it.                                   *)
VerifyNext(c, x, success) ==
    /\ command[c].state = "verifying" /\ command[c].does # "verify" /\ x \in command[c].todo
    /\ Passed(c, x, success)
    /\ IF success
       THEN /\ command' = [command EXCEPT ![c].todo = @ \ {x}]
            /\ UNCHANGED << verifications, failing >>
       ELSE /\ Upsert(x, command[c].next, FALSE)
            /\ command' = [command EXCEPT ![c] = Waiting]
    /\ UNCHANGED << hostOf, file, health, snapshot, attempts, checks, registered, overwritten, torn,
                    byHand, begun, disturbances >>

(* writeConfig: a temporary file takes the place of executors.yaml.              *)
WriteConfig(c) ==
    /\ command[c].state = "verifying" /\ command[c].does # "verify" /\ command[c].todo = {}
    /\ file' = command[c].next /\ command' = Does(c, "written")
    /\ overwritten' = (overwritten \/ file # command[c].base)
    /\ UNCHANGED << hostOf, proved, verifications, failing, health, snapshot, attempts, checks,
                    registered, torn, byHand, begun, disturbances >>

(* Faulty: of the verifications only that of the command's Executor is recorded. *)
RecordsTarget(c) == {command[c].target} \cap Enabled(command[c].next)

Records(c) == Enabled(command[c].next)

(* The command records what it verified, and loads the file.                     *)
Loads(c) ==
    LET next == command[c].next
        x == command[c].target
        rows == {<<y, next>> : y \in Records(c)}
    IN /\ command[c].state = "written"
       /\ verifications' = verifications \cup rows /\ failing' = failing \ rows
       /\ health' = [y \in Executors |->
            IF y = x /\ command[c].does = "disable" THEN "disabled"
            ELSE IF y \in Enabled(next) THEN "healthy" ELSE health[y]]
       /\ snapshot' = AtHome(c, Reloaded(verifications'))
       /\ registered' = IF command[c].does = "register" THEN registered \cup {x} ELSE registered
       /\ byHand' = byHand \ {x}
       /\ overwritten' = (overwritten \/ file # next)
       /\ command' = [command EXCEPT ![c] = Waiting]
       /\ UNCHANGED << hostOf, proved, file, attempts, checks, torn, begun, disturbances >>

(* The user edits executors.yaml.                                                *)
Edit(config) ==
    /\ disturbances < MaxDisturbances /\ config # file /\ file # Broken
    /\ file' = config /\ disturbances' = disturbances + 1 /\ torn' = TRUE
    /\ registered' = {}
    /\ UNCHANGED << hostOf, proved, verifications, failing, health, snapshot, command, attempts,
                    checks, overwritten, byHand, begun >>

(* /executor reload.                                                             *)
Reload ==
    /\ snapshot' = Reloaded(verifications) /\ snapshot' # snapshot
    /\ UNCHANGED << hostOf, proved, file, verifications, failing, health, command, attempts, checks,
                    registered, overwritten, torn, byHand, begun, disturbances >>
--------------------------------------------------------------------------------
(* What else writes the health of an Executor.                                   *)

(* An attempt is launched on a routable Executor.                                *)
LaunchOn(x) ==
    /\ attempts = {} /\ x \in snapshot.routable
    /\ attempts' = {x}
    /\ UNCHANGED << hostOf, proved, file, verifications, failing, health, snapshot, command, checks,
                    registered, overwritten, torn, byHand, begun, disturbances >>

(* Faulty: what an attempt finds is recorded of a disabled Executor too.         *)
StaysOffNever(x) == FALSE

StaysOff(x) == health[x] = "disabled"

(* projectExecutionOutcome: a success makes it healthy, a lasting fault of the   *)
(* Executor an error.                                                            *)
AttemptEnds(x, result) ==
    /\ x \in attempts
    /\ attempts' = attempts \ {x}
    /\ health' = [health EXCEPT ![x] =
         CASE StaysOff(x) -> @
           [] ~StaysOff(x) /\ result = "succeeded" -> "healthy"
           [] ~StaysOff(x) /\ result = "permanent" -> "error"
           [] OTHER -> IF @ = "none" THEN "unverified" ELSE @]
    /\ UNCHANGED << hostOf, proved, file, verifications, failing, snapshot, command, checks,
                    registered, overwritten, torn, byHand, begun, disturbances >>

(* refresh: probe the Executors in error, each once at a time.                   *)
RefreshErrors ==
    /\ checks' = checks \cup {x \in Executors : health[x] = "error"} /\ checks' # checks
    /\ UNCHANGED << hostOf, proved, file, verifications, failing, health, snapshot, command, attempts,
                    registered, overwritten, torn, byHand, begun, disturbances >>

Recovers(x, available) == health[x] = "error" /\ available

(* The probe answers, or times out: only an error that recovered is written.     *)
Checked(x, available) ==
    /\ x \in checks
    /\ checks' = checks \ {x}
    /\ health' = [health EXCEPT ![x] = IF Recovers(x, available) THEN "healthy" ELSE @]
    /\ UNCHANGED << hostOf, proved, file, verifications, failing, snapshot, command, attempts,
                    registered, overwritten, torn, byHand, begun, disturbances >>

(* A process dies with its commands; the session is started again on a file that *)
(* loads.                                                                        *)
CrashRegistry(process) ==
    /\ disturbances < MaxDisturbances
    /\ process = "session" => file # Broken
    /\ disturbances' = disturbances + 1
    /\ torn' = (torn \/ \E c \in Commands : hostOf[c] = process /\ command[c].state = "written")
    /\ command' = [c \in Commands |-> IF hostOf[c] = process THEN Waiting ELSE command[c]]
    /\ snapshot' = IF process = "session" THEN Reloaded(verifications) ELSE snapshot
    /\ attempts' = IF process = "session" THEN {} ELSE attempts
    /\ checks' = IF process = "session" THEN {} ELSE checks
    /\ UNCHANGED << hostOf, proved, file, verifications, failing, health, registered, overwritten, byHand,
                    begun >>
--------------------------------------------------------------------------------
NoExecutors == [x \in Executors |-> "absent"]

InitRegistry ==
    /\ hostOf \in Hosts /\ file = NoExecutors /\ verifications = {} /\ failing = {}
    /\ health = [x \in Executors |-> "none"]
    /\ snapshot = SnapshotOf(NoExecutors, {})
    /\ command = [c \in Commands |-> Waiting]
    /\ attempts = {} /\ checks = {} /\ registered = {} /\ proved = {} /\ byHand = {}
    /\ overwritten = FALSE /\ torn = FALSE /\ begun = 0 /\ disturbances = 0

NextRegistry ==
    \/ \E c \in Commands :
         \/ WriteConfig(c) \/ Loads(c)
         \/ \E x \in Executors :
              \/ \E does \in {"register", "enable", "disable", "verify"} : BeginCommand(c, does, x)
              \/ \E success \in BOOLEAN : VerifyNext(c, x, success)
         \/ \E success \in BOOLEAN : Verified(c, success)
    \/ Edit(Broken) \/ \E x \in Executors, value \in {"absent", "off", "on"} : Edit([file EXCEPT ![x] = value])
    \/ \E x \in Executors :
         \/ LaunchOn(x)
         \/ \E result \in {"succeeded", "permanent", "transient"} : AttemptEnds(x, result)
         \/ \E available \in BOOLEAN : Checked(x, available)
    \/ \E process \in Processes : CrashRegistry(process)
    \/ Reload \/ RefreshErrors

RegistrySpec == InitRegistry /\ [][NextRegistry]_registry
--------------------------------------------------------------------------------
(* An Executor of the file that is on can be routed to once the file is loaded,  *)
(* unless its last verification failed, the command that wrote the file has not  *)
(* recorded it yet, or the file was edited or left by a crash.                   *)
EnabledIsVerified ==
    torn \/ \A x \in Enabled(file) :
        \/ <<x, file>> \in verifications \cup failing
        \/ \E c \in Commands : command[c].state = "written" /\ command[c].next = file

(* What the session routes to is on in its snapshot and was verified under it.     *)
RoutableWasVerified == \A x \in snapshot.routable :
    /\ x \in Enabled(snapshot.config)
    /\ <<x, snapshot.config>> \in proved

(* A registration that was confirmed stays, unless a command of another process  *)
(* or at the same time had not read it.                                          *)
RegistrationsStay == overwritten \/ \A x \in registered : file[x] # "absent"

(* A disabled Executor does not come back by what its attempts and the recovery  *)
(* checks find, only by a command.                                               *)
DisabledStays == (overwritten \/ torn) \/ \A x \in Executors :
    file[x] = "off" /\ x \notin byHand =>
        \/ health[x] = "disabled"
        \/ \E c \in Commands : command[c].state = "written" /\ command[c].target = x

(* CONTEXT.md:38: "Registration atomically replaces executors.yaml, records the  *)
(* digest-bound verification, enables the Executor and refreshes the snapshot".  *)
RegistryIsSound ==
    EnabledIsVerified /\ RoutableWasVerified /\ RegistrationsStay /\ DisabledStays
================================================================================
