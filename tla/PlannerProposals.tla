--------------------------- MODULE PlannerProposals ----------------------------
(* How a Planner's proposal becomes a Kernel decision: the process runner that *)
(* starts one Planner at a time for a session, the bridge that queues what the *)
(* Planners of the session submit, MetaclawSession.submitPlannerProposal with  *)
(* its planner_proposal_* tables, and what a crash leaves of it. The Planner   *)
(* itself is external: it proposes whatever it likes, in any order, replays or *)
(* revises. A submission is a plan of a turn: its id is derived from both.     *)
EXTENDS Integers, Sequences, FiniteSets

CONSTANTS Turns,             \* one per prompt
          Modes,             \* of their Planners: rpc, validation (rpc too) or interactive
          Plans,
          Effects,           \* what the plans ask for: task, reply or grant, by plan
          MaxQueued,         \* bound on the requests in the bridge
          MaxPlannerCrashes

VARIABLES mode,        \* of each turn's Planner
          effect,      \* of each plan
          planner,     \* of each turn: idle, queued, running, resolved or failed
          alive,       \* turns whose Planner process lives, with or without its run
          prompts,     \* sessionQueues of the runner: prompts in their order
          told,        \* what the turn's Planner was told last: accepted, answered
                       \* otherwise, or waiting for an answer
          requests,    \* submissionQueues of the bridge
          serving,     \* what submitPlannerProposal has done for the first of them
          accepted,    \* accepted_submission_id of each turn
          submission,  \* status of each submission
          kernel,      \* its event, decision and application
          applied,     \* how often its decision took effect
          answers,     \* final answers it was given
          starting,    \* startup recovery is running
          plannerCrashes

proposals == << mode, effect, planner, alive, prompts, told, requests, serving, accepted,
                submission, kernel, applied, answers, starting, plannerCrashes >>

Submissions == Turns \X Plans
NoPlan == "no plan"
ASSUME PlannersAssumption ==
    /\ Modes \subseteq [Turns -> {"rpc", "validation", "interactive"}]
    /\ Effects \subseteq [Plans -> {"task", "reply", "grant"}]
    /\ NoPlan \notin Plans
Pending == {"event", "issued", "refusal", "applying"}
Rpc == {t \in Turns : mode[t] # "interactive"}
Finals == {"accepted", "rejected"}
NotReserved == serving # "reserved"   \* nothing else runs until the event is recorded
-------------------------------------------------------------------------------
(* The process runner.                                                         *)

(* Faulty: a run does not wait for the one before it.                          *)
StartsAtOnce(t) == TRUE

StartsNow(t) == prompts = << >>

(* A prompt of the user, or of a replan. An interactive Planner is its own.    *)
Prompt(t) ==
    /\ planner[t] = "idle" /\ ~starting /\ NotReserved
    /\ LET now == t \in Rpc => StartsNow(t) IN
         /\ planner' = [planner EXCEPT ![t] = IF now THEN "running" ELSE "queued"]
         /\ alive' = IF now THEN alive \cup {t} ELSE alive
    /\ prompts' = IF t \in Rpc THEN Append(prompts, t) ELSE prompts
    /\ UNCHANGED << mode, effect, told, requests, serving, accepted,
                    submission, kernel, applied, answers, starting,
                    plannerCrashes >>

(* The run settles, leaving the Planners of S, and the next one of the session *)
(* starts.                                                                     *)
Settles(t, outcome, S) ==
    /\ t \in Rpc /\ planner[t] = "running" /\ NotReserved
    /\ prompts' = Tail(prompts)
    /\ LET next == {u \in Turns \ {t} : prompts' # << >> /\ u = Head(prompts')} IN
         /\ planner' = [u \in Turns |-> CASE u = t -> outcome
                                         [] u \in next -> "running"
                                         [] OTHER -> planner[u]]
         /\ alive' = S \cup next
    /\ told' = [told EXCEPT ![t] = IF t \in S THEN told[t] ELSE "none"]
    /\ UNCHANGED << mode, effect, requests, serving, accepted, submission,
                    kernel, applied, answers, starting, plannerCrashes >>

(* agent_end after a submission was accepted, and the process has exited.      *)
Resolves(t) == told[t] = "accepted" /\ Settles(t, "resolved", alive \ {t})

(* A timeout, a malformed or long line, an exit, an error of the model, the    *)
(* end of the turn without an accepted submission: the process is sent a       *)
(* SIGTERM and nobody waits. What it has submitted stays in the bridge, and it *)
(* may submit more, beside the Planner of the next run.                        *)
Fails(t) == Settles(t, "failed", alive) \/ Settles(t, "failed", alive \ {t})

PlannerExits(t) ==
    /\ t \in alive /\ planner[t] = "failed"
    /\ alive' = alive \ {t}
    /\ told' = [told EXCEPT ![t] = "none"]
    /\ UNCHANGED << mode, effect, planner, prompts, requests, serving,
                    accepted, submission, kernel, applied, answers, starting,
                    plannerCrashes >>
-------------------------------------------------------------------------------
(* The bridge.                                                                 *)

(* The Planner submits, after an answer or, when its user interrupts it,       *)
(* before; accepted ends its turn.                                             *)
Submit(t, p) ==
    /\ t \in alive /\ Len(requests) < MaxQueued /\ NotReserved
    /\ told[t] \notin {"accepted", "waiting"} \/ (t \notin Rpc /\ told[t] = "waiting")
    /\ requests' = Append(requests, <<t, p>>)
    /\ told' = [told EXCEPT ![t] = "waiting"]
    /\ UNCHANGED << mode, effect, planner, alive, prompts, serving, accepted,
                    submission, kernel, applied, answers, starting,
                    plannerCrashes >>

(* The answer to the first request, and the next one's turn.                   *)
AnswerFirst(s, status) ==
    /\ requests' = Tail(requests) /\ serving' = "none"
    /\ told' = [told EXCEPT ![s[1]] = IF s[1] \notin alive THEN "none"
                                       ELSE IF status = "accepted" THEN "accepted"
                                       ELSE "answered"]
    /\ answers' = IF status \in Finals THEN [answers EXCEPT ![s] = @ \cup {status}] ELSE answers
-------------------------------------------------------------------------------
(* submitPlannerProposal.                                                      *)

(* Faulty: a turn takes another submission after it accepted one.              *)
NeverLocked(s) == FALSE

Locked(s) == accepted[s[1]] \notin {NoPlan, s[2]}

(* Faulty: a submission is taken again while it has no result.                 *)
OnlyFinal(s) == submission[s] \in Finals

Known(s) == submission[s] # "none"

(* reserveSubmission finds the submission's row, or a lock on its turn. A      *)
(* permission is not granted by what an interactive Planner proposes: it gets  *)
(* no row.                                                                     *)
Replied(s) ==
    IF mode[s[1]] = "interactive" /\ effect[s[2]] = "grant" THEN "rejected"
    ELSE IF Locked(s) THEN "conflict"
    ELSE IF Known(s) /\ submission[s] \in Finals THEN submission[s] ELSE "uncertain"

Reply ==
    /\ requests # << >> /\ serving = "none" /\ ~starting
    /\ LET s == Head(requests) IN
         /\ Locked(s) \/ Known(s) \/ (mode[s[1]] = "interactive" /\ effect[s[2]] = "grant")
         /\ AnswerFirst(s, Replied(s))
    /\ UNCHANGED << mode, effect, planner, alive, prompts, accepted,
                    submission, kernel, applied, starting, plannerCrashes >>

Reserve ==
    /\ requests # << >> /\ serving = "none" /\ ~starting
    /\ LET s == Head(requests) IN
         /\ ~Locked(s) /\ ~Known(s)
         /\ ~(mode[s[1]] = "interactive" /\ effect[s[2]] = "grant")
         /\ submission' = [submission EXCEPT ![s] = "submitting"]
    /\ serving' = "reserved"
    /\ UNCHANGED << mode, effect, planner, alive, prompts, told, requests,
                    accepted, kernel, applied, answers, starting,
                    plannerCrashes >>

(* completeSubmission.                                                         *)
CompleteSubmission(s, status) ==
    /\ submission' = [submission EXCEPT ![s] = status]
    /\ accepted' = IF status = "accepted" THEN [accepted EXCEPT ![s[1]] = s[2]] ELSE accepted
    /\ AnswerFirst(s, status)

(* Validation ends here for an invalid plan, and for one that only a replan    *)
(* asked for.                                                                  *)
Validate(valid) ==
    /\ serving = "reserved"
    /\ valid => mode[Head(requests)[1]] = "validation"
    /\ CompleteSubmission(Head(requests), IF valid THEN "accepted" ELSE "rejected")
    /\ UNCHANGED << mode, effect, planner, alive, prompts, kernel, applied,
                    starting, plannerCrashes >>

(* The event has the id of its submission: it is recorded once.                *)
RecordedEvent(s) == [kernel EXCEPT ![s] = IF @ = "none" THEN "event" ELSE @]

(* submitValidatedPlanningAgentPlan: the workflow records the event.           *)
Propose ==
    /\ serving = "reserved" /\ mode[Head(requests)[1]] # "validation"
    /\ kernel' = RecordedEvent(Head(requests))
    /\ serving' = "proposed"
    /\ UNCHANGED << mode, effect, planner, alive, prompts, told, requests,
                    accepted, submission, applied, answers, starting,
                    plannerCrashes >>

(* Faulty: the decision counts, applied or not.                                *)
HasDecision(s) == kernel[s] \in {"issued", "applied", "applying"}

TookEffect(s) == kernel[s] = "applied"

(* What the session finds when the workflow returns.                           *)
Conclusion(s) == IF TookEffect(s) THEN "accepted"
              ELSE IF kernel[s] = "refused" THEN "rejected" ELSE "uncertain"

(* The workflow has returned: a permission is now resolved, or that throws, as *)
(* the workflow may.                                                           *)
Conclude(throws) ==
    /\ serving = "proposed"
    /\ LET s == Head(requests) IN
         /\ applied' = IF effect[s[2]] = "grant" /\ ~throws
                       THEN [applied EXCEPT ![s] = @ + 1] ELSE applied
         /\ IF ~throws /\ Conclusion(s) \in Finals THEN CompleteSubmission(s, Conclusion(s))
            ELSE /\ submission' = [submission EXCEPT ![s] = "uncertain"]   \* markUncertain
                 /\ AnswerFirst(s, "uncertain") /\ UNCHANGED accepted
    /\ UNCHANGED << mode, effect, planner, alive, prompts, kernel, starting,
                    plannerCrashes >>
-------------------------------------------------------------------------------
(* The workflow, of a submission or of the startup, drains every planning      *)
(* event and application it finds, its own or an older one.                    *)
WorkflowRuns == starting \/ serving = "proposed"

Decide(s, refused) ==
    /\ WorkflowRuns /\ kernel[s] = "event"
    /\ refused => effect[s[2]] # "grant"   \* it was validated against the same request
    /\ kernel' = [kernel EXCEPT ![s] = IF refused THEN "refusal" ELSE "issued"]
    /\ UNCHANGED << mode, effect, planner, alive, prompts, told, requests,
                    serving, accepted, submission, applied, answers, starting,
                    plannerCrashes >>

(* record_permission_resolution is not an action of the startup's workflow.    *)
Applies(s) == starting => effect[s[2]] # "grant"

(* Applying it: the Task is created, the reply delivered; a refusal only       *)
(* prints, and a permission is only recorded. A Task's id is derived from its  *)
(* event, and creating it again throws.                                        *)
Apply(s) ==
    /\ WorkflowRuns /\ Applies(s)
    /\ kernel[s] \in {"issued", "refusal"}
    /\ IF kernel[s] = "refusal"
       THEN kernel' = [kernel EXCEPT ![s] = "refused"] /\ UNCHANGED applied
       ELSE IF effect[s[2]] = "task" /\ applied[s] > 0
       THEN kernel' = [kernel EXCEPT ![s] = "failed"] /\ UNCHANGED applied
       ELSE /\ kernel' = [kernel EXCEPT ![s] = "applying"]
            /\ applied' = IF effect[s[2]] = "grant" THEN applied
                          ELSE [applied EXCEPT ![s] = @ + 1]
    /\ UNCHANGED << mode, effect, planner, alive, prompts, told, requests,
                    serving, accepted, submission, answers, starting,
                    plannerCrashes >>

(* It throws before it has taken effect.                                       *)
ApplyFails(s) ==
    /\ WorkflowRuns /\ Applies(s) /\ kernel[s] = "issued"
    /\ kernel' = [kernel EXCEPT ![s] = "failed"]
    /\ UNCHANGED << mode, effect, planner, alive, prompts, told, requests,
                    serving, accepted, submission, applied, answers, starting,
                    plannerCrashes >>

Applied(s) ==
    /\ WorkflowRuns /\ kernel[s] = "applying"
    /\ kernel' = [kernel EXCEPT ![s] = "applied"]
    /\ UNCHANGED << mode, effect, planner, alive, prompts, told, requests,
                    serving, accepted, submission, applied, answers, starting,
                    plannerCrashes >>
-------------------------------------------------------------------------------
(* The program stops. Its Planners, the interactive one for certain, may stay, *)
(* connect again and replay or revise what they have had no answer to. Startup *)
(* makes every application that was under way pending again.                   *)
CrashPlanners ==
    /\ plannerCrashes < MaxPlannerCrashes /\ ~starting
    /\ plannerCrashes' = plannerCrashes + 1
    /\ requests' = << >> /\ serving' = "none" /\ prompts' = << >> /\ starting' = TRUE
    /\ planner' = [t \in Turns |-> IF t \in Rpc /\ planner[t] \in {"queued", "running"}
                                   THEN "failed" ELSE planner[t]]
    /\ told' = [t \in Turns |-> IF told[t] = "waiting" THEN "none" ELSE told[t]]
    /\ kernel' = [s \in Submissions |-> IF kernel[s] = "applying" THEN "issued" ELSE kernel[s]]
    /\ UNCHANGED << mode, effect, alive, accepted, submission, applied, answers
                    >>

(* The startup's workflow has recovered, or the startup was blocked and it     *)
(* never ran.                                                                  *)
Started ==
    /\ starting /\ \A s \in Submissions : kernel[s] # "applying"
    /\ starting' = FALSE
    /\ UNCHANGED << mode, effect, planner, alive, prompts, told, requests,
                    serving, accepted, submission, kernel, applied, answers,
                    plannerCrashes >>
-------------------------------------------------------------------------------
InitProposals ==
    /\ mode \in Modes /\ effect \in Effects
    /\ planner = [t \in Turns |-> "idle"] /\ told = [t \in Turns |-> "none"]
    /\ accepted = [t \in Turns |-> NoPlan]
    /\ alive = {} /\ prompts = << >> /\ requests = << >> /\ serving = "none" /\ starting = FALSE
    /\ submission = [s \in Submissions |-> "none"] /\ kernel = [s \in Submissions |-> "none"]
    /\ applied = [s \in Submissions |-> 0] /\ answers = [s \in Submissions |-> {}]
    /\ plannerCrashes = 0

NextProposals ==
    \/ Reply \/ Reserve \/ Propose \/ CrashPlanners \/ Started
    \/ \E throws \in BOOLEAN : Conclude(throws)
    \/ \E valid \in BOOLEAN : Validate(valid)
    \/ \E t \in Turns : Prompt(t) \/ Resolves(t) \/ Fails(t) \/ PlannerExits(t)
    \/ \E t \in Turns, p \in Plans : Submit(t, p)
    \/ \E s \in Submissions :
         \/ Apply(s) \/ ApplyFails(s) \/ Applied(s)
         \/ \E refused \in BOOLEAN : Decide(s, refused)

ProposalsSpec == InitProposals /\ [][NextProposals]_proposals
-------------------------------------------------------------------------------
(* A turn accepts one submission, the one that locks it.                       *)
OneAccepted == \A s \in Submissions : submission[s] = "accepted" => accepted[s[1]] = s[2]

(* An accepted submission has taken effect, unless it only asked for           *)
(* validation, and a rejected one has not.                                     *)
AcceptedIsApplied == \A s \in Submissions :
    /\ mode[s[1]] = "validation" => kernel[s] = "none"
    /\ (submission[s] = "accepted" /\ mode[s[1]] # "validation") => applied[s] > 0
    /\ submission[s] = "rejected" => applied[s] = 0

(* No submission takes effect twice, however often it is sent. Only a crash    *)
(* between an effect and its record repeats it, and never creates a Task again. *)
TakesEffectOnce == \A s \in Submissions :
    applied[s] <= IF effect[s[2]] = "reply" THEN 1 + plannerCrashes ELSE 1

(* Every final answer to a submission is the one its row keeps. An interactive *)
(* permission has none.                                                        *)
AnswersAgree == \A s \in Submissions :
    answers[s] \subseteq {submission[s]} \/ (mode[s[1]] = "interactive" /\ effect[s[2]] = "grant")

(* The runs of a session follow one another; one that succeeds has an accepted *)
(* submission and leaves no process, and a Planner at large is of one that did *)
(* not.                                                                        *)
RunsFollow ==
    /\ Cardinality({t \in Rpc : planner[t] = "running"}) <= 1
    /\ \A t \in Turns : planner[t] = "resolved" => accepted[t] # NoPlan
    /\ \A t \in alive : planner[t] \in {"running", "failed"}

(* "Each run owns one Pi process and one session writer. Runs targeting the    *)
(* same session are serialized so Gateway/Feishu cannot corrupt the Pi session *)
(* file" (planner-process-runner.ts:52).                                       *)
OneSessionWriter == \A t, u \in alive \cap Rpc : t = u

(* Replays, revisions, timeouts and a crash neither lose the lock of a turn    *)
(* nor apply a submission again nor answer it differently                      *)
(* (docs/adr/2026-07-31-pi-planner-tui-migration.md:402).                      *)
ProposalIsExact ==
    OneAccepted /\ AcceptedIsApplied /\ TakesEffectOnce /\ AnswersAgree /\ RunsFollow
===============================================================================
