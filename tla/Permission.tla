----------------------------- MODULE Permission ------------------------------
(* Permission requests of one Task: the capability requests an executor makes  *)
(* through its attempt's tool server, the promotion request of a finished      *)
(* attempt, the user's approvals and denials, and the DurableKernelWorkflow    *)
(* that decides them (execution/permission-workflow-service.ts,                *)
(* storage/permission-repo.ts, resource/permission-policy.ts). Every caller    *)
(* builds a workflow of its own, and each of them drains every permission      *)
(* event and application of the Task (KernelWorkflow), with its own hooks: a   *)
(* `flow` is one call with the context its hooks were made for.                *)
EXTENDS Integers, FiniteSets, Sequences

CONSTANTS Attempts,      \* attempts of the Task
          FirstAttempts, \* those that run from the beginning
          NextAttempt,   \* the attempt that recovers the workspace of another
          Requests,      \* the requests they may make
          AttemptOf,     \* the attempt of each request
          Promotions,    \* the requests for repository_promotion
          Fingerprint,   \* the same for the same demand of the same Subtask
          Rule,          \* what the rules say of it: see Effect
          MaxDistinct,   \* requests of one attempt that are not over budget
          Flows,         \* calls at one time
          MaxFaults      \* bound on expired reviews, failed applications and
                         \* crashes, together

(* A rule allows it; the platform denies it; nothing covers it, and it needs   *)
(* the user; nothing covers it.                                                *)
Effect == {"allow", "deny", "sensitive", "unknown"}
NoAttempt == "no attempt"

ASSUME PermissionAssumption ==
    /\ IsFiniteSet(Requests)
    /\ FirstAttempts \subseteq Attempts
    /\ NextAttempt \in [Attempts -> Attempts \cup {NoAttempt}]
    /\ AttemptOf \in [Requests -> Attempts]
    /\ Promotions \subseteq Requests
    /\ Rule \in [Requests -> Effect]
    /\ \A r, q \in Requests :
          Fingerprint[r] = Fingerprint[q] /\ AttemptOf[r] = AttemptOf[q] => r = q
    /\ \A r \in Promotions : Rule[r] = "sensitive"
    /\ MaxDistinct \in Nat /\ MaxFaults \in Nat

VARIABLES status,       \* the status column of permission_requests
          ordinal,      \* the distinct_request_ordinal of a request
          grants,       \* requests that have a row in permission_grants
          authorized,   \* requests approved in user_authorizations
          published,    \* the publication of a promotion request
          fresh,        \* escalated requests whose review has not expired
          events,       \* permission events: "absent", "pending" or "decided"
          actions,      \* the action decided for an event, and its application
          order,        \* pending events and applications, oldest first
          sandbox,      \* the sandbox of each attempt
          flows,        \* the calls in progress
          startup,      \* promotion requests startup has still to recover
          expired, failures, crashes   \* the faults so far, for their bound

requestVars == << status, ordinal, grants, authorized, published, fresh >>
ledgerVars == << events, actions, order >>
faults == << expired, failures, crashes >>
vars == << requestVars, ledgerVars, sandbox, flows, startup, faults >>

Status == {"none", "pending", "granted", "denied", "escalated"}
Published == {"none", "awaiting_approval", "pending", "denied"}
Events == {"requested", "represented", "approve", "deny"} \X Requests
Action == {"grant", "deny", "escalate", "recover"}
NoAction == [action |-> "none", application |-> "none"]
CallKind == {"tool", "promotion", "approve", "deny", "represent", "recover"}
Reviews == {"approve", "deny", "represent", "recover"}
NoFlow == [phase |-> "idle"]

Init ==
    /\ status = [r \in Requests |-> "none"]
    /\ ordinal = [r \in Requests |-> 0]
    /\ grants = {} /\ authorized = {}
    /\ published = [r \in Promotions |-> "none"]
    /\ fresh = {}
    /\ events = [e \in Events |-> "absent"]
    /\ actions = [e \in Events |-> NoAction]
    /\ order = << >>
    /\ sandbox = [a \in Attempts |-> IF a \in FirstAttempts THEN "running" ELSE "none"]
    /\ flows = [f \in Flows |-> NoFlow]
    /\ startup = {}
    /\ expired = 0 /\ failures = 0 /\ crashes = 0

FaultsLeft == expired + failures + crashes < MaxFaults

Kind(e) == e[1]
RequestOf(e) == e[2]

(* JavaScript runs one thing at a time: while a flow is between two awaits,    *)
(* in phase "sync", nobody else moves; only the process may die.               *)
Quiet == \A g \in Flows : flows[g].phase # "sync"
Idle(f) == Quiet /\ flows[f].phase = "idle"
To(f, flow) == flows' = [flows EXCEPT ![f] = flow]
Call(f, kind, r) == To(f, [phase |-> "sync", kind |-> kind, request |-> r])
Serving == Quiet /\ startup = {}

(* The events and applications in the order of their rows.                     *)
Queued == {order[i] : i \in DOMAIN order}
Last(e) == IF e \in Queued THEN order ELSE Append(order, e)
Without(e) ==
    IF e \notin Queued THEN order
    ELSE LET at == CHOOSE i \in DOMAIN order : order[i] = e
         IN [i \in 1 .. Len(order) - 1 |-> IF i < at THEN order[i] ELSE order[i + 1]]
Oldest(S) == {order[i] : i \in {j \in DOMAIN order : /\ order[j] \in S
                                                     /\ \A k \in 1 .. j - 1 : order[k] \notin S}}

(* enqueue: an event that exists is ignored.                                   *)
Enqueue(e) ==
    IF events[e] = "absent" \/ (Kind(e) = "represented" /\ events[e] = "decided")
    THEN /\ events' = [events EXCEPT ![e] = "pending"]
         /\ order' = Last(e)
         /\ UNCHANGED actions
    ELSE UNCHANGED ledgerVars

-----------------------------------------------------------------------------
(* request(): the executor asks for a capability; its sandbox is paused while  *)
(* the checkpoint is awaited. A request that is not pending is answered.       *)
Created(r) ==
    /\ status' = [status EXCEPT ![r] = IF @ = "none" THEN "pending" ELSE @]
    /\ ordinal' = [ordinal EXCEPT ![r] =
          IF @ = 0 THEN 1 + Cardinality({q \in Requests :
                              AttemptOf[q] = AttemptOf[r] /\ status[q] # "none"})
          ELSE @]

AskCapability(f, r) ==
    /\ Serving /\ Idle(f) /\ r \notin Promotions
    /\ sandbox[AttemptOf[r]] = "running"
    /\ status[r] \in {"none", "pending"}
    /\ Created(r)
    /\ sandbox' = [sandbox EXCEPT ![AttemptOf[r]] = "paused"]
    /\ To(f, [phase |-> "checkpoint", request |-> r])
    /\ UNCHANGED << grants, authorized, published, fresh, ledgerVars, startup, faults >>

CheckpointEnds(f) ==
    /\ Quiet
    /\ flows[f].phase = "checkpoint"
    /\ Enqueue(<< "requested", flows[f].request >>)
    /\ Call(f, "tool", flows[f].request)
    /\ UNCHANGED << requestVars, sandbox, startup, faults >>

Stopped(As) == [a \in Attempts |-> IF a \in As /\ sandbox[a] \in {"running", "paused"}
                                   THEN "stopped" ELSE sandbox[a]]
Resumed(a) == [sandbox EXCEPT ![a] = IF @ = "paused" THEN "running" ELSE @]

(* A mutant of CheckpointFails: the sandbox stays paused.                      *)
CheckpointFailsPaused(f) ==
    /\ Quiet
    /\ flows[f].phase = "checkpoint"
    /\ To(f, NoFlow)
    /\ UNCHANGED << requestVars, ledgerVars, sandbox, startup, faults >>

(* The checkpoint fails: the sandbox is resumed and the call throws.           *)
CheckpointFails(f) ==
    /\ Quiet
    /\ flows[f].phase = "checkpoint"
    /\ sandbox' = Resumed(AttemptOf[flows[f].request])
    /\ To(f, NoFlow)
    /\ UNCHANGED << requestVars, ledgerVars, startup, faults >>

(* requestRepositoryPromotion: the attempt has ended and is not suspended.     *)
AskPromotion(f, r) ==
    /\ Serving /\ Idle(f) /\ r \in Promotions
    /\ sandbox[AttemptOf[r]] = "running" /\ status[r] = "none"
    /\ Created(r)
    /\ Enqueue(<< "requested", r >>)
    /\ sandbox' = [sandbox EXCEPT ![AttemptOf[r]] = "stopped"]
    /\ Call(f, "promotion", r)
    /\ UNCHANGED << grants, authorized, published, fresh, startup, faults >>

(* resolve() of a request whose review is active.                              *)
Resolve(f, r, resolution) ==
    /\ Serving /\ Idle(f)
    /\ status[r] \in {"pending", "escalated"} /\ r \in fresh
    /\ r \in Promotions => published[r] # "none"
    /\ Enqueue(<< resolution, r >>)
    /\ Call(f, resolution, r)
    /\ UNCHANGED << requestVars, sandbox, startup, faults >>

(* The review of a request is older than 24 hours.                             *)
Expire(r) ==
    /\ Quiet
    /\ FaultsLeft /\ r \in fresh
    /\ fresh' = fresh \ {r}
    /\ expired' = expired + 1
    /\ UNCHANGED << status, ordinal, grants, authorized, published, ledgerVars, sandbox,
                    flows, startup, failures, crashes >>

(* reissuePublicationPermissionReview: presented again as it was.              *)
Represent(f, r) ==
    /\ Serving /\ Idle(f) /\ r \in Promotions \ fresh
    /\ published[r] = "awaiting_approval" /\ status[r] = "escalated"
    /\ \A e \in {"approve", "deny"} : actions[<< e, r >>].application # "applied"
    /\ Enqueue(<< "represented", r >>)
    /\ Call(f, "represent", r)
    /\ UNCHANGED << requestVars, sandbox, startup, faults >>

-----------------------------------------------------------------------------
(* decidePermission and evaluateCapabilityRequest of the kernel.               *)

Approved(r) == \E q \in Requests : /\ Fingerprint[q] = Fingerprint[r]
                                   /\ q \in authorized

(* A mutant of Evaluated: any approval of the user covers the request.         *)
EvaluatedLoosely(r) ==
    IF Rule[r] = "deny" THEN "deny"
    ELSE IF ordinal[r] > MaxDistinct THEN "escalate"
    ELSE IF Rule[r] = "allow" \/ authorized # {} THEN "grant"
    ELSE IF Rule[r] = "sensitive" THEN "escalate" ELSE "deny"

Evaluated(r) ==
    IF Rule[r] = "deny" THEN "deny"
    ELSE IF ordinal[r] > MaxDistinct THEN "escalate"
    ELSE IF Rule[r] = "allow" \/ Approved(r) THEN "grant"
    ELSE IF Rule[r] = "sensitive" THEN "escalate" ELSE "deny"

Decided(e) ==
    LET r == RequestOf(e) IN
    IF status[r] \notin {"pending", "escalated"}
    THEN IF status[r] = "granted" THEN "grant" ELSE "deny"
    ELSE CASE Kind(e) = "represented" -> "escalate"
           [] Kind(e) = "deny" -> "deny"
           [] Kind(e) = "approve" -> "recover"
           [] OTHER -> Evaluated(r)

-----------------------------------------------------------------------------
(* The drain of a flow.                                                        *)

Recoverable == Oldest({e \in Events : actions[e].application = "pending"})
Claimable == Oldest({e \in Events : events[e] = "pending"})

(* Nothing is left to apply: the oldest event is claimed and decided.          *)
Issue(f, e) ==
    /\ flows[f].phase = "sync"
    /\ Recoverable = {} /\ e \in Claimable
    /\ events' = [events EXCEPT ![e] = "decided"]
    /\ actions' = [actions EXCEPT ![e] = [action |-> Decided(e), application |-> "pending"]]
    /\ UNCHANGED << requestVars, order, sandbox, flows, startup, faults >>

(* The oldest application is applied, up to the first await of its handler.    *)
Starts(f, e, action) ==
    /\ flows[f].phase = "sync"
    /\ e \in Recoverable /\ actions[e].action = action
    /\ actions' = [actions EXCEPT ![e].application = "applying"]
    /\ To(f, [phase |-> "applying", event |-> e, kind |-> flows[f].kind,
              request |-> flows[f].request])
    /\ UNCHANGED << ordinal, events, order, sandbox, startup, faults >>

StartGrant(f, e) ==
    /\ Starts(f, e, "grant")
    /\ grants' = grants \cup {RequestOf(e)}
    /\ status' = [status EXCEPT ![RequestOf(e)] = "granted"]
    /\ UNCHANGED << authorized, published, fresh >>

StartDeny(f, e) ==
    /\ Starts(f, e, "deny")
    /\ status' = [status EXCEPT ![RequestOf(e)] = "denied"]
    /\ UNCHANGED << grants, authorized, published, fresh >>

(* A mutant of Escalated: the UPDATE has no condition on the status.           *)
EscalatedAnyway(r) == [status EXCEPT ![r] = "escalated"]

(* escalate: only a request that is open.                                      *)
Escalated(r) == [status EXCEPT ![r] = IF @ \in {"pending", "escalated"} THEN "escalated" ELSE @]

StartEscalate(f, e) ==
    /\ Starts(f, e, "escalate")
    /\ status' = Escalated(RequestOf(e))
    /\ fresh' = fresh \cup {RequestOf(e)}
    /\ UNCHANGED << grants, authorized, published >>

(* A mutant of Reviewed: the first publication of the Task that waits.         *)
ReviewedOfTask(f) == IF \E p \in Promotions : published[p] = "awaiting_approval"
                     THEN CHOOSE p \in Promotions : published[p] = "awaiting_approval"
                     ELSE flows[f].request

(* The request a flow was made for, whose publication its hooks know.          *)
Reviewed(f) == flows[f].request

(* onRecoveryAuthorized: a promotion is published if the draining flow reviews *)
(* one, and it is that one; an attempt's own workflow does nothing.            *)
StartRecover(f, e) ==
    LET p == Reviewed(f) IN
    /\ Starts(f, e, "recover")
    /\ authorized' = authorized \cup {RequestOf(e)}
    /\ IF flows[f].kind \in Reviews /\ RequestOf(e) \in Promotions
       THEN /\ p \in Promotions /\ published[p] = "awaiting_approval"
            /\ published' = [published EXCEPT ![p] = "pending"]
       ELSE UNCHANGED published
    /\ UNCHANGED << status, grants, fresh >>

(* The publication does not wait for approval: the application is uncertain.   *)
RecoverRefused(f, e) ==
    LET p == Reviewed(f) IN
    /\ flows[f].phase = "sync"
    /\ e \in Recoverable /\ actions[e].action = "recover"
    /\ flows[f].kind \in Reviews /\ RequestOf(e) \in Promotions
    /\ p \in Promotions => published[p] # "awaiting_approval"
    /\ authorized' = authorized \cup {RequestOf(e)}
    /\ actions' = [actions EXCEPT ![e].application = "uncertain"]
    /\ To(f, [flows[f] EXCEPT !.phase = "broken"])
    /\ UNCHANGED << status, ordinal, grants, published, fresh, events, order, sandbox,
                    startup, faults >>

(* What the handler awaits is done: the sandbox of the attempt the flow is for *)
(* is resumed after a grant or a denial; that of an attempt that asks a        *)
(* capability is stopped after an escalation.                                  *)
ApplyEnds(f) ==
    LET e == flows[f].event
        a == AttemptOf[flows[f].request] IN
    /\ Quiet /\ flows[f].phase = "applying"
    /\ actions' = [actions EXCEPT ![e].application = "applied"]
    /\ order' = Without(e)
    /\ sandbox' = CASE actions[e].action \in {"grant", "deny"} -> Resumed(a)
                    [] actions[e].action = "escalate" /\ flows[f].kind = "tool" -> Stopped({a})
                    [] OTHER -> sandbox
    /\ Call(f, flows[f].kind, flows[f].request)
    /\ UNCHANGED << requestVars, events, startup, faults >>

(* It throws: the application is uncertain and the drain ends.                 *)
ApplyFails(f) ==
    /\ Quiet /\ flows[f].phase = "applying"
    /\ FaultsLeft
    /\ failures' = failures + 1
    /\ actions' = [actions EXCEPT ![flows[f].event].application = "uncertain"]
    /\ To(f, [phase |-> "broken", kind |-> flows[f].kind, request |-> flows[f].request])
    /\ UNCHANGED << requestVars, events, order, sandbox, startup, expired, crashes >>

(* The user has an uncertain application retried.                              *)
Retry(e) ==
    /\ Serving
    /\ actions[e].application = "uncertain"
    /\ actions' = [actions EXCEPT ![e].application = "pending"]
    /\ UNCHANGED << requestVars, events, order, sandbox, flows, startup, faults >>

(* The drain is over: submit() or recover() returns to its caller.             *)
Drained(f) ==
    \/ flows[f].phase = "sync" /\ Recoverable = {} /\ Claimable = {}
    \/ Quiet /\ flows[f].phase = "broken"

Returns(f, kinds) == Drained(f) /\ flows[f].kind \in kinds
Returned(f) == To(f, NoFlow) /\ startup' = startup \ {flows[f].request}

AskReturns(f) ==
    /\ Returns(f, {"tool", "approve", "represent"})
    /\ Returned(f)
    /\ UNCHANGED << requestVars, ledgerVars, sandbox, faults >>

(* An escalated promotion lands with its publication, or loses to a fence and  *)
(* is withdrawn; any other status is an exception.                             *)
PromotionReturns(f) ==
    LET r == flows[f].request IN
    /\ Returns(f, {"promotion"})
    /\ Returned(f)
    /\ \/ /\ status[r] = "escalated"
          /\ published' = [published EXCEPT ![r] = "awaiting_approval"]
          /\ UNCHANGED status
       \/ /\ status' = [status EXCEPT ![r] = IF @ = "escalated" THEN "denied" ELSE @]
          /\ UNCHANGED published
    /\ UNCHANGED << ordinal, grants, authorized, fresh, ledgerVars, sandbox, faults >>

(* resolvePermission after the denial: markDenied.                             *)
DenialReturns(f) ==
    LET r == flows[f].request IN
    /\ Returns(f, {"deny"})
    /\ Returned(f)
    /\ published' = IF r \in Promotions
                    THEN [published EXCEPT ![r] = IF @ = "awaiting_approval" THEN "denied" ELSE @]
                    ELSE published
    /\ UNCHANGED << status, ordinal, grants, authorized, fresh, ledgerVars, sandbox, faults >>

-----------------------------------------------------------------------------
(* An attempt is interrupted, or ends; its successor starts in its workspace.  *)
Stop(a) ==
    /\ Quiet
    /\ sandbox[a] = "running"
    /\ sandbox' = Stopped({a})
    /\ UNCHANGED << requestVars, ledgerVars, flows, startup, faults >>

Launch(a) ==
    /\ Serving
    /\ sandbox[a] = "none"
    /\ \E b \in Attempts : NextAttempt[b] = a /\ sandbox[b] = "stopped"
    /\ sandbox' = [sandbox EXCEPT ![a] = "running"]
    /\ UNCHANGED << requestVars, ledgerVars, flows, startup, faults >>

(* The process dies, and starts: reconcileProcessing, then the reviews of the  *)
(* publications that wait for approval.                                        *)
Crash ==
    /\ FaultsLeft
    /\ crashes' = crashes + 1
    /\ flows' = [f \in Flows |-> NoFlow]
    /\ sandbox' = Stopped(Attempts)
    /\ actions' = [e \in Events |-> IF actions[e].application = "applying"
                                    THEN [actions[e] EXCEPT !.application = "pending"]
                                    ELSE actions[e]]
    /\ startup' = {r \in Promotions : published[r] = "awaiting_approval"}
    /\ UNCHANGED << requestVars, events, order, expired, failures >>

Settled(r) == \E k \in {"approve", "deny"} : actions[<< k, r >>].application = "applied"

StartupSkips(r) ==
    /\ Quiet /\ r \in startup /\ \A f \in Flows : flows[f].phase = "idle"
    /\ status[r] \notin {"pending", "escalated"} \/ Settled(r) \/ r \notin fresh
    /\ startup' = startup \ {r}
    /\ UNCHANGED << requestVars, ledgerVars, sandbox, flows, faults >>

StartupRecovers(f, r) ==
    /\ Quiet /\ r \in startup /\ \A g \in Flows : flows[g].phase = "idle"
    /\ status[r] \in {"pending", "escalated"} /\ ~Settled(r) /\ r \in fresh
    /\ Call(f, "recover", r)
    /\ UNCHANGED << requestVars, ledgerVars, sandbox, startup, faults >>

(* A review that is still open is presented again.                             *)
RecoverReturns(f) ==
    LET r == flows[f].request IN
    /\ Returns(f, {"recover"})
    /\ IF status[r] = "escalated"
       THEN /\ Enqueue(<< "represented", r >>)
            /\ Call(f, "represent", r)
            /\ UNCHANGED startup
       ELSE Returned(f) /\ UNCHANGED ledgerVars
    /\ UNCHANGED << requestVars, sandbox, faults >>

Drains(f) ==
    \/ /\ flows[f].phase = "sync"
       /\ \/ \E e \in Claimable : Issue(f, e)
          \/ \E e \in Recoverable :
                \/ StartGrant(f, e) \/ StartDeny(f, e) \/ StartEscalate(f, e)
                \/ StartRecover(f, e) \/ RecoverRefused(f, e)
    \/ ApplyEnds(f) \/ ApplyFails(f)
    \/ AskReturns(f) \/ PromotionReturns(f) \/ DenialReturns(f) \/ RecoverReturns(f)

Calls(f) ==
    \/ \E r \in Requests : \/ AskCapability(f, r) \/ AskPromotion(f, r) \/ Represent(f, r)
                           \/ \E k \in {"approve", "deny"} : Resolve(f, r, k)
                           \/ StartupRecovers(f, r)
    \/ CheckpointEnds(f) \/ CheckpointFails(f)

Next ==
    \/ \E f \in Flows : Calls(f) \/ Drains(f)
    \/ \E r \in Requests : Expire(r) \/ StartupSkips(r)
    \/ \E e \in Events : Retry(e)
    \/ \E a \in Attempts : Stop(a) \/ Launch(a)
    \/ Crash

Spec == Init /\ [][Next]_vars

-----------------------------------------------------------------------------
TypeOK ==
    /\ status \in [Requests -> Status]
    /\ ordinal \in [Requests -> Nat]
    /\ published \in [Promotions -> Published]
    /\ events \in [Events -> {"absent", "pending", "decided"}]
    /\ grants \subseteq Requests /\ authorized \subseteq Requests
    /\ fresh \subseteq Requests /\ startup \subseteq Promotions

(* A grant rests on a rule or on the user's approval of the same demand, by    *)
(* this attempt or by an earlier one, and never overrides a denial by the      *)
(* platform: whoever drains the event, after whatever crash.                   *)
GrantIsAuthorized ==
    \A r \in grants : Rule[r] # "deny" /\ (Rule[r] = "allow" \/ Approved(r))

(* No late escalation, retry or restart opens a denied request again.          *)
DeniedIsFinal == [][\A r \in Requests : status[r] = "denied" => status'[r] = "denied"]_vars

(* ADR-0027: approval authorizes one exact candidate promotion.                *)
ApprovalIsExact == \A p \in Promotions : published[p] = "pending" => p \in authorized

(* As long as no process dies and no application fails, whatever calls run at  *)
(* the same time: an approval publishes its own candidate, and it does.        *)
UndisturbedApproval ==
    failures + crashes = 0 =>
      /\ ApprovalIsExact
      /\ \A p \in Promotions :
           actions[<< "approve", p >>] = [action |-> "recover", application |-> "applied"]
             => published[p] # "awaiting_approval"

(* And no sandbox stays paused when the call that paused it is over.           *)
PausedIsBeingDecided ==
    failures + crashes = 0 =>
      \A a \in Attempts : sandbox[a] = "paused" =>
        \E f \in Flows : flows[f].phase # "idle" /\ AttemptOf[flows[f].request] = a
=============================================================================
